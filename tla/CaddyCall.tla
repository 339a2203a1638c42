----------------------------- MODULE CaddyCall ------------------------------
(***************************************************************************)
(* One request at a time on the Caddy manager, with its call and what it    *)
(* found at its start remembered in a history variable.                     *)
(***************************************************************************)
EXTENDS Caddy

VARIABLE before    \* the last call and its caller, the files when it began, and
                   \* whether Caddy served them

Begins(c) == call[c].at = "idle" /\ call'[c].at # "idle"

Found(by, op, id) ==
    [files |-> files, inSync |-> Adapts(files) /\ live = Served(files),
     by |-> by, op |-> op, id |-> id]

CallInit == Init /\ before = Found("none", "none", Root)

CallNext ==
    /\ Next
    /\ \/ \E c \in Callers : Begins(c) /\ before' = Found(c, call'[c].op, call'[c].id)
       \/ (\A c \in Callers : ~Begins(c)) /\ UNCHANGED before

\* c has the answer of the last call.
Answered(c) == call[c].at = "returned" /\ before.by = c

CallSpec == CallInit /\ [][CallNext]_<<vars, before>>

\* A call that reports an error has put every file back, whichever of its
\* steps failed and although the request may have been cancelled meanwhile
\* (the restoreFile calls of manager.go:71-211).
FailedCallRestoresFiles ==
    \A c \in Callers :
        Answered(c) /\ call[c].result = "err" => files = before.files

\* A removal that nothing disturbs removes the site file, the last one too
\* (manager_test.go:181-207, manager.go:171-192).
RemovalTakesEffect ==
    \A c \in Callers :
        Answered(c) /\ before.op = "remove" => files[before.id] = Absent

\* When a call has ended Caddy serves what the files say, if they were valid and
\* it served them before: no failed call leaves its configuration live.  The
\* exception is a request that was cancelled, whose undo cannot reload
\* (manager.go:118-127, 194-203).
LiveMatchesFiles ==
    \A c \in Callers :
        Answered(c) /\ c \notin cancelled /\ before.inSync =>
            live = Served(files)
=============================================================================
