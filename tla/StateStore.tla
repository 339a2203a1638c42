----------------------------- MODULE StateStore -----------------------------
(***************************************************************************)
(* A registry on a JSON state file (state_store.go, and the lock discipline *)
(* that every method of SiteRegistry and PHPRegistry follows): take the     *)
(* registry mutex, give up if the request's context is done, load the file, *)
(* work out the new state in memory, write it to path + ".tmp", rename the  *)
(* temporary over the file, release the mutex.                              *)
(*                                                                          *)
(* The operation itself is the parameter Apply: SiteRegistry and            *)
(* PHPRegistry give it.  The daemon may die at any step (killed, or stopped *)
(* while requests are in flight); the mutex dies with it, the two files do  *)
(* not.  Any file-system call may fail.                                     *)
(***************************************************************************)
CONSTANTS
    Callers,      \* goroutines that call the registry
    Ops,          \* operations: the method with its arguments
    States,       \* decoded contents of the state file
    Empty,        \* the zero state, used when there is no file
    Apply(_, _),  \* Apply(op, s): [answer, next, save], see the assumption
    Answers,      \* the answers an operation may give
    NoOp,         \* a caller between two calls
    NoPlan,       \* a caller that has not loaded the file
    NoAnswer,     \* no answer yet
    Failed,       \* the answer of a call that met a done context or an I/O error
    Nobody,       \* the mutex is free
    Absent,       \* a file that does not exist
    Torn          \* a file that holds a part of an encoded state

\* An operation that saves nothing leaves the state as it found it.
ASSUME ApplyAssumption ==
    \A o \in Ops, s \in States :
        /\ Apply(o, s) \in [answer : Answers, next : States, save : BOOLEAN]
        /\ ~Apply(o, s).save => Apply(o, s).next = s

ASSUME ValuesAssumption ==
    /\ Empty \in States
    /\ NoAnswer \notin Answers \cup {Failed}
    /\ \A o \in Ops : o # NoOp
    /\ Nobody \notin Callers
    /\ Absent # Torn
    /\ \A s \in States : s # Absent /\ s # Torn

VARIABLES
    file,         \* contents of the state file
    temp,         \* contents of path + ".tmp"
    lock,         \* holder of the registry mutex
    pc,           \* where each caller is in its call
    op,           \* the operation it performs
    plan,         \* the outcome it worked out and is saving
    answer,       \* what it will return
    cancelled     \* its request context is done

vars == <<file, temp, lock, pc, op, plan, answer, cancelled>>

Pcs == {"idle", "lock", "load", "open", "fill", "rename", "unlock"}

Init ==
    /\ file = Absent
    /\ temp = Absent
    /\ lock = Nobody
    /\ pc = [c \in Callers |-> "idle"]
    /\ op = [c \in Callers |-> NoOp]
    /\ plan = [c \in Callers |-> NoPlan]
    /\ answer = [c \in Callers |-> NoAnswer]
    /\ cancelled = [c \in Callers |-> FALSE]

-----------------------------------------------------------------------------
\* loadStateFile: a file that is not there is the zero state.
Decode(f) == IF f = Absent THEN Empty ELSE f

Goto(c, l) == pc' = [pc EXCEPT ![c] = l]

\* Mutant of Answer: a return that no deferred Unlock follows.
AnswerAndReturn(c, a) ==
    /\ answer' = [answer EXCEPT ![c] = a]
    /\ plan' = [plan EXCEPT ![c] = NoPlan]
    /\ Goto(c, "returned")

\* The call has its answer; what is left is the deferred Unlock.
Answer(c, a) ==
    /\ answer' = [answer EXCEPT ![c] = a]
    /\ plan' = [plan EXCEPT ![c] = NoPlan]
    /\ Goto(c, "unlock")

Invoke(c, o) ==
    /\ pc[c] = "idle"
    /\ op' = [op EXCEPT ![c] = o]
    /\ Goto(c, "lock")
    /\ UNCHANGED <<file, temp, lock, plan, answer, cancelled>>

\* The client goes away or its timeout expires.
Cancel(c) ==
    /\ pc[c] # "idle"
    /\ cancelled' = [cancelled EXCEPT ![c] = TRUE]
    /\ UNCHANGED <<file, temp, lock, pc, op, plan, answer>>

\* Mutant of Acquire: the methods share the lock, as with RLock.
AcquireShared(c) ==
    /\ pc[c] = "lock"
    /\ lock' = c
    /\ IF cancelled[c]
         THEN Answer(c, Failed)
         ELSE Goto(c, "load") /\ UNCHANGED <<answer, plan>>
    /\ UNCHANGED <<file, temp, op, cancelled>>

\* mu.Lock() and the select on ctx.Done() that follows it.  A context that
\* is done later than this does not stop the call any more.
Acquire(c) ==
    /\ pc[c] = "lock"
    /\ lock = Nobody
    /\ lock' = c
    /\ IF cancelled[c]
         THEN Answer(c, Failed)
         ELSE Goto(c, "load") /\ UNCHANGED <<answer, plan>>
    /\ UNCHANGED <<file, temp, op, cancelled>>

\* load(), the method's own work, and the decision whether to save.
Load(c) ==
    /\ pc[c] = "load"
    /\ LET result == Apply(op[c], Decode(file))
       IN  IF result.save
             THEN /\ plan' = [plan EXCEPT ![c] = result]
                  /\ Goto(c, "open")
                  /\ UNCHANGED answer
             ELSE Answer(c, result.answer)
    /\ UNCHANGED <<file, temp, lock, op, cancelled>>

\* Mutant of OpenTemp: os.WriteFile opens the state file itself.
OpenInPlace(c) ==
    /\ pc[c] = "open"
    /\ file' = Torn
    /\ Goto(c, "fill")
    /\ UNCHANGED <<temp, lock, op, plan, answer, cancelled>>

\* saveStateFile: os.WriteFile truncates the temporary ...
OpenTemp(c) ==
    /\ pc[c] = "open"
    /\ temp' = Torn
    /\ Goto(c, "fill")
    /\ UNCHANGED <<file, lock, op, plan, answer, cancelled>>

\* ... and then fills it.
FillTemp(c) ==
    /\ pc[c] = "fill"
    /\ temp' = plan[c].next
    /\ Goto(c, "rename")
    /\ UNCHANGED <<file, lock, op, plan, answer, cancelled>>

\* Mutant of Rename: an error is reported although the file was replaced.
RenameReportsError(c) ==
    /\ pc[c] = "rename"
    /\ file' = temp
    /\ temp' = Absent
    /\ Answer(c, Failed)
    /\ UNCHANGED <<lock, op, cancelled>>

Rename(c) ==
    /\ pc[c] = "rename"
    /\ file' = temp
    /\ temp' = Absent
    /\ Answer(c, plan[c].answer)
    /\ UNCHANGED <<lock, op, cancelled>>

\* Reading, encoding, creating, writing or renaming fails: the method
\* returns the error, and the temporary stays as it is.
IOError(c) ==
    /\ pc[c] \in {"load", "open", "fill", "rename"}
    /\ Answer(c, Failed)
    /\ UNCHANGED <<file, temp, lock, op, cancelled>>

\* Mutant of Unlock: no deferred unlock, and the error paths forget it.
UnlockUnlessFailed(c) ==
    /\ pc[c] = "unlock"
    /\ lock' = IF answer[c] = Failed THEN lock ELSE Nobody
    /\ op' = [op EXCEPT ![c] = NoOp]
    /\ answer' = [answer EXCEPT ![c] = NoAnswer]
    /\ cancelled' = [cancelled EXCEPT ![c] = FALSE]
    /\ Goto(c, "idle")
    /\ UNCHANGED <<file, temp, plan>>

Unlock(c) ==
    /\ pc[c] = "unlock"
    /\ lock' = Nobody
    /\ op' = [op EXCEPT ![c] = NoOp]
    /\ answer' = [answer EXCEPT ![c] = NoAnswer]
    /\ cancelled' = [cancelled EXCEPT ![c] = FALSE]
    /\ Goto(c, "idle")
    /\ UNCHANGED <<file, temp, plan>>

\* The daemon dies and is started again: memory is lost, the files are not.
Crash ==
    /\ lock' = Nobody
    /\ pc' = [c \in Callers |-> "idle"]
    /\ op' = [c \in Callers |-> NoOp]
    /\ plan' = [c \in Callers |-> NoPlan]
    /\ answer' = [c \in Callers |-> NoAnswer]
    /\ cancelled' = [c \in Callers |-> FALSE]
    /\ UNCHANGED <<file, temp>>

Step(c) ==
    \/ Acquire(c) \/ Load(c) \/ OpenTemp(c) \/ FillTemp(c) \/ Rename(c)
    \/ IOError(c) \/ Unlock(c)

Next ==
    \/ \E c \in Callers : (\E o \in Ops : Invoke(c, o)) \/ Cancel(c) \/ Step(c)
    \/ Crash

\* sync.Mutex hands the lock to a waiter that has starved for a millisecond,
\* so a waiter is not overtaken for ever: strong fairness of Acquire.  A
\* caller that holds the mutex blocks on nothing but the file system.
Fairness ==
    \A c \in Callers : SF_vars(Acquire(c)) /\ WF_vars(Step(c))

Spec == Init /\ [][Next]_vars

FairSpec == Spec /\ Fairness

-----------------------------------------------------------------------------
TypeOK ==
    /\ file \in {Absent, Torn} \cup States
    /\ temp \in {Absent, Torn} \cup States
    /\ lock \in Callers \cup {Nobody}
    /\ pc \in [Callers -> Pcs]
    /\ op \in [Callers -> {NoOp} \cup Ops]
    /\ plan \in [Callers -> {NoPlan} \cup
                    [answer : Answers, next : States, save : BOOLEAN]]
    /\ answer \in [Callers -> Answers \cup {NoAnswer, Failed}]
    /\ cancelled \in [Callers -> BOOLEAN]

\* The state file is never seen half-written, whatever crashes between the
\* steps of saveStateFile: the next load decodes it (state_store.go:11-30).
FileIsWhole == file # Torn

\* The callers inside the mutex, and those among them that save.
Critical == {"load", "open", "fill", "rename", "unlock"}
Saving == {"open", "fill", "rename"}

\* The outcome that a caller is about to save was worked out from the state
\* that is in the file now: no other caller's change can be overwritten
\* (the load-modify-save of every registry method, site_registry.go:79-248).
PlanIsCurrent ==
    \A c \in Callers : pc[c] \in Saving => plan[c] = Apply(op[c], Decode(file))

\* Every call returns, also the ones that queue for the mutex behind others.
CallsReturn == \A c \in Callers : pc[c] = "lock" ~> pc[c] = "idle"

\* The abstract store the callers see.
Abstract == INSTANCE AtomicStore WITH
    Initial <- Empty,
    value <- Decode(file)

AtomicStoreSpec == Abstract!Spec
=============================================================================
