-------------------------------- MODULE Host --------------------------------
(***************************************************************************)
(* What the host managers (host/ubuntu/caddy, resolved, php, systemd) have  *)
(* in common: they run inside a request, whose context is done when the     *)
(* client disconnects or its ten-second timeout expires (bridge             *)
(* daemon_client.go), they call the file system, and they run commands with *)
(* exec.CommandContext.                                                     *)
(*                                                                          *)
(* A file-system call ignores the context.  A command is not started when   *)
(* the context is done; when the context is done while it runs it is        *)
(* killed, after or before it had its effect.  Failures of the environment  *)
(* are bounded by MaxFaults and restricted to FaultKinds.                   *)
(***************************************************************************)
EXTENDS Naturals

CONSTANTS
    Callers,      \* requests being served
    Cancellable,  \* the requests whose context may become done
    FaultKinds,   \* the kinds of calls that may fail
    MaxFaults,    \* how many of them fail at most
    Absent        \* a file that does not exist

ASSUME HostAssumption == Cancellable \subseteq Callers /\ MaxFaults \in Nat

VARIABLES
    cancelled,    \* the requests whose context is done
    faults        \* failures so far

HostInit == cancelled = {} /\ faults = 0

\* A call to the environment of this kind fails; or none does in this step.
Fails(kind) ==
    /\ kind \in FaultKinds
    /\ faults < MaxFaults
    /\ faults' = faults + 1

Works == faults' = faults

\* The client goes away.
Cancel(c) ==
    /\ c \in Cancellable \ cancelled
    /\ cancelled' = cancelled \cup {c}

\* The three ends of a command: it succeeds; it is not started because the
\* context is done; it reports an error after it was started, so that its
\* effect may or may not have happened.
CommandSucceeds(c) == c \notin cancelled /\ Works /\ UNCHANGED cancelled
CommandRefused(c) == c \in cancelled /\ Works /\ UNCHANGED cancelled
CommandBreaks(c, kind) ==
    /\ c \notin cancelled
    /\ \/ Fails(kind) /\ UNCHANGED cancelled
       \/ Works /\ Cancel(c)
=============================================================================
