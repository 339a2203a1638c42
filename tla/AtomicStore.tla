---------------------------- MODULE AtomicStore ----------------------------
(***************************************************************************)
(* What the JSON state files promise to the daemon's services: a store on   *)
(* which concurrent callers perform operations that take effect one at a    *)
(* time and at once.  A call either applies its operation to the value the  *)
(* store holds at that moment, or fails and leaves the value alone; a       *)
(* daemon crash loses the calls in flight, never a part of the value.       *)
(*                                                                          *)
(* This is the abstract specification; StateStore is the code's             *)
(* implementation of it.                                                    *)
(***************************************************************************)
CONSTANTS
    Callers,      \* goroutines that call the registry
    Ops,          \* the operations they may ask for
    Initial,      \* the value of the store before the first call
    Apply(_, _),  \* Apply(op, s): the outcome [answer, next, save] of op on s
    NoOp,         \* a caller between two calls
    NoAnswer,     \* the answer of a call that has not been decided
    Failed        \* the answer of a call that failed without effect

VARIABLES
    value,        \* the contents of the store
    op,           \* the operation each caller is performing
    answer        \* the answer to it, once it is decided

vars == <<value, op, answer>>

Init ==
    /\ value = Initial
    /\ op = [c \in Callers |-> NoOp]
    /\ answer = [c \in Callers |-> NoAnswer]

Invoke(c, o) ==
    /\ op[c] = NoOp
    /\ op' = [op EXCEPT ![c] = o]
    /\ UNCHANGED <<value, answer>>

\* The operation takes effect: it is applied to the current value, once.
Commit(c) ==
    /\ op[c] # NoOp
    /\ answer[c] = NoAnswer
    /\ value' = Apply(op[c], value).next
    /\ answer' = [answer EXCEPT ![c] = Apply(op[c], value).answer]
    /\ UNCHANGED op

Fail(c) ==
    /\ op[c] # NoOp
    /\ answer[c] = NoAnswer
    /\ answer' = [answer EXCEPT ![c] = Failed]
    /\ UNCHANGED <<value, op>>

Return(c) ==
    /\ answer[c] # NoAnswer
    /\ op' = [op EXCEPT ![c] = NoOp]
    /\ answer' = [answer EXCEPT ![c] = NoAnswer]
    /\ UNCHANGED value

Crash ==
    /\ op' = [c \in Callers |-> NoOp]
    /\ answer' = [c \in Callers |-> NoAnswer]
    /\ UNCHANGED value

Next ==
    \/ \E c \in Callers :
          \/ \E o \in Ops : Invoke(c, o)
          \/ Commit(c) \/ Fail(c) \/ Return(c)
    \/ Crash

Spec == Init /\ [][Next]_vars
=============================================================================
