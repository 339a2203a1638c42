-------------------------- MODULE StateStore_proofs -------------------------
(***************************************************************************)
(* Proofs about StateStore, for any number of callers, any states and any   *)
(* operation: the type invariant, the integrity of the state file, that a   *)
(* save never overwrites another caller's change, and that the locked       *)
(* load-modify-save with a renamed temporary implements AtomicStore.        *)
(***************************************************************************)
EXTENDS StateStore, TLAPS

-----------------------------------------------------------------------------
(* The inductive invariant.  TypeOK alone is not inductive: that the file   *)
(* is decodable when it is loaded needs FileIsWhole, FileIsWhole needs that *)
(* the temporary holds a whole state when it is renamed, and this needs     *)
(* that no other caller touches the temporary in between.                   *)

\* The mutex is held by the caller that is inside, and by nobody else.
LockIsHeld == \A c \in Callers : pc[c] \in Critical <=> lock = c

\* A caller has an operation while it is in a call, and an answer once it is
\* about to return.
CallInOrder ==
    \A c \in Callers : /\ op[c] = NoOp <=> pc[c] = "idle"
                       /\ answer[c] = NoAnswer <=> pc[c] # "unlock"

\* What is saved is current, and the temporary is complete when it is renamed.
SaveInOrder ==
    \A c \in Callers :
        /\ pc[c] \in Saving => plan[c] = Apply(op[c], Decode(file))
        /\ pc[c] = "rename" => temp = plan[c].next

IInv == TypeOK /\ FileIsWhole /\ LockIsHeld /\ CallInOrder /\ SaveInOrder

\* The decoded file is a state, and an operation on it has a typed outcome.
LEMMA OutcomeType ==
    ASSUME IInv, NEW c \in Callers, pc[c] # "idle"
    PROVE  /\ Decode(file) \in States
           /\ op[c] \in Ops
           /\ Apply(op[c], Decode(file)) \in
                [answer : Answers, next : States, save : BOOLEAN]
           /\ ~Apply(op[c], Decode(file)).save =>
                Apply(op[c], Decode(file)).next = Decode(file)
BY ApplyAssumption, ValuesAssumption
   DEF IInv, TypeOK, FileIsWhole, CallInOrder, Decode

\* A fresh daemon: nobody holds the mutex and nobody has a call.
LEMMA IInvInit == Init => IInv
BY ValuesAssumption
   DEF Init, IInv, TypeOK, Pcs, FileIsWhole, LockIsHeld, CallInOrder,
       SaveInOrder, Critical, Saving

\* Every step of every caller, and a crash, keep the invariant.
LEMMA IInvStep == IInv /\ [Next]_vars => IInv'
<1> SUFFICES ASSUME IInv, [Next]_vars
             PROVE  IInv'
  OBVIOUS
<1> USE ValuesAssumption
    DEF IInv, TypeOK, Pcs, FileIsWhole, LockIsHeld, CallInOrder, SaveInOrder,
        Critical, Saving, Goto, Answer
<1>1. ASSUME NEW c \in Callers, NEW o \in Ops, Invoke(c, o)
      PROVE  IInv'
  BY <1>1 DEF Invoke
<1>2. ASSUME NEW c \in Callers, Cancel(c)
      PROVE  IInv'
  BY <1>2 DEF Cancel
<1>3. ASSUME NEW c \in Callers, Acquire(c)
      PROVE  IInv'
  BY <1>3 DEF Acquire
<1>4. ASSUME NEW c \in Callers, Load(c)
      PROVE  IInv'
  BY <1>4, OutcomeType DEF Load
<1>5. ASSUME NEW c \in Callers, OpenTemp(c)
      PROVE  IInv'
  BY <1>5 DEF OpenTemp
<1>6. ASSUME NEW c \in Callers, FillTemp(c)
      PROVE  IInv'
  BY <1>6, OutcomeType DEF FillTemp
<1>7. ASSUME NEW c \in Callers, Rename(c)
      PROVE  IInv'
  BY <1>7, OutcomeType DEF Rename
<1>8. ASSUME NEW c \in Callers, IOError(c)
      PROVE  IInv'
  BY <1>8 DEF IOError
<1>9. ASSUME NEW c \in Callers, Unlock(c)
      PROVE  IInv'
  BY <1>9 DEF Unlock
<1>10. CASE Crash
  BY <1>10 DEF Crash
<1>11. CASE UNCHANGED vars
  BY <1>11 DEF vars
<1> QED
  BY <1>1, <1>2, <1>3, <1>4, <1>5, <1>6, <1>7, <1>8, <1>9, <1>10, <1>11
     DEF Next, Step

\* The invariant holds of every reachable state.
LEMMA Invariance == Spec => []IInv
BY IInvInit, IInvStep, PTL DEF Spec

-----------------------------------------------------------------------------
\* The registry file, its temporary, the mutex and the callers' locals always
\* have their types (state_store.go:11-52, site_registry.go:79-278).
THEOREM TypeCorrect == Spec => []TypeOK
<1>1. IInv => TypeOK
  BY DEF IInv
<1> QED
  BY <1>1, Invariance, PTL

\* The state file is never half-written, at whatever step of saveStateFile
\* (state_store.go:32-52) the daemon dies or the file system fails.
THEOREM FileAlwaysWhole == Spec => []FileIsWhole
<1>1. IInv => FileIsWhole
  BY DEF IInv
<1> QED
  BY <1>1, Invariance, PTL

\* What a method saves was computed from what the file holds when it is
\* replaced, so no concurrent change is lost (site_registry.go:79-248).
THEOREM NoLostUpdate == Spec => []PlanIsCurrent
<1>1. IInv => PlanIsCurrent
  BY DEF IInv, SaveInOrder, PlanIsCurrent
<1> QED
  BY <1>1, Invariance, PTL

-----------------------------------------------------------------------------
\* The file changes only when the outcome of an operation on what it held is
\* saved: what a registry promises of its file follows from its operations.
LEMMA FileChanges ==
    ASSUME IInv, [Next]_vars, file' # file
    PROVE  \E o \in Ops : /\ Decode(file) \in States
                         /\ Decode(file') = Apply(o, Decode(file)).next
<1>1. PICK c \in Callers : Rename(c)
  BY DEF Next, Step, Invoke, Cancel, Acquire, Load, OpenTemp, FillTemp, IOError,
         Unlock, Crash, vars
<1>2. /\ Decode(file) \in States /\ op[c] \in Ops
      /\ Apply(op[c], Decode(file)).next \in States
  BY <1>1, OutcomeType DEF Rename
<1>3. file' = Apply(op[c], Decode(file)).next
  BY <1>1 DEF Rename, IInv, SaveInOrder, Saving
<1>4. Decode(file') = file'
  BY <1>2, <1>3, ValuesAssumption DEF Decode
<1> QED BY <1>2, <1>3, <1>4

-----------------------------------------------------------------------------
\* Every step of the implementation is a step of the abstract store, or none.
LEMMA StepRefines == IInv /\ [Next]_vars => [Abstract!Next]_(Abstract!vars)
<1> SUFFICES ASSUME IInv, [Next]_vars
             PROVE  [Abstract!Next]_(Abstract!vars)
  OBVIOUS
<1> USE DEF Goto, Answer, Abstract!vars
<1>1. ASSUME NEW c \in Callers, NEW o \in Ops, Invoke(c, o)
      PROVE  Abstract!Invoke(c, o)
  BY <1>1 DEF Invoke, Abstract!Invoke, IInv, CallInOrder
<1>2. ASSUME NEW c \in Callers, Cancel(c)
      PROVE  UNCHANGED Abstract!vars
  BY <1>2 DEF Cancel
<1>3. ASSUME NEW c \in Callers, Acquire(c)
      PROVE  Abstract!Fail(c) \/ UNCHANGED Abstract!vars
  BY <1>3 DEF Acquire, Abstract!Fail, IInv, CallInOrder
\* A method that saves nothing takes effect when it loads.
<1>4. ASSUME NEW c \in Callers, Load(c)
      PROVE  Abstract!Commit(c) \/ UNCHANGED Abstract!vars
  BY <1>4, OutcomeType DEF Load, Abstract!Commit, IInv, CallInOrder
<1>5. ASSUME NEW c \in Callers, OpenTemp(c)
      PROVE  UNCHANGED Abstract!vars
  BY <1>5 DEF OpenTemp
<1>6. ASSUME NEW c \in Callers, FillTemp(c)
      PROVE  UNCHANGED Abstract!vars
  BY <1>6 DEF FillTemp
\* A method that saves takes effect when the temporary is renamed.
<1>7. ASSUME NEW c \in Callers, Rename(c)
      PROVE  Abstract!Commit(c)
  <2>1. /\ pc[c] = "rename"
        /\ file' = Apply(op[c], Decode(file)).next
        /\ answer' = [answer EXCEPT ![c] = Apply(op[c], Decode(file)).answer]
        /\ UNCHANGED op
    BY <1>7 DEF Rename, IInv, SaveInOrder, Saving
  <2>2. Decode(file)' = Apply(op[c], Decode(file)).next
    BY <2>1, OutcomeType, ValuesAssumption DEF Decode
  <2> QED
    BY <2>1, <2>2 DEF Abstract!Commit, IInv, CallInOrder
<1>8. ASSUME NEW c \in Callers, IOError(c)
      PROVE  Abstract!Fail(c)
  BY <1>8 DEF IOError, Abstract!Fail, IInv, CallInOrder
<1>9. ASSUME NEW c \in Callers, Unlock(c)
      PROVE  Abstract!Return(c)
  BY <1>9 DEF Unlock, Abstract!Return, IInv, CallInOrder
<1>10. CASE Crash
  BY <1>10 DEF Crash, Abstract!Crash, Abstract!Next
<1>11. CASE UNCHANGED vars
  BY <1>11 DEF vars
<1> QED
  BY <1>1, <1>2, <1>3, <1>4, <1>5, <1>6, <1>7, <1>8, <1>9, <1>10, <1>11
     DEF Next, Step, Abstract!Next

\* A registry on its state file is an atomic store: concurrent calls behave
\* as if each took effect at one moment on the state it found, and a failed
\* or crashed call as if it had not been made or had been made completely.
THEOREM Refinement == Spec => AtomicStoreSpec
<1>1. Init => Abstract!Init
  BY DEF Init, Abstract!Init, Decode
<1> QED
  BY <1>1, StepRefines, Invariance, PTL DEF Spec, AtomicStoreSpec, Abstract!Spec
=============================================================================
