------------------------ MODULE ScooterDeviceProofs ------------------------
(***************************************************************************)
(* Proofs about ScooterDevice, for every number of passes between          *)
(* check-ins, every wait after an upload and every error budget.           *)
(***************************************************************************)
EXTENDS ScooterDevice, TLAPS

(* Which state each call is made in: a check-in from IDLE_LOCKED may have  *)
(* UPLOAD showing, the one from IDLE_UNLOCKED may not.                     *)
CallMatchesState ==
    /\ call = "init" => state = "LOCKED"
    /\ call = "contact_locked" => state \in {"LOCKED", "UPLOAD"}
    /\ call = "contact_unlocked" => state = "UNLOCKED"
    /\ call = "photo" => state = "UPLOAD"
    /\ call = "recover" => state = "ERROR"

(* Outside a check-in the count is strictly below ContactSkips, whatever   *)
(* the call: a picture or a recovery may return it to an idle state.       *)
CountBelowOutsideContact ==
    /\ call \notin {"contact_locked", "contact_unlocked"}
          => server_contact_count < ContactSkips
    /\ server_contact_count <= ContactSkips

(* The inductive invariant.                                                *)
IInv ==
    /\ TypeOK
    /\ CallMatchesState
    /\ CountBelowOutsideContact
    /\ UnlockedOnlyWhenTold
    /\ FailuresAreCounted

USE ContactSkipsAssumption, WaitAfterImageAssumption, RetriesAssumption, PowerCyclesAssumption

(* The count set after an upload leaves at least one pass to count.        *)
LEMMA CountAfterImageBelow ==
    CountAfterImage \in Nat /\ CountAfterImage < ContactSkips
BY DEF CountAfterImage

(* The cast of an answer is a state, and only "unlock" becomes UNLOCKED.   *)
LEMMA StateOfAnswer ==
    ASSUME NEW answer \in Answers
    PROVE  /\ StateOf(answer) \in States
           /\ StateOf(answer) = "UNLOCKED" => answer = "UNLOCK"
BY DEF Answers, States, StateOf

LEMMA InitImpliesIInv == Init => IInv
BY DEF Init, IInv, TypeOK, CallMatchesState, CountBelowOutsideContact,
       UnlockedOnlyWhenTold, FailuresAreCounted, States, Calls, Answers

LEMMA NextPreservesIInv == IInv /\ [Next]_vars => IInv'
<1> SUFFICES ASSUME IInv, [Next]_vars PROVE IInv'
    OBVIOUS
<1> USE DEF IInv, TypeOK, CallMatchesState, CountBelowOutsideContact,
            UnlockedOnlyWhenTold, FailuresAreCounted, States, Calls, Counted
<1>1. ASSUME NEW attached \in BOOLEAN, InitReturns(attached) PROVE IInv'
    BY <1>1 DEF InitReturns
<1>2. CASE LockedPass
    BY <1>2 DEF LockedPass, CheckForPicture
<1>3. ASSUME NEW answer \in Answers, LockedContactReturns(answer) PROVE IInv'
    BY <1>3, StateOfAnswer DEF LockedContactReturns, StateOf, Answers
<1>4. CASE UnlockedPass
    BY <1>4 DEF UnlockedPass
<1>5. ASSUME NEW answer \in Answers, UnlockedContactAnswered(answer) PROVE IInv'
    BY <1>5, StateOfAnswer DEF UnlockedContactAnswered, StateOf, Answers
<1>6. CASE UnlockedContactFailed
    BY <1>6 DEF UnlockedContactFailed, GivesUp
<1>7. CASE UploadPass
    BY <1>7 DEF UploadPass
<1>8. ASSUME NEW sent \in BOOLEAN, PhotoReturns(sent) PROVE IInv'
    BY <1>8, CountAfterImageBelow DEF PhotoReturns
<1>9. CASE ErrorPass
    BY <1>9 DEF ErrorPass
<1>10. ASSUME NEW recovered \in BOOLEAN, RecoverReturns(recovered) PROVE IInv'
    BY <1>10 DEF RecoverReturns
<1>11. CASE FlipSwitch
    BY <1>11 DEF FlipSwitch
<1>12. CASE PowerCycle
    BY <1>12 DEF PowerCycle
<1>13. CASE UNCHANGED vars
    BY <1>13 DEF vars
<1> QED
    BY <1>1, <1>2, <1>3, <1>4, <1>5, <1>6, <1>7, <1>8, <1>9, <1>10, <1>11,
       <1>12, <1>13 DEF Next, TaskStep, BoundedStep

(* The inductive invariant holds in every reachable state.                 *)
LEMMA SpecImpliesIInv == Spec => []IInv
BY InitImpliesIInv, NextPreservesIInv, PTL DEF Spec

(* Every variable keeps its type.                                          *)
THEOREM TypeCorrect == Spec => []TypeOK
<1>1. IInv => TypeOK
    BY DEF IInv
<1> QED BY <1>1, SpecImpliesIInv, PTL

(* The check-in that is tested for by equality (l.576, l.591) is never     *)
(* stepped over.                                                           *)
THEOREM CheckInIsNeverMissed == Spec => []CountNeverPassesContact
<1>1. IInv => CountNeverPassesContact
    BY DEF IInv, CountBelowOutsideContact, CountNeverPassesContact
<1> QED BY <1>1, SpecImpliesIInv, PTL

(* The scooter shows unlocked only after the server said so.               *)
THEOREM UnlockComesFromServer == Spec => []UnlockedOnlyWhenTold
<1>1. IInv => UnlockedOnlyWhenTold
    BY DEF IInv
<1> QED BY <1>1, SpecImpliesIInv, PTL

(* An unlocked scooter never outlasts its budget of failed check-ins.      *)
THEOREM FailuresStayWithinBudget == Spec => []FailuresAreCounted
<1>1. IInv => FailuresAreCounted
    BY DEF IInv
<1> QED BY <1>1, SpecImpliesIInv, PTL

(* A rider loses the scooter only to an answer of the server, the spent    *)
(* error budget or a loss of power.                                        *)
THEOREM RelockHasAReason == Spec => RelockNeedsAReason
<1> DEFINE Reason ==
      state = "UNLOCKED" /\ state' # "UNLOCKED"
        => \/ last_answer' \in {"LOCK", "PHOTO"}
           \/ state' = "ERROR" /\ unlocked_error_count + 1 = UnlockedErrorRetries
           \/ call' = "init"
<1>1. IInv /\ [Next]_vars => [Reason]_vars
    <2> SUFFICES ASSUME IInv, Next, state = "UNLOCKED", state' # "UNLOCKED"
                 PROVE  Reason
        BY DEF vars
    <2>1. call \in {"none", "contact_unlocked"}
        BY DEF IInv, TypeOK, CallMatchesState, Calls
    <2>2. ASSUME NEW answer \in Answers, UnlockedContactAnswered(answer) PROVE Reason
        <3>1. answer # "UNLOCK"
            BY <2>2 DEF UnlockedContactAnswered, StateOf
        <3> QED BY <2>2, <3>1 DEF UnlockedContactAnswered, Answers
    <2>3. CASE UnlockedContactFailed
        BY <2>3 DEF UnlockedContactFailed, GivesUp
    <2>4. CASE PowerCycle
        BY <2>4 DEF PowerCycle
    <2> QED
        BY <2>1, <2>2, <2>3, <2>4
        DEF Next, TaskStep, BoundedStep, InitReturns, LockedPass,
            LockedContactReturns, UnlockedPass, UploadPass, PhotoReturns,
            ErrorPass, RecoverReturns, FlipSwitch
<1> QED BY <1>1, SpecImpliesIInv, PTL DEF Spec, RelockNeedsAReason
=============================================================================
