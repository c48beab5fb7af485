--------------------------- MODULE ScooterDevice ---------------------------
(***************************************************************************)
(* The "demo" task of the on-board computer: app_demo_init, the four-state *)
(* machine of app_demo_run and the outcomes of the three blocking calls it *)
(* makes (app_demo_contact_server, app_demo_take_picture,                  *)
(* app_demo_handle_error).  One step of the model is one pass of the       *)
(* while (1) loop, except that a pass which blocks in a call is two steps: *)
(* the call, and its return.  Between the two, current_state already has   *)
(* the value other tasks read through app_demo_get_state.                  *)
(*                                                                         *)
(* What the calls do inside is the subject of CheckIn and CameraStream;    *)
(* here each returns any result its type allows.                           *)
(***************************************************************************)
EXTENDS Naturals

CONSTANTS
    ContactSkips,         \* APP_DEMO_SERVER_CONTACT_SKIPS: passes between check-ins (200)
    WaitAfterImage,       \* passes to wait after an upload (80)
    UnlockedErrorRetries, \* APP_DEMO_UNLOCKED_ERROR_RETRIES (10)
    MaxPowerCycles        \* bound: how often the battery is pulled

ASSUME ContactSkipsAssumption == ContactSkips \in Nat /\ ContactSkips > 1
ASSUME WaitAfterImageAssumption == WaitAfterImage \in 1..ContactSkips
ASSUME RetriesAssumption == UnlockedErrorRetries \in Nat \ {0}
ASSUME PowerCyclesAssumption == MaxPowerCycles \in Nat

VARIABLES
    state,                \* current_state
    server_contact_count,
    unlocked_error_count,
    call,                 \* the blocking call the task is inside of
    switch_off,           \* *SWITCH_BASE != 15: the operator asks for a picture
    last_answer,          \* history: the last check-in answer that was not an error
    failures_in_a_row,    \* history: failed check-ins while unlocked since that answer
    power_cycles          \* history: counts PowerCycle

vars == <<state, server_contact_count, unlocked_error_count, call, switch_off,
          last_answer, failures_in_a_row, power_cycles>>

(* The enumerators of app_demo_state_E and of app_demo_server_resp_E.      *)
States == {"LOCKED", "UNLOCKED", "UPLOAD", "ERROR"}
Answers == {"LOCK", "UNLOCK", "PHOTO", "ERROR"}

Calls == {"none", "init", "contact_locked", "contact_unlocked", "photo", "recover"}

(* Mutant of StateOf: the two enumerations declared in different orders.   *)
StateOfMisordered(answer) ==
    CASE answer = "LOCK"   -> "LOCKED"
      [] answer = "UNLOCK" -> "UPLOAD"
      [] answer = "PHOTO"  -> "UNLOCKED"
      [] answer = "ERROR"  -> "ERROR"

(* The cast (app_demo_state_E) resp: both enumerations count from 0 in     *)
(* this order.                                                             *)
StateOf(answer) ==
    CASE answer = "LOCK"   -> "LOCKED"
      [] answer = "UNLOCK" -> "UNLOCKED"
      [] answer = "PHOTO"  -> "UPLOAD"
      [] answer = "ERROR"  -> "ERROR"

(* Mutant: no wait subtracted.                                             *)
CountAfterImageWhole == ContactSkips

(* Mutant: the operands swapped, a number alt_u32 does not hold.           *)
CountAfterImageSwapped == WaitAfterImage - ContactSkips

(* APP_DEMO_SERVER_WAIT_TIME_AFTER_IMAGE_SKIPS                             *)
CountAfterImage == ContactSkips - WaitAfterImage

(* Mutant: the count wraps before it is compared.                          *)
CountedWrapped(count) == (count + 1) % ContactSkips

(* server_contact_count += 1                                               *)
Counted(count) == count + 1

(* Mutant: one failure too many.                                           *)
GivesUpLate(errors) == errors > UnlockedErrorRetries

(* unlocked_error_count == APP_DEMO_UNLOCKED_ERROR_RETRIES                 *)
GivesUp(errors) == errors = UnlockedErrorRetries

(* Mutant: the switch read with the wrong polarity.                        *)
CheckForPictureInverted == ~switch_off

(* app_demo_check_for_picture                                              *)
CheckForPicture == switch_off

Init ==
    /\ state = "LOCKED"
    /\ server_contact_count = 0
    /\ unlocked_error_count = 0
    /\ call = "init"
    /\ switch_off \in BOOLEAN
    /\ last_answer = "none"
    /\ failures_in_a_row = 0
    /\ power_cycles = 0

-----------------------------------------------------------------------------
(* app_demo_init: a network that cannot be attached leaves the task in the *)
(* error state; every other failure of the initialisation is ignored.      *)
InitReturns(attached) ==
    /\ call = "init"
    /\ call' = "none"
    /\ state' = IF attached THEN state ELSE "ERROR"
    /\ UNCHANGED <<server_contact_count, unlocked_error_count, switch_off,
                   last_answer, failures_in_a_row, power_cycles>>

(* A pass in IDLE_LOCKED: the switch is looked at before the check-in is   *)
(* due, so a check-in may start with current_state already UPLOAD.         *)
LockedPass ==
    /\ call = "none"
    /\ state = "LOCKED"
    /\ state' = IF CheckForPicture THEN "UPLOAD" ELSE state
    /\ server_contact_count' = Counted(server_contact_count)
    /\ call' = IF server_contact_count' = ContactSkips THEN "contact_locked" ELSE call
    /\ UNCHANGED <<unlocked_error_count, switch_off, last_answer,
                   failures_in_a_row, power_cycles>>

(* app_demo_contact_server returned in IDLE_LOCKED: any answer, an error   *)
(* included, becomes the state.                                            *)
LockedContactReturns(answer) ==
    /\ call = "contact_locked"
    /\ call' = "none"
    /\ state' = StateOf(answer)
    /\ server_contact_count' = 0
    /\ last_answer' = IF answer = "ERROR" THEN last_answer ELSE answer
    /\ failures_in_a_row' = 0
    /\ UNCHANGED <<unlocked_error_count, switch_off, power_cycles>>

(* Mutant: the switch is served in IDLE_UNLOCKED as well.                  *)
UnlockedPassWithSwitch ==
    /\ call = "none"
    /\ state = "UNLOCKED"
    /\ state' = IF CheckForPicture THEN "UPLOAD" ELSE state
    /\ server_contact_count' = Counted(server_contact_count)
    /\ call' = IF server_contact_count' = ContactSkips THEN "contact_unlocked" ELSE call
    /\ UNCHANGED <<unlocked_error_count, switch_off, last_answer,
                   failures_in_a_row, power_cycles>>

(* A pass in IDLE_UNLOCKED: the switch is not looked at.                   *)
UnlockedPass ==
    /\ call = "none"
    /\ state = "UNLOCKED"
    /\ server_contact_count' = Counted(server_contact_count)
    /\ call' = IF server_contact_count' = ContactSkips THEN "contact_unlocked" ELSE call
    /\ UNCHANGED <<state, unlocked_error_count, switch_off, last_answer,
                   failures_in_a_row, power_cycles>>

(* A good answer while unlocked becomes the state; unlocked_error_count    *)
(* keeps what it had counted.                                              *)
UnlockedContactAnswered(answer) ==
    /\ call = "contact_unlocked"
    /\ answer # "ERROR"
    /\ call' = "none"
    /\ state' = StateOf(answer)
    /\ server_contact_count' = 0
    /\ last_answer' = answer
    /\ failures_in_a_row' = 0
    /\ UNCHANGED <<unlocked_error_count, switch_off, power_cycles>>

(* A failed check-in while unlocked: only the UnlockedErrorRetries-th one  *)
(* leaves the state.                                                       *)
UnlockedContactFailed ==
    LET give_up == GivesUp(unlocked_error_count + 1)
    IN  /\ call = "contact_unlocked"
        /\ call' = "none"
        /\ state' = IF give_up THEN "ERROR" ELSE state
        /\ unlocked_error_count' = IF give_up THEN 0 ELSE unlocked_error_count + 1
        /\ server_contact_count' = 0
        /\ failures_in_a_row' = IF give_up THEN 0 ELSE failures_in_a_row + 1
        /\ UNCHANGED <<switch_off, last_answer, power_cycles>>

UploadPass ==
    /\ call = "none"
    /\ state = "UPLOAD"
    /\ call' = "photo"
    /\ UNCHANGED <<state, server_contact_count, unlocked_error_count, switch_off,
                   last_answer, failures_in_a_row, power_cycles>>

(* app_demo_take_picture returned.                                         *)
PhotoReturns(sent) ==
    /\ call = "photo"
    /\ call' = "none"
    /\ state' = IF sent THEN "LOCKED" ELSE "ERROR"
    /\ server_contact_count' = IF sent THEN CountAfterImage ELSE server_contact_count
    /\ UNCHANGED <<unlocked_error_count, switch_off, last_answer,
                   failures_in_a_row, power_cycles>>

ErrorPass ==
    /\ call = "none"
    /\ state = "ERROR"
    /\ call' = "recover"
    /\ UNCHANGED <<state, server_contact_count, unlocked_error_count, switch_off,
                   last_answer, failures_in_a_row, power_cycles>>

(* app_demo_handle_error returned.                                         *)
RecoverReturns(recovered) ==
    /\ call = "recover"
    /\ call' = "none"
    /\ state' = IF recovered THEN "LOCKED" ELSE state
    /\ UNCHANGED <<server_contact_count, unlocked_error_count, switch_off,
                   last_answer, failures_in_a_row, power_cycles>>

-----------------------------------------------------------------------------
(* The environment: the slide switch, and a loss of power, after which the *)
(* statics and locals of the task start over.                              *)
FlipSwitch ==
    /\ switch_off' = ~switch_off
    /\ UNCHANGED <<state, server_contact_count, unlocked_error_count, call,
                   last_answer, failures_in_a_row, power_cycles>>

PowerCycle ==
    /\ power_cycles < MaxPowerCycles
    /\ power_cycles' = power_cycles + 1
    /\ state' = "LOCKED"
    /\ server_contact_count' = 0
    /\ unlocked_error_count' = 0
    /\ call' = "init"
    /\ last_answer' = "none"
    /\ failures_in_a_row' = 0
    /\ UNCHANGED switch_off

(* Steps of the task that finish whatever the modem and the camera do.     *)
BoundedStep ==
    \/ \E attached \in BOOLEAN : InitReturns(attached)
    \/ LockedPass
    \/ \E answer \in Answers : LockedContactReturns(answer)
    \/ UnlockedPass
    \/ \E answer \in Answers : UnlockedContactAnswered(answer)
    \/ UnlockedContactFailed
    \/ UploadPass
    \/ ErrorPass
    \/ \E recovered \in BOOLEAN : RecoverReturns(recovered)

TaskStep == BoundedStep \/ \E sent \in BOOLEAN : PhotoReturns(sent)

Next == TaskStep \/ FlipSwitch \/ PowerCycle

Spec == Init /\ [][Next]_vars

(* The task has the highest priority and every AT command has a timeout,   *)
(* so a pass always ends, except that nothing bounds the wait of           *)
(* app_demo_take_picture for its camera stream: no fairness for its return.*)
FairSpec == Spec /\ WF_vars(BoundedStep)

-----------------------------------------------------------------------------
(* Type invariant.                                                         *)
TypeOK ==
    /\ state \in States
    /\ server_contact_count \in Nat
    /\ unlocked_error_count \in Nat
    /\ call \in Calls
    /\ switch_off \in BOOLEAN
    /\ last_answer \in Answers \cup {"none"}
    /\ failures_in_a_row \in Nat
    /\ power_cycles \in 0..MaxPowerCycles

(* The check-in is due when the count EQUALS ContactSkips (l.576, l.591),  *)
(* so a count that ever went past it would silence the scooter for the 6.8 *)
(* years alt_u32 takes to wrap: whatever sequence of uploads, errors and   *)
(* answers sets the count, it is below ContactSkips whenever a pass begins.*)
CountNeverPassesContact ==
    /\ call = "none" => server_contact_count < ContactSkips
    /\ server_contact_count <= ContactSkips

(* The device is unlocked only while the last answer the server gave it is *)
(* "unlock": no path through errors, uploads or recovery ends unlocked.    *)
UnlockedOnlyWhenTold == state = "UNLOCKED" => last_answer = "UNLOCK"

(* Failed check-ins in a row while unlocked are always covered by the      *)
(* error count, which stays below its limit (l.594 also tests equality):   *)
(* the device never outlasts UnlockedErrorRetries failures unlocked.       *)
FailuresAreCounted ==
    /\ failures_in_a_row <= unlocked_error_count
    /\ unlocked_error_count < UnlockedErrorRetries

(* Nothing but an answer of the server, the spent error budget or a loss   *)
(* of power takes the scooter away from a rider: not the switch, not a     *)
(* picture, not a recovery.                                                *)
RelockNeedsAReason ==
    [][ state = "UNLOCKED" /\ state' # "UNLOCKED"
        => \/ last_answer' \in {"LOCK", "PHOTO"}
           \/ state' = "ERROR" /\ unlocked_error_count + 1 = UnlockedErrorRetries
           \/ call' = "init" ]_vars

(* With the switch left alone the device keeps checking in, unless the     *)
(* picture call never returns or the modem never recovers.                 *)
KeepsCheckingIn ==
    <>[](~switch_off)
      => \/ []<>(call \in {"contact_locked", "contact_unlocked"})
         \/ <>[](call = "photo")
         \/ <>[](state = "ERROR")

(* A switch held in the photo position is served: pictures are taken again *)
(* and again, unless the device ends up unlocked or in error.              *)
HeldSwitchTakesPictures ==
    <>[]switch_off
      => \/ []<>(call = "photo")
         \/ <>[](state \in {"UNLOCKED", "ERROR"})

(* The comment at l.558 ("in the case a server check-in fails when         *)
(* unlocked, do not immediately re-lock"): the first failed check-in after *)
(* a good one leaves the device unlocked.                                  *)
FirstFailureDoesNotRelock ==
    [][ call = "contact_unlocked" /\ failures_in_a_row = 0 /\ state' = "ERROR"
        => call' = "init" ]_vars
=============================================================================
