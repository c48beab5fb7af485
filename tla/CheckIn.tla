-------------------------------- MODULE CheckIn --------------------------------
(***************************************************************************)
(* A check-in of the scooter: app_demo_check_in_to_server and the end of   *)
(* the connection in app_demo_contact_server, command by command.          *)
(*                                                                         *)
(* All stages share one count of tries.  A stage that has spent it is left *)
(* without having succeeded, and every later stage is still tried once.    *)
(***************************************************************************)
EXTENDS AtCommand

CONSTANT NumTries   \* APP_DEMO_DEFAULT_ALLOWABLE_RETRIES

ASSUME NumTriesAssumption == NumTries \in Nat \ {0}

VARIABLES
    stage,
    tries,
    resp_size,      \* length of the response the line of SHREQ announced
    resp_data,      \* what was copied to the buffer of the response, and (history)
                    \* whether something late had been collected with it
    outcome         \* what the last check-in returned

vars == <<atvars, stage, tries, resp_size, resp_data, outcome>>

(* The stages in order; the clearing of the body is only reached when that *)
(* of the header failed.                                                   *)
Following ==
    [conf_url |-> "conf_body", conf_body |-> "conf_header", conf_header |-> "start",
     start |-> "clear_header", clear_header |-> "lat", clear_body |-> "lat",
     lat |-> "lon", lon |-> "uuid", uuid |-> "valid", valid |-> "post",
     post |-> "read", read |-> "end"]

Stages == DOMAIN Following \cup {"end"}
Setup == {"conf_url", "conf_body", "conf_header"}

(* Where the loop of a stage starts again, and where it is left to.        *)
LoopOf(s) == IF s \in Setup THEN "conf_url" ELSE IF s = "clear_body" THEN "clear_header" ELSE s
LeftTo(s) == IF s \in Setup THEN "start" ELSE Following[s]

(* Mutant: a failure is not counted.                                       *)
NotCounted(n) == n

(* Bound: tries is a 16-bit count that is never far above NumTries.        *)
MaxTries == NumTries + 10
OneMore(n) == IF n < MaxTries THEN n + 1 ELSE n

Nothing == [got |-> <<>>, late |-> FALSE]

Init ==
    /\ AtInit
    /\ stage = "idle"
    /\ tries = 0
    /\ resp_size = 0
    /\ resp_data = Nothing
    /\ outcome = "error"

(* Mutant: the length of the last response is kept.                        *)
SizeKept == resp_size

SizeAtStart == 0

StartCheckIn ==
    /\ stage = "idle"
    /\ stage' = "conf_url"
    /\ tries' = 0
    /\ resp_size' = SizeAtStart
    /\ resp_data' = Nothing
    /\ told' = {}
    /\ UNCHANGED <<driver, coming, stored, outcome>>

CommandOf(s) ==
    CASE s = "post" -> Post
      [] s = "read" -> Read(resp_size)
      [] OTHER -> Basic

RunStage ==
    /\ stage \in Stages
    /\ Execute(CommandOf(stage))
    /\ UNCHANGED <<stage, tries, resp_size, resp_data, outcome>>

IsFirstLine(i) ==
    /\ rxbuf.got[i].part = "post"
    /\ \A j \in 1..(i - 1) : rxbuf.got[j].part # "post"

(* lib_lte_post_http_request parses the first 63 bytes and takes the first *)
(* line of SHREQ there; when something late was collected too, there may   *)
(* be none, and then the request that was answered is an error.            *)
ReturnFromPost ==
    \/ /\ Return("success")
       /\ \E i \in DOMAIN rxbuf.got :
            IsFirstLine(i) /\ resp_size' = Length[rxbuf.got[i].reply]
    \/ Return("error") /\ SomethingLate /\ UNCHANGED resp_size

(* lib_lte_get_http_response_data copies whatever the result was, and a    *)
(* number of bytes in which all that answers the command has room.         *)
Copies ==
    {[got |-> SubSeq(rxbuf.got, 1, n), late |-> SomethingLate] :
        n \in IF SomethingLate THEN 0..Len(rxbuf.got) ELSE {Len(rxbuf.got)}}

ReturnToStage ==
    /\ IF stage = "post" /\ res = "success"
         THEN ReturnFromPost
         ELSE Return(res) /\ UNCHANGED resp_size
    /\ IF stage = "read" THEN resp_data' \in Copies ELSE UNCHANGED resp_data
    /\ UNCHANGED <<stage, tries, outcome>>

(* Mutants: the count is spent one try early; it is compared for equality. *)
SpentEarly(n) == n + 1 >= NumTries
SpentExactly(n) == n = NumTries

Spent(n) == n >= NumTries

StageSucceeds ==
    /\ phase = "returned" /\ res = "success"
    /\ stage # "end"
    /\ phase' = "idle"
    /\ stage' = Following[stage]
    /\ UNCHANGED <<rxbuf, cmd, res, network, tries, resp_size, resp_data, outcome>>

(* A header that is not cleared costs no try: the body is cleared instead. *)
HeaderNotCleared ==
    /\ phase = "returned" /\ res # "success"
    /\ stage = "clear_header"
    /\ phase' = "idle"
    /\ stage' = "clear_body"
    /\ UNCHANGED <<rxbuf, cmd, res, network, tries, resp_size, resp_data, outcome>>

StageFails ==
    /\ phase = "returned" /\ res # "success"
    /\ stage \notin {"clear_header", "end"}
    /\ phase' = "idle"
    /\ tries' = OneMore(tries)
    /\ stage' = IF Spent(tries') THEN LeftTo(stage) ELSE LoopOf(stage)
    /\ UNCHANGED <<rxbuf, cmd, res, network, resp_size, resp_data, outcome>>

(* strstr.  "unlock" has the word "lock" too.                              *)
HasWord(w) ==
    LET got == resp_data.got IN
    IF w = "unlock"
      THEN \E i \in DOMAIN got : /\ i > 1 /\ IsMark(got[i - 1], "un") /\ IsMark(got[i], "lock")
                                /\ got[i].reply = "unlock"
      ELSE \E i \in DOMAIN got : IsMark(got[i], w)

(* The words are looked for in a buffer that was freed when the tries were *)
(* spent on reading; nothing else allocates in between, so it still has    *)
(* what was copied to it.                                                  *)
WordFound ==
    IF tries > NumTries THEN "error"
    ELSE IF HasWord("unlock") THEN "unlock"
    ELSE IF HasWord("photo") THEN "photo"
    ELSE IF HasWord("lock") THEN "lock"
    ELSE "error"

EndCheckIn ==
    /\ phase = "returned"
    /\ stage = "end"
    /\ phase' = "idle"
    /\ stage' = "idle"
    /\ outcome' = IF res = "success" THEN WordFound ELSE "error"
    /\ UNCHANGED <<rxbuf, cmd, res, network, tries, resp_size, resp_data>>

-----------------------------------------------------------------------------
ScooterStep ==
    \/ RunStage
    \/ DriverStep /\ UNCHANGED <<stage, tries, resp_size, resp_data, outcome>>
    \/ ReturnToStage
    \/ StageSucceeds \/ HeaderNotCleared \/ StageFails \/ EndCheckIn

Next ==
    \/ StartCheckIn
    \/ ScooterStep
    \/ NetworkStep /\ UNCHANGED <<stage, tries, resp_size, resp_data, outcome>>

Spec == Init /\ [][Next]_vars

(* The scooter's own steps; every wait of it has a timeout.  Nothing is    *)
(* assumed of the module and the server.                                   *)
FairSpec == Spec /\ WF_vars(ScooterStep)

-----------------------------------------------------------------------------
(* Type invariant; tries never gets to the bound of the model.             *)
TypeOK ==
    /\ rxbuf = NoBuffer \/ (rxbuf.got \in Seq(Tokens) /\ rxbuf.closed \in BOOLEAN)
    /\ cmd \in Commands
    /\ res \in {"success", "error", "timeout"}
    /\ phase \in {"idle", "sending", "waiting", "decided", "returned"}
    /\ coming \subseteq [part : Awaited, age : 0..Late]
    /\ stored \in Replies
    /\ told \subseteq Replies
    /\ stage \in Stages \cup {"idle"}
    /\ tries \in 0..(MaxTries - 1)
    /\ resp_size \in {0} \cup {Length[r] : r \in Replies}
    /\ resp_data.got \in Seq(Tokens) /\ resp_data.late \in BOOLEAN
    /\ outcome \in {"unlock", "photo", "lock", "error"}

(* The interrupt only ever writes to the buffer of a function that has not *)
(* returned: the buffer is on its stack.                                   *)
BufferIsLive == rxbuf # NoBuffer => phase \in {"sending", "waiting", "decided"}

(* A check-in returns what the server answered during this very check-in   *)
(* and not what an earlier one left in the module or on the line.  One     *)
(* answer is mistaken for another: the end of "unlock", when its beginning *)
(* was collected by a try that timed out, is "lock".                       *)
OutcomeWasTold ==
    [][ stage = "end" /\ stage' = "idle" /\ outcome' # "error"
        => \/ outcome' \in told
           \/ outcome' = "lock" /\ "unlock" \in told /\ resp_data.late ]_vars

(* Fewer than NumTries failures do no harm: a check-in fails only when the *)
(* tries were spent, the server answered an error, the connection could    *)
(* not be ended or the answer to an earlier command, or the end of one,    *)
(* was taken for that of the last try to read.                             *)
FailureHasACause ==
    [][ stage = "end" /\ stage' = "idle" /\ outcome' = "error"
        => tries >= NumTries \/ "failed" \in told \/ res # "success" \/ resp_data.late ]_vars

(* Every check-in returns, whatever the module and the server do or do not *)
(* answer.                                                                 *)
CheckInEnds == stage # "idle" ~> stage = "idle"
=============================================================================
