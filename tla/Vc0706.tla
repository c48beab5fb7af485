--------------------------------- MODULE Vc0706 ---------------------------------
(***************************************************************************)
(* lib_VC0706.c: the driver of the camera, which executes one command at a *)
(* time over the UART, and the camera at the other end.                    *)
(*                                                                         *)
(* An answer is a head and, for the data of a picture, a body.  It names   *)
(* the kind of its command, but not the address that was asked for.        *)
(***************************************************************************)
EXTENDS Naturals, Sequences

CONSTANTS
    Pictures,       \* what the camera may see: sequences of bytes
    Late            \* bound: an answer comes during its command or the next Late ones, or never

ASSUME LateAssumption == Late \in Nat

VARIABLES
    bus_busy,       \* VC0706_state.bus_busy: the interrupt collects what comes
    rxbuf,          \* what VC0706_state.rxbuf points to, on the stack of the function
    cmd,            \* the command lib_VC0706_execute_cmd executes
    res,            \* its result
    phase,
    \* the camera
    coming,         \* the parts of answers that are on their way
    frame,          \* the picture in its frame buffer
    \* history
    unsent,         \* a command could not be sent
    late,           \* a part of an earlier answer came while the bus was busy
    astray          \* a byte went to a buffer whose function had returned

driver == <<bus_busy, rxbuf, cmd, res, phase>>
camera == <<coming, frame>>
witness == <<unsent, late, astray>>
vcvars == <<driver, camera, witness>>

Stop == [kind |-> "stop"]
GetLength == [kind |-> "length"]
GetData(from, n) == [kind |-> "data", from |-> from, n |-> n]
Start == [kind |-> "start"]
Reset == [kind |-> "reset"]

HeadOf(c) == [part |-> "head", kind |-> c.kind]
LengthHead(n) == [part |-> "head", kind |-> "length", value |-> n]
Body(bytes) == [part |-> "body", bytes |-> bytes]

PartsOf(c) == IF c.kind = "data" THEN 2 ELSE 1
EmptyBuffer == [got |-> <<>>, state |-> "receiving"]

VcInit ==
    /\ bus_busy = FALSE
    /\ rxbuf = EmptyBuffer
    /\ cmd = Reset
    /\ res = "success"
    /\ phase = "idle"
    /\ coming = <<>>
    /\ frame \in Pictures
    /\ unsent = FALSE /\ late = FALSE /\ astray = FALSE

-----------------------------------------------------------------------------
(* lib_VC0706_execute_cmd and lib_VC0706_send_cmd                          *)

(* The buffer is set up and the bus busy before the command is sent.       *)
(* Answers come in order, so the first old ones are those too late to come.*)
Execute(c) ==
    /\ phase = "idle"
    /\ phase' = "sending"
    /\ cmd' = c
    /\ rxbuf' = EmptyBuffer
    /\ bus_busy' = TRUE
    /\ \E old \in 0..Len(coming) :
         /\ \A i \in DOMAIN coming : i <= old <=> coming[i].age >= Late
         /\ coming' = [i \in 1..(Len(coming) - old) |-> [coming[old + i] EXCEPT !.age = @ + 1]]
    /\ UNCHANGED <<res, frame, witness>>

(* External: the frame buffer; beyond the picture it is zero.              *)
FrameBytes(from, n) == [i \in 1..n |-> IF from + i <= Len(frame) THEN frame[from + i] ELSE 0]

(* External: what the camera answers.  It takes its picture when it is     *)
(* stopped.                                                                *)
AnswerTo(c) ==
    CASE c.kind = "length" -> <<LengthHead(Len(frame))>>
      [] c.kind = "data" -> <<HeadOf(c), Body(FrameBytes(c.from, c.n))>>
      [] OTHER -> <<HeadOf(c)>>

Sent ==
    /\ phase = "sending"
    /\ phase' = "waiting"
    /\ \/ UNCHANGED camera
       \/ /\ frame' \in (IF cmd.kind = "stop" THEN Pictures ELSE {frame})
          /\ LET answer == AnswerTo(cmd)
             IN  coming' = coming \o [i \in DOMAIN answer |-> [what |-> answer[i], age |-> 0]]
    /\ UNCHANGED <<bus_busy, rxbuf, cmd, res, witness>>

(* lib_uart_tx gives up: the bus stays busy.                               *)
SendFails ==
    /\ phase = "sending"
    /\ phase' = "returned"
    /\ res' = "error"
    /\ unsent' = TRUE
    /\ UNCHANGED <<bus_busy, rxbuf, cmd, camera, late, astray>>

(* Mutant: a command that timed out leaves the bus busy.                   *)
BusyAfterTimeout == rxbuf.state # "done"

BusyAfterWait == FALSE

(* lib_VC0706_verify_response: the head of an answer to this kind of       *)
(* command.  Where a body was collected first, anything may be there.      *)
Verified ==
    IF rxbuf.got[1].part = "body" THEN {"success", "error"}
    ELSE IF rxbuf.got[1].kind = cmd.kind THEN {"success"} ELSE {"error"}

(* The wait ends with a full buffer or with the time-out, also when the    *)
(* buffer becomes full as the time ends.                                   *)
WaitEnds ==
    /\ phase = "waiting"
    /\ phase' = "returned"
    /\ bus_busy' = BusyAfterWait
    /\ res' \in {"timeout"} \cup (IF rxbuf.state = "done" THEN Verified ELSE {})
    /\ UNCHANGED <<rxbuf, cmd, camera, witness>>

-----------------------------------------------------------------------------
(* lib_uart_rx_irq and the two callbacks.                                  *)

IsLive == phase \in {"sending", "waiting"}

(* A part comes, intact or damaged.  It is ignored unless the bus is busy, *)
(* and goes astray when the function of the buffer has returned.           *)
Arrives(intact) ==
    LET x == Head(coming)
        got == Append(rxbuf.got, x.what)
    IN  /\ coming # <<>>
        /\ coming' = Tail(coming)
        /\ astray' = (astray \/ (bus_busy /\ ~IsLive))
        /\ late' = (late \/ (bus_busy /\ x.age > 0))
        /\ rxbuf' =
             IF ~(bus_busy /\ IsLive /\ rxbuf.state = "receiving") THEN rxbuf
             ELSE IF ~intact THEN [rxbuf EXCEPT !.state = "error"]
             ELSE [got |-> got, state |-> IF Len(got) >= PartsOf(cmd) THEN "done" ELSE "receiving"]
        /\ UNCHANGED <<bus_busy, cmd, res, phase, frame, unsent>>

(* External: the rest of an answer never comes.                            *)
IsLost ==
    /\ coming # <<>>
    /\ coming' = Tail(coming)
    /\ UNCHANGED <<driver, frame, witness>>

DriverStep == Sent \/ SendFails \/ WaitEnds
UartStep == (\E intact \in BOOLEAN : Arrives(intact)) \/ IsLost
=============================================================================
