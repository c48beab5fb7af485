------------------------------- MODULE AtCommand -------------------------------
(***************************************************************************)
(* The LTE driver (lib_lte.c) executing one AT command at a time over the  *)
(* UART (lib_uart.c), and the module at the other end of it.  lib_gps.c is *)
(* a copy of this driver for the other port.                               *)
(*                                                                         *)
(* A command is one of three kinds by what counts as its answer: "basic"   *)
(* (OK), "post" (OK and the line of SHREQ), "read" (OK and the text of the *)
(* server with its stop character).  Nothing ties an answer to a command:  *)
(* whatever arrives is collected by the receive interrupt in the buffer of *)
(* the command that is being executed, and an answer that is late arrives  *)
(* in the buffer of a later one.                                           *)
(*                                                                         *)
(* The interrupt takes single bytes, so an answer may be split between the *)
(* buffers of two commands.  The text of the server is therefore delivered *)
(* by its marks, which is what strstr looks for in it: "unlock*" is "un",  *)
(* "lock" and the stop character.  Of OK, ERROR and the line of SHREQ only *)
(* the whole is looked for.  A mark or a part that is itself split is in   *)
(* neither buffer: it is one that arrives between the two.                 *)
(***************************************************************************)
EXTENDS Naturals, Sequences

CONSTANTS
    Replies,        \* what the server answers, "failed" for an error
    Late,           \* bound: an answer comes during its command or the next Late ones, or never
    NoBuffer        \* NULL

ASSUME RepliesAssumption == Replies \subseteq {"unlock", "photo", "lock", "failed"}
ASSUME LateAssumption == Late \in Nat

VARIABLES
    rxbuf,          \* lte_state.rxbuf: the buffer of the command, or NoBuffer
    cmd,            \* the command lib_lte_execute_cmd executes
    res,            \* its result so far; final when phase is "returned"
    phase,
    \* the module and the server
    coming,         \* the parts of answers that are still to come
    stored,         \* the response of the last request
    told            \* history: what the server answered since the check-in began

driver == <<rxbuf, cmd, res, phase>>
network == <<coming, stored, told>>
atvars == <<driver, network>>

(* The marks of an answer's text, and at which character each ends.        *)
Marks ==
    [unlock |-> <<"un", "lock", "*">>, photo |-> <<"photo", "*">>,
     lock |-> <<"lock", "*">>, failed |-> <<"*">>]
End == [unlock |-> <<2, 6, 7>>, photo |-> <<5, 6>>, lock |-> <<4, 5>>, failed |-> <<17>>]

Length == [unlock |-> 7, photo |-> 6, lock |-> 5, failed |-> 17]
NoLength == 0

Basic == [kind |-> "basic", len |-> NoLength]
Post == [kind |-> "post", len |-> NoLength]
Read(n) == [kind |-> "read", len |-> n]
Commands == {Basic, Post} \cup {Read(n) : n \in {NoLength} \cup {Length[r] : r \in Replies}}

(* Parts of an answer that are on their way; those of the server are only  *)
(* known when they come.  Of a text the marks from "at" on are to come.    *)
OK == [part |-> "ok"]
ERROR == [part |-> "error"]
Request == [part |-> "request"]
Text(n, i) == [part |-> "text", len |-> n, at |-> i]
Awaited == {OK, ERROR, Request} \cup {Text(c.len, i) : c \in Commands, i \in 1..3}

(* What is collected: parts, and the marks of a text.  The program cannot  *)
(* see whether a part answers an earlier command ("late").                 *)
MarkTokens == [part : {"read"}, reply : Replies, at : 1..3, late : BOOLEAN]
Tokens ==
    [part : {"ok", "error"}, late : BOOLEAN]
    \cup [part : {"post"}, reply : Replies, late : BOOLEAN]
    \cup {t \in MarkTokens : t.at \in DOMAIN Marks[t.reply]}

(* NULL is none of the buffers.                                            *)
ASSUME NoBufferAssumption == NoBuffer \notin [got : Seq(Tokens), closed : BOOLEAN]

EmptyBuffer == [got |-> <<>>, closed |-> FALSE]
Has(p) == \E i \in DOMAIN rxbuf.got : rxbuf.got[i].part = p
SomethingLate == \E i \in DOMAIN rxbuf.got : rxbuf.got[i].late

IsMark(t, m) == t.part = "read" /\ Marks[t.reply][t.at] = m

AtInit ==
    /\ rxbuf = NoBuffer
    /\ cmd = Basic
    /\ res = "success"
    /\ phase = "idle"
    /\ coming = {}
    /\ stored \in Replies
    /\ told = {}

-----------------------------------------------------------------------------
(* lib_lte_execute_cmd                                                     *)

(* The buffer, zeroed and on the stack of the function, is ready before    *)
(* the command is sent.                                                    *)
Execute(c) ==
    /\ phase = "idle"
    /\ phase' = "sending"
    /\ cmd' = c
    /\ rxbuf' = EmptyBuffer
    /\ coming' = {[x EXCEPT !.age = @ + 1] : x \in {y \in coming : y.age < Late}}
    /\ UNCHANGED <<res, stored, told>>

(* External: how the module answers a command it has received, if it does. *)
(* What it reads of a response is what it has stored by then.              *)
Answers(c) ==
    {{}, {ERROR}}
    \cup CASE c.kind = "basic" -> {{OK}}
           [] c.kind = "post" -> {{OK, Request}}
           [] c.kind = "read" -> IF c.len = NoLength THEN {} ELSE {{OK, Text(c.len, 1)}}

Sent ==
    /\ phase = "sending"
    /\ phase' = "waiting"
    /\ \E answer \in Answers(cmd) : coming' = coming \cup {[part |-> p, age |-> 0] : p \in answer}
    /\ UNCHANGED <<rxbuf, cmd, res, stored, told>>

(* lib_uart_tx gives up when the UART takes no byte for the timeout.       *)
SendFails ==
    /\ phase = "sending"
    /\ phase' = "decided"
    /\ res' = "error"
    /\ UNCHANGED <<rxbuf, cmd, network>>

(* What the wait for an answer looks for.  Once OK is there an ERROR or a  *)
(* buffer that is closed is not looked for any more.                       *)
IsAnswered ==
    /\ Has("ok")
    /\ CASE cmd.kind = "basic" -> TRUE
         [] cmd.kind = "post" -> Has("post")
         [] cmd.kind = "read" -> \E i \in DOMAIN rxbuf.got : IsMark(rxbuf.got[i], "*")

IsRefused == ~Has("ok") /\ (Has("error") \/ rxbuf.closed)

Decide ==
    /\ phase = "waiting"
    /\ \/ IsAnswered /\ res' = "success"
       \/ IsRefused /\ res' = "error"
       \/ res' = "timeout"
    /\ phase' = "decided"
    /\ UNCHANGED <<rxbuf, cmd, network>>

-----------------------------------------------------------------------------
(* lib_uart_rx_irq, which may interrupt at any point, and its callbacks.   *)

(* External: the answers of one command come in order, and a text that has *)
(* begun to come is not interrupted by another part.                       *)
IsBegun(x) == x.part.part = "text" /\ x.part.at > 1

IsNext(x) ==
    /\ x \in coming
    /\ x.part # OK => [part |-> OK, age |-> x.age] \notin coming
    /\ (\E y \in coming : IsBegun(y)) => IsBegun(x)

(* The text is of the answer that is stored when it begins to come, and no *)
(* other is stored before it has come.  When it is too short it ends       *)
(* before its next mark.                                                   *)
HasMark(p, i) == i \in DOMAIN End[stored] /\ End[stored][i] <= p.len
IsEmpty(p) == p.part = "text" /\ ~HasMark(p, p.at)

(* What is still to come of x after the next of it.                        *)
Left(x) ==
    IF x.part.part = "text" /\ HasMark(x.part, x.part.at + 1)
      THEN {[x EXCEPT !.part = Text(x.part.len, x.part.at + 1)]}
      ELSE {}

Token(x) ==
    LET late == x.age > 0 IN
    CASE x.part.part = "request" -> [part |-> "post", reply |-> stored', late |-> late]
      [] x.part.part = "text" -> [part |-> "read", reply |-> stored, at |-> x.part.at, late |-> late]
      [] OTHER -> [part |-> x.part.part, late |-> late]

(* The server answers the request when its line comes.                     *)
ServerAnswers(x) ==
    IF x.part.part = "request"
      THEN \E r \in Replies : stored' = r /\ told' = told \cup {r}
      ELSE UNCHANGED <<stored, told>>

(* Bytes go to the buffer, if there is one that is not closed.             *)
Collect(t) ==
    rxbuf' = IF rxbuf # NoBuffer /\ ~rxbuf.closed
               THEN [rxbuf EXCEPT !.got = Append(@, t)]
               ELSE rxbuf

Arrives(x) ==
    /\ IsNext(x)
    /\ ServerAnswers(x)
    /\ coming' = (coming \ {x}) \cup Left(x)
    /\ IF IsEmpty(x.part) THEN UNCHANGED rxbuf ELSE Collect(Token(x))
    /\ UNCHANGED <<cmd, res, phase>>

(* A damaged byte, or one that fills the buffer, closes it: what follows   *)
(* is not collected.  (The model lets any part fill the buffer.)           *)
ArrivesDamaged(x) ==
    /\ IsNext(x)
    /\ ServerAnswers(x)
    /\ coming' = (coming \ {x}) \cup Left(x)
    /\ rxbuf' = IF rxbuf = NoBuffer THEN rxbuf ELSE [rxbuf EXCEPT !.closed = TRUE]
    /\ UNCHANGED <<cmd, res, phase>>

-----------------------------------------------------------------------------
(* Mutant: the buffer is left registered when the command was not sent.    *)
BufferKept == IF res = "error" /\ rxbuf.got = <<>> THEN rxbuf ELSE NoBuffer

BufferAfter == NoBuffer

(* The buffer is taken from the interrupt before the function returns.     *)
(* What the caller returns may be another result, r.                       *)
Return(r) ==
    /\ phase = "decided"
    /\ phase' = "returned"
    /\ res' = r
    /\ rxbuf' = BufferAfter
    /\ UNCHANGED <<cmd, network>>

DriverStep == Sent \/ SendFails \/ Decide
NetworkStep == \E x \in coming : Arrives(x) \/ ArrivesDamaged(x)
=============================================================================
