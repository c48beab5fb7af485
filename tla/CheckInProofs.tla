----------------------------- MODULE CheckInProofs -----------------------------
(***************************************************************************)
(* Proofs about CheckIn, for any set of replies, however late an answer    *)
(* comes (Late) and for any number of tries.                               *)
(*                                                                         *)
(* FailureHasACause says that the count of tries, which all stages share,  *)
(* and what came late are the only things that can keep a good answer from *)
(* being found: as long as the tries are not spent, the stage before       *)
(* reading saw the server's line (ResponseStored), so what is read is an   *)
(* answer of this check-in (TextsTold), its stop character is there        *)
(* (EndIsRead), and the marks before it are, too (InOrder).                *)
(*                                                                         *)
(* OutcomeWasTold needs more: once the tries are spent the scooter reads   *)
(* even when its request was not answered, and a text that an earlier      *)
(* check-in asked for may still be on its way.  OldTexts counts the        *)
(* commands that have begun since: a check-in that reads without an answer *)
(* and still returns a word has spent all its tries on the request, so     *)
(* that text is NumTries + 11 commands late.                               *)
(***************************************************************************)
EXTENDS CheckIn, TLAPS

Live == phase \in {"sending", "waiting", "decided"}

Buffers == [got : Seq(Tokens), closed : BOOLEAN]

Got == {rxbuf.got[i] : i \in DOMAIN rxbuf.got}
Copied == {resp_data.got[i] : i \in DOMAIN resp_data.got}

(* How far above NumTries the count can be in a stage: every stage that is *)
(* left with the count spent adds one.                                     *)
Excess ==
    [conf_url |-> 0, conf_body |-> 0, conf_header |-> 0, start |-> 1,
     clear_header |-> 2, clear_body |-> 2, lat |-> 3, lon |-> 4, uuid |-> 5,
     valid |-> 6, post |-> 7, read |-> 8, end |-> 9, idle |-> 9]

DriverTypes ==
    /\ IF Live THEN rxbuf \in Buffers ELSE rxbuf = NoBuffer
    /\ cmd \in Commands
    /\ res \in {"success", "error", "timeout"}
    /\ phase \in {"idle", "sending", "waiting", "decided", "returned"}
    /\ coming \subseteq [part : Awaited, age : 0..Late]
    /\ stored \in Replies
    /\ told \subseteq Replies

StageTypes ==
    /\ stage \in Stages \cup {"idle"}
    /\ tries \in Nat /\ tries <= NumTries + Excess[stage]
    /\ resp_size \in {0} \cup {Length[r] : r \in Replies}
    /\ resp_data \in [got : Seq(Tokens), late : BOOLEAN]
    /\ outcome \in {"unlock", "photo", "lock", "error"}

OneCommand == phase # "idle" => stage \in Stages /\ cmd = CommandOf(stage)

ResponseStored ==
    /\ Live /\ (\E p \in Got : p.part = "post") => stored \in told
    /\ stage = "post" /\ phase \in {"decided", "returned"} /\ res = "success" => stored \in told
    /\ stage \in {"read", "end"} /\ tries < NumTries => stored \in told

TextsTold ==
    tries < NumTries =>
      /\ stage = "read" /\ Live => \A p \in Got : p.part = "read" => p.reply \in told
      /\ (stage = "read" /\ phase = "returned") \/ stage = "end" =>
            \A p \in Copied : p.part = "read" => p.reply \in told

EndIsRead ==
    /\ stage = "read" /\ phase = "decided" /\ res = "success" => \E p \in Got : IsMark(p, "*")
    /\ (stage = "read" /\ phase = "returned" /\ res = "success") \/ (stage = "end" /\ tries < NumTries) =>
          resp_data.late \/ \E p \in Copied : IsMark(p, "*")

IInv == DriverTypes /\ StageTypes /\ OneCommand /\ ResponseStored /\ TextsTold /\ EndIsRead

-----------------------------------------------------------------------------
(* The stages come in one order, and none is left to one that allows less. *)
LEMMA Order ==
    ASSUME NEW s \in Stages \ {"end"}
    PROVE  /\ Following[s] \in Stages /\ LeftTo(s) \in Stages /\ LoopOf(s) \in Stages
           /\ Following[s] \in {"read", "end"} => s \in {"post", "read"}
           /\ LeftTo(s) = "end" => s = "read"
           /\ LeftTo(s) = "read" => s = "post"
           /\ Following[s] = "read" => s = "post"
           /\ Following[s] = "end" => s = "read"
           /\ LoopOf(s) \in {"read", "end"} => s = "read" /\ LoopOf(s) = "read"
           /\ Excess[s] \in Nat /\ Excess[s] <= Excess[Following[s]]
           /\ Excess[Following[s]] \in Nat /\ Excess[LeftTo(s)] \in Nat /\ Excess[LoopOf(s)] \in Nat
           /\ s # "clear_header" => Excess[s] + 1 <= Excess[LeftTo(s)]
BY DEF Stages, Following, LeftTo, LoopOf, Setup, Excess

LEMMA GotInTokens ==
    ASSUME rxbuf \in Buffers
    PROVE  Got \subseteq Tokens
BY DEF Got, Buffers

(* What a token that is collected adds to the buffer.                      *)
LEMMA CollectFacts ==
    ASSUME rxbuf \in Buffers, NEW p \in Tokens, Collect(p)
    PROVE  /\ rxbuf' \in Buffers
           /\ Got \subseteq Got' /\ Got' \subseteq Got \cup {p}
<1>1. CASE rxbuf' = rxbuf
    BY <1>1 DEF Got
<1>2. CASE rxbuf' # rxbuf
  <2>1. rxbuf' = [rxbuf EXCEPT !.got = Append(@, p)]
      BY <1>2 DEF Collect
  <2>2. /\ rxbuf'.got = Append(rxbuf.got, p) /\ rxbuf'.closed = rxbuf.closed
        /\ rxbuf' \in Buffers
      BY <2>1 DEF Buffers
  <2>3. /\ DOMAIN rxbuf'.got = 1..(Len(rxbuf.got) + 1) /\ DOMAIN rxbuf.got = 1..Len(rxbuf.got)
        /\ \A i \in 1..Len(rxbuf.got) : rxbuf'.got[i] = rxbuf.got[i]
        /\ rxbuf'.got[Len(rxbuf.got) + 1] = p
        /\ Len(rxbuf.got) \in Nat
      BY <2>2 DEF Buffers
  <2>4. Got \subseteq Got'
      BY <2>3 DEF Got
  <2>5. Got' \subseteq Got \cup {p}
      BY <2>3 DEF Got
  <2> QED
      BY <2>2, <2>4, <2>5
<1> QED
    BY <1>1, <1>2

(* What comes is a part or a mark that the answer has, and what is left of *)
(* a text is a text of the same command.                                   *)
LEMMA MarkFacts ==
    ASSUME stored \in Replies, NEW c \in Commands, NEW i \in 1..3
    PROVE  /\ HasMark(Text(c.len, i), i) =>
                i \in DOMAIN Marks[stored]
           /\ HasMark(Text(c.len, i), i + 1) =>
                i + 1 \in 1..3 /\ HasMark(Text(c.len, i), i)
<1>1. c.len \in Nat
    BY RepliesAssumption DEF Commands, Basic, Post, Read, NoLength, Length
<1>2. Text(c.len, i).len = c.len
    BY DEF Text
<1>3. stored \in {"unlock", "photo", "lock", "failed"}
    BY RepliesAssumption
<1> QED
    BY <1>1, <1>2, <1>3 DEF HasMark, End, Marks

LEMMA ComingFacts ==
    ASSUME stored \in Replies, NEW x \in [part : Awaited, age : 0..Late]
    PROVE  /\ Left(x) \subseteq [part : Awaited, age : 0..Late]
           /\ \A y \in Left(x) : /\ x.part.part = "text" /\ y.part.part = "text" /\ y.age = x.age
                                /\ x.part.at \in 1..3 /\ y.part.at = x.part.at + 1
                                /\ ~IsEmpty(x.part)
           /\ x.part.part # "request" /\ ~IsEmpty(x.part) => Token(x) \in Tokens
           /\ x.part.part = "text" =>
                /\ x.part.at \in 1..3
                /\ Token(x).part = "read" /\ Token(x).reply = stored
                /\ Token(x).at = x.part.at /\ (Token(x).late <=> x.age > 0)
           /\ x.part.part \notin {"request", "text"} => Token(x).part \notin {"post", "read"}
<1>0. x.part \in Awaited /\ x.age \in 0..Late
    OBVIOUS
<1>1. CASE x.part.part = "text"
  <2>1. PICK c \in Commands, i \in 1..3 : x.part = Text(c.len, i)
      BY <1>0, <1>1 DEF Awaited, OK, ERROR, Request
  <2>2. x.part.len = c.len /\ x.part.at = i /\ x.part.part = "text"
      BY <2>1 DEF Text
  <2>3. \A y \in Left(x) : HasMark(x.part, i + 1) /\ y = [x EXCEPT !.part = Text(c.len, i + 1)]
      BY <2>2 DEF Left
  <2>4. ASSUME NEW y \in Left(x)
        PROVE  /\ y \in [part : Awaited, age : 0..Late] /\ y.age = x.age
               /\ y.part.part = "text" /\ y.part.at = i + 1 /\ ~IsEmpty(x.part)
    <3>1. i + 1 \in 1..3 /\ HasMark(x.part, i)
        BY <2>1, <2>3, <2>4, MarkFacts
    <3>2. Text(c.len, i + 1) \in Awaited
        BY <3>1 DEF Awaited
    <3>3. y.part = Text(c.len, i + 1) /\ y.age = x.age /\ y \in [part : Awaited, age : 0..Late]
        BY <1>0, <2>3, <2>4, <3>2
    <3> QED
        BY <2>2, <3>1, <3>3 DEF Text, IsEmpty
  <2>5. Token(x) = [part |-> "read", reply |-> stored, at |-> i, late |-> x.age > 0]
      BY <1>1, <2>2 DEF Token
  <2>6. ~IsEmpty(x.part) => i \in DOMAIN Marks[stored]
      BY <2>1, <2>2, MarkFacts DEF IsEmpty
  <2>7. ~IsEmpty(x.part) => Token(x) \in Tokens
    <3>1. Token(x) \in MarkTokens
        BY <2>5 DEF MarkTokens
    <3>2. Token(x).at = i /\ Token(x).reply = stored
        BY <2>5
    <3> QED
        BY <2>6, <3>1, <3>2 DEF Tokens
  <2>8. \A y \in Left(x) : /\ y \in [part : Awaited, age : 0..Late] /\ y.age = x.age
                           /\ y.part.part = "text" /\ y.part.at = x.part.at + 1 /\ ~IsEmpty(x.part)
      BY <2>2, <2>4
  <2>9. /\ Token(x).part = "read" /\ Token(x).reply = stored
        /\ Token(x).at = x.part.at /\ (Token(x).late <=> x.age > 0)
    <3> DEFINE late == x.age > 0
    <3>1. late \in BOOLEAN
        BY <1>0, LateAssumption
    <3>2. Token(x) = [part |-> "read", reply |-> stored, at |-> i, late |-> late]
        BY <2>5
    <3>3. Token(x).late = late
      <4> HIDE DEF late
      <4> QED
          BY <3>2
    <3>4. Token(x).late <=> x.age > 0
        BY <3>3, Zenon
    <3>5. Token(x).part = "read" /\ Token(x).reply = stored /\ Token(x).at = x.part.at
        BY <2>2, <2>5
    <3> QED
        BY <3>4, <3>5, Zenon
  <2> QED
      BY <1>1, <2>2, <2>7, <2>8, <2>9
<1>2. CASE x.part.part # "text"
  <2>1. Left(x) = {}
      BY <1>2 DEF Left
  <2>2. CASE x.part.part = "request"
      BY <2>1, <2>2
  <2>3. CASE x.part.part # "request"
    <3>1. x.part.part \in {"ok", "error"}
        BY <1>0, <1>2, <2>3 DEF Awaited, OK, ERROR, Request, Text
    <3>2. Token(x) = [part |-> x.part.part, late |-> x.age > 0]
        BY <3>1 DEF Token
    <3> QED
        BY <1>2, <2>1, <3>1, <3>2 DEF Tokens
  <2> QED
      BY <2>2, <2>3
<1> QED
    BY <1>1, <1>2

LEMMA InitEstablishes == Init => IInv
<1> SUFFICES ASSUME Init PROVE IInv
    OBVIOUS
<1>1. DriverTypes
    BY DEF Init, AtInit, DriverTypes, Live, Commands
<1>2. StageTypes
    BY NumTriesAssumption DEF Init, StageTypes, Excess, Nothing
<1>3. phase = "idle" /\ stage = "idle"
    BY DEF Init, AtInit
<1> QED
    BY <1>1, <1>2, <1>3 DEF IInv, OneCommand, ResponseStored, TextsTold, EndIsRead, Live

-----------------------------------------------------------------------------
(* The driver                                                              *)

LEMMA RunStageKeeps == ASSUME IInv, RunStage PROVE IInv'
<1>1. /\ stage \in Stages /\ phase = "idle" /\ phase' = "sending"
      /\ cmd' = CommandOf(stage) /\ rxbuf' = EmptyBuffer
      /\ UNCHANGED <<res, stored, told, stage, tries, resp_size, resp_data, outcome>>
    BY DEF RunStage, Execute
<1>2. coming' \subseteq [part : Awaited, age : 0..Late]
  <2>1. coming' = {[x EXCEPT !.age = @ + 1] : x \in {y \in coming : y.age < Late}}
      BY DEF RunStage, Execute
  <2>2. \A x \in coming : x \in [part : Awaited, age : 0..Late]
      BY DEF IInv, DriverTypes
  <2>3. \A x \in coming : x.age < Late =>
          [x EXCEPT !.age = @ + 1] \in [part : Awaited, age : 0..Late]
      BY <2>2, LateAssumption
  <2> QED
      BY <2>1, <2>3
<1>3. CommandOf(stage) \in Commands
    BY DEF CommandOf, Commands, Read, NoLength, IInv, StageTypes
<1>4. EmptyBuffer \in Buffers /\ Got' = {}
    BY <1>1 DEF EmptyBuffer, Buffers, Got
<1>5. DriverTypes'
    BY <1>1, <1>2, <1>3, <1>4 DEF IInv, DriverTypes, Live
<1>6. StageTypes' /\ OneCommand'
    BY <1>1 DEF IInv, StageTypes, OneCommand, CommandOf
<1>7. ResponseStored' /\ TextsTold' /\ EndIsRead'
    BY <1>1, <1>4 DEF IInv, ResponseStored, TextsTold, EndIsRead, Copied, Live
<1> QED
    BY <1>5, <1>6, <1>7 DEF IInv

LEMMA SentKeeps ==
    ASSUME IInv, Sent, UNCHANGED <<stage, tries, resp_size, resp_data, outcome>>
    PROVE  IInv'
<1>1. /\ phase = "sending" /\ phase' = "waiting"
      /\ UNCHANGED <<rxbuf, cmd, res, stored, told>>
    BY DEF Sent
<1>2. coming' \subseteq [part : Awaited, age : 0..Late]
  <2>1. PICK answer \in Answers(cmd) : coming' = coming \cup {[part |-> p, age |-> 0] : p \in answer}
      BY DEF Sent
  <2>2. answer \subseteq Awaited
      BY DEF Answers, Awaited, IInv, DriverTypes, Commands, Basic, Post, Read, Request
  <2>3. \A p \in Awaited : [part |-> p, age |-> 0] \in [part : Awaited, age : 0..Late]
      BY LateAssumption
  <2> QED
      BY <2>1, <2>2, <2>3 DEF IInv, DriverTypes
<1>3. Got' = Got
    BY <1>1 DEF Got
<1>4. DriverTypes'
    BY <1>1, <1>2 DEF IInv, DriverTypes, Live
<1>5. StageTypes' /\ OneCommand'
    BY <1>1 DEF IInv, StageTypes, OneCommand, CommandOf
<1>6. ResponseStored' /\ TextsTold' /\ EndIsRead'
    BY <1>1, <1>3 DEF IInv, ResponseStored, TextsTold, EndIsRead, Copied, Live
<1> QED
    BY <1>4, <1>5, <1>6 DEF IInv

LEMMA SendFailsKeeps ==
    ASSUME IInv, SendFails, UNCHANGED <<stage, tries, resp_size, resp_data, outcome>>
    PROVE  IInv'
<1>1. /\ phase = "sending" /\ phase' = "decided" /\ res' = "error"
      /\ UNCHANGED <<rxbuf, cmd, coming, stored, told>>
    BY DEF SendFails, network
<1>2. Got' = Got
    BY <1>1 DEF Got
<1>3. DriverTypes'
    BY <1>1 DEF IInv, DriverTypes, Live
<1>4. StageTypes' /\ OneCommand'
    BY <1>1 DEF IInv, StageTypes, OneCommand, CommandOf
<1>5. ResponseStored' /\ TextsTold' /\ EndIsRead'
    BY <1>1, <1>2 DEF IInv, ResponseStored, TextsTold, EndIsRead, Copied, Live
<1> QED
    BY <1>3, <1>4, <1>5 DEF IInv

(* What is decided a success has the line of SHREQ, or the whole text.     *)
LEMMA DecideKeeps ==
    ASSUME IInv, Decide, UNCHANGED <<stage, tries, resp_size, resp_data, outcome>>
    PROVE  IInv'
<1>1. /\ phase = "waiting" /\ phase' = "decided" /\ res' \in {"success", "error", "timeout"}
      /\ res' = "success" => IsAnswered
      /\ UNCHANGED <<rxbuf, cmd, coming, stored, told>>
    BY DEF Decide, network
<1>2. Got' = Got
    BY <1>1 DEF Got
<1>3. cmd = CommandOf(stage)
    BY <1>1 DEF IInv, OneCommand
<1>4. DriverTypes'
    BY <1>1 DEF IInv, DriverTypes, Live
<1>5. StageTypes' /\ OneCommand'
    BY <1>1 DEF IInv, StageTypes, OneCommand, CommandOf
<1>6. stage = "post" /\ res' = "success" => stored \in told
  <2> SUFFICES ASSUME stage = "post", res' = "success" PROVE stored \in told
      OBVIOUS
  <2>1. cmd.kind = "post"
      BY <1>3 DEF CommandOf, Post
  <2>2. \E p \in Got : p.part = "post"
      BY <1>1, <2>1 DEF IsAnswered, Has, Got
  <2> QED
      BY <1>1, <2>2 DEF IInv, ResponseStored, Live
<1>7. stage = "read" /\ res' = "success" => \E p \in Got : IsMark(p, "*")
  <2> SUFFICES ASSUME stage = "read", res' = "success" PROVE \E p \in Got : IsMark(p, "*")
      OBVIOUS
  <2>1. cmd.kind = "read"
      BY <1>3 DEF CommandOf, Read
  <2> QED
      BY <1>1, <2>1 DEF IsAnswered, Got
<1>8. ResponseStored' /\ TextsTold'
    BY <1>1, <1>2, <1>6 DEF IInv, ResponseStored, TextsTold, Copied, Live
<1>9. EndIsRead'
    BY <1>1, <1>2, <1>7 DEF IInv, EndIsRead, IsMark, Copied
<1> QED
    BY <1>4, <1>5, <1>8, <1>9 DEF IInv

(* What is copied is the beginning of what was collected, all of it when   *)
(* nothing in it is late.                                                  *)
LEMMA CopyFacts ==
    ASSUME rxbuf \in Buffers, NEW d \in Copies
    PROVE  /\ d \in [got : Seq(Tokens), late : BOOLEAN]
           /\ DOMAIN d.got \subseteq DOMAIN rxbuf.got
           /\ \A i \in DOMAIN d.got : d.got[i] = rxbuf.got[i] /\ (i > 1 => i - 1 \in DOMAIN d.got)
           /\ \A i \in DOMAIN d.got : i \in Nat
           /\ ~d.late => d.got = rxbuf.got /\ \A i \in DOMAIN d.got : ~d.got[i].late
<1>1. PICK n \in IF SomethingLate THEN 0..Len(rxbuf.got) ELSE {Len(rxbuf.got)} :
        d = [got |-> SubSeq(rxbuf.got, 1, n), late |-> SomethingLate]
    BY DEF Copies
<1>2. rxbuf.got \in Seq(Tokens) /\ n \in 0..Len(rxbuf.got) /\ Len(rxbuf.got) \in Nat
    BY <1>1 DEF Buffers
<1>3. SomethingLate \in BOOLEAN
    BY DEF SomethingLate
<1>4. SubSeq(rxbuf.got, 1, n) \in Seq(Tokens)
    BY <1>2
<1>5. Len(SubSeq(rxbuf.got, 1, n)) = n /\ \A i \in 1..n : SubSeq(rxbuf.got, 1, n)[i] = rxbuf.got[i]
    BY <1>2
<1>6. d \in [got : Seq(Tokens), late : BOOLEAN] /\ d.got = SubSeq(rxbuf.got, 1, n)
      /\ (d.late <=> SomethingLate)
    BY <1>1, <1>3, <1>4
<1>7. DOMAIN d.got = 1..n /\ DOMAIN rxbuf.got = 1..Len(rxbuf.got)
    BY <1>2, <1>4, <1>5, <1>6
<1>8. ~d.late => n = Len(rxbuf.got)
    BY <1>1, <1>6
<1>9. ~d.late => d.got = rxbuf.got
    BY <1>2, <1>5, <1>6, <1>7, <1>8
<1>10. ~d.late => \A i \in DOMAIN d.got : ~d.got[i].late
    BY <1>6, <1>9 DEF SomethingLate
<1> QED
    BY <1>2, <1>5, <1>6, <1>7, <1>9, <1>10

LEMMA ReturnKeeps == ASSUME IInv, ReturnToStage PROVE IInv'
<1>1. /\ phase = "decided" /\ phase' = "returned" /\ rxbuf' = NoBuffer /\ rxbuf \in Buffers
      /\ res' \in {"success", "error", "timeout"} /\ (res' = "success" => res = "success")
      /\ UNCHANGED <<cmd, coming, stored, told, stage, tries, outcome>>
    BY DEF ReturnToStage, ReturnFromPost, Return, BufferAfter, network, IInv, DriverTypes, Live
<1>2. Got \subseteq Tokens
    BY <1>1, GotInTokens
<1>3. stage # "read" => resp_data' = resp_data
    BY DEF ReturnToStage
<1>4. stage = "read" => /\ resp_data' \in [got : Seq(Tokens), late : BOOLEAN]
                        /\ Copied' \subseteq Got /\ (resp_data'.late \/ Copied' = Got)
  <2>1. stage = "read" => resp_data' \in Copies
      BY DEF ReturnToStage
  <2> QED
      BY <1>1, <2>1, CopyFacts DEF Copied, Got
<1>5. resp_size' \in {0} \cup {Length[r] : r \in Replies} /\ (stage # "post" => resp_size' = resp_size)
  <2>1. CASE resp_size' = resp_size
      BY <2>1 DEF IInv, StageTypes
  <2>2. CASE resp_size' # resp_size
    <3>1. stage = "post" /\ \E i \in DOMAIN rxbuf.got :
            IsFirstLine(i) /\ resp_size' = Length[rxbuf.got[i].reply]
        BY <2>2 DEF ReturnToStage, ReturnFromPost
    <3>2. PICK i \in DOMAIN rxbuf.got : IsFirstLine(i) /\ resp_size' = Length[rxbuf.got[i].reply]
        BY <3>1
    <3>3. rxbuf.got[i] \in Tokens /\ rxbuf.got[i].part = "post"
        BY <1>2, <3>2 DEF Got, IsFirstLine
    <3>4. rxbuf.got[i].reply \in Replies
        BY <3>3 DEF Tokens, MarkTokens
    <3> QED
        BY <3>1, <3>2, <3>4
  <2> QED
      BY <2>1, <2>2
<1>6. DriverTypes'
    BY <1>1 DEF IInv, DriverTypes, Live
<1>7. StageTypes'
    BY <1>1, <1>3, <1>4, <1>5 DEF IInv, StageTypes
<1>8. OneCommand'
    BY <1>1, <1>5 DEF IInv, OneCommand, CommandOf
<1>9. ResponseStored'
    BY <1>1 DEF IInv, ResponseStored, Live
<1>10. Copied' = Copied \/ stage = "read"
    BY <1>3 DEF Copied
<1>11. TextsTold'
    BY <1>1, <1>4, <1>10 DEF IInv, TextsTold, Live, Stages
<1>12. EndIsRead'
    BY <1>1, <1>3, <1>4, <1>10 DEF IInv, EndIsRead, Copied
<1> QED
    BY <1>6, <1>7, <1>8, <1>9, <1>11, <1>12 DEF IInv

-----------------------------------------------------------------------------
(* The module and the server                                               *)

(* Both ways in which the next of x comes.                                 *)
LEMMA ComesNext ==
    ASSUME IInv, NEW x \in coming, Arrives(x) \/ ArrivesDamaged(x)
    PROVE  /\ UNCHANGED <<cmd, res, phase>>
           /\ x \in [part : Awaited, age : 0..Late] /\ stored \in Replies
           /\ coming' = (coming \ {x}) \cup Left(x)
           /\ coming' \subseteq [part : Awaited, age : 0..Late]
           /\ \A y \in coming' : y.part.part = "text" =>
                \E z \in coming : z.part.part = "text" /\ z.age = y.age
           /\ \/ /\ x.part.part = "request" /\ stored' \in Replies /\ told' = told \cup {stored'}
              \/ x.part.part # "request" /\ UNCHANGED <<stored, told>>
           /\ told \subseteq told' /\ (stored \in told => stored' \in told')
           /\ stored' \in Replies /\ told' \subseteq Replies
<1>1. x \in [part : Awaited, age : 0..Late] /\ stored \in Replies /\ told \subseteq Replies
      /\ coming \subseteq [part : Awaited, age : 0..Late]
    BY DEF IInv, DriverTypes
<1>2. /\ UNCHANGED <<cmd, res, phase>>
      /\ coming' = (coming \ {x}) \cup Left(x)
      /\ ServerAnswers(x)
    BY DEF Arrives, ArrivesDamaged
<1>3. \/ x.part.part = "request" /\ stored' \in Replies /\ told' = told \cup {stored'}
      \/ x.part.part # "request" /\ UNCHANGED <<stored, told>>
    BY <1>2 DEF ServerAnswers
<1>4. /\ Left(x) \subseteq [part : Awaited, age : 0..Late]
      /\ \A y \in Left(x) : x.part.part = "text" /\ y.age = x.age
    BY <1>1, ComingFacts
<1> QED
    BY <1>1, <1>2, <1>3, <1>4

(* What is collected when it comes.                                        *)
LEMMA ArrivesGot ==
    ASSUME IInv, NEW x \in coming, Arrives(x) \/ ArrivesDamaged(x), Live
    PROVE  /\ rxbuf' \in Buffers /\ Got \subseteq Got'
           /\ \A p \in Got' : \/ p \in Got
                              \/ p.part = "post" /\ x.part.part = "request" /\ p.reply = stored'
                              \/ p.part = "read" /\ x.part.part = "text" /\ p.reply = stored
                              \/ p.part \notin {"post", "read"}
<1>1. rxbuf \in Buffers
    BY DEF IInv, DriverTypes
<1>2. CASE ArrivesDamaged(x)
  <2>1. rxbuf' = rxbuf \/ rxbuf' = [rxbuf EXCEPT !.closed = TRUE]
      BY <1>2 DEF ArrivesDamaged
  <2>2. rxbuf' \in Buffers /\ rxbuf'.got = rxbuf.got
      BY <1>1, <2>1 DEF Buffers
  <2> QED
      BY <2>2 DEF Got
<1>3. CASE Arrives(x)
  <2>1. CASE rxbuf' = rxbuf
      BY <1>1, <2>1 DEF Got
  <2>2. CASE rxbuf' # rxbuf
    <3>1. Collect(Token(x)) /\ ~IsEmpty(x.part)
        BY <1>3, <2>2 DEF Arrives
    <3>2. x \in [part : Awaited, age : 0..Late] /\ stored \in Replies /\ stored' \in Replies
        BY ComesNext
    <3>3. Token(x) \in Tokens
          /\ \/ Token(x).part = "post" /\ x.part.part = "request" /\ Token(x).reply = stored'
             \/ Token(x).part = "read" /\ x.part.part = "text" /\ Token(x).reply = stored
             \/ Token(x).part \notin {"post", "read"}
      <4>1. CASE x.part.part = "request"
        <5>1. Token(x) = [part |-> "post", reply |-> stored', late |-> x.age > 0]
            BY <4>1 DEF Token
        <5> QED
            BY <3>2, <4>1, <5>1 DEF Tokens
      <4>2. CASE x.part.part # "request"
          BY <3>1, <3>2, <4>2, ComingFacts
      <4> QED
          BY <4>1, <4>2
    <3>4. rxbuf' \in Buffers /\ Got \subseteq Got' /\ Got' \subseteq Got \cup {Token(x)}
        BY <1>1, <3>1, <3>3, CollectFacts
    <3> QED
        BY <3>3, <3>4
  <2> QED
      BY <2>1, <2>2
<1> QED
    BY <1>2, <1>3

LEMMA ArrivesKeeps ==
    ASSUME IInv, NEW x \in coming, Arrives(x) \/ ArrivesDamaged(x),
           UNCHANGED <<stage, tries, resp_size, resp_data, outcome>>
    PROVE  IInv'
<1>1. /\ UNCHANGED <<cmd, res, phase>> /\ coming' \subseteq [part : Awaited, age : 0..Late]
      /\ told \subseteq told' /\ (stored \in told => stored' \in told')
      /\ stored' \in Replies /\ told' \subseteq Replies
      /\ (x.part.part = "request" => stored' \in told')
      /\ (x.part.part # "request" => UNCHANGED <<stored, told>>)
    BY ComesNext
<1>2. Live => rxbuf' \in Buffers /\ Got \subseteq Got'
    BY ArrivesGot
<1>3. ~Live => rxbuf' = NoBuffer
    BY DEF IInv, DriverTypes, Arrives, ArrivesDamaged, Collect
<1>4. Copied' = Copied
    BY DEF Copied
<1>5. DriverTypes'
    BY <1>1, <1>2, <1>3 DEF IInv, DriverTypes, Live
<1>6. StageTypes' /\ OneCommand'
    BY <1>1 DEF IInv, StageTypes, OneCommand, CommandOf
<1>7. ResponseStored'
  <2>1. ASSUME Live, NEW p \in Got', p.part = "post" PROVE stored' \in told'
      BY <1>1, <2>1, ArrivesGot DEF IInv, ResponseStored
  <2> QED
      BY <1>1, <2>1 DEF IInv, ResponseStored, Live
<1>8. TextsTold'
  <2>1. stage = "read" /\ tries < NumTries => stored \in told
      BY DEF IInv, ResponseStored
  <2>2. ASSUME tries < NumTries, stage = "read", Live, NEW q \in Got', q.part = "read"
        PROVE  q.reply \in told'
    <3>1. q \in Got \/ q.reply = stored
        BY <2>2, ArrivesGot
    <3> QED
        BY <1>1, <2>1, <2>2, <3>1 DEF IInv, TextsTold, Copied
  <2> QED
      BY <1>1, <1>4, <2>2 DEF IInv, TextsTold, Live
<1>9. EndIsRead'
    BY <1>1, <1>2, <1>4 DEF IInv, EndIsRead, Live
<1> QED
    BY <1>5, <1>6, <1>7, <1>8, <1>9 DEF IInv

-----------------------------------------------------------------------------
(* The stages                                                              *)

LEMMA StartKeeps == ASSUME IInv, StartCheckIn PROVE IInv'
<1>1. /\ stage = "idle" /\ stage' = "conf_url" /\ tries' = 0 /\ resp_size' = 0
      /\ resp_data' = Nothing /\ told' = {}
      /\ UNCHANGED <<rxbuf, cmd, res, phase, coming, stored, outcome>>
    BY DEF StartCheckIn, SizeAtStart, driver
<1>2. phase = "idle"
    BY <1>1 DEF IInv, OneCommand, Stages, Following
<1>3. DriverTypes'
    BY <1>1 DEF IInv, DriverTypes, Live
<1>4. StageTypes'
    BY <1>1, NumTriesAssumption DEF IInv, StageTypes, Stages, Following, Excess, Nothing
<1> QED
    BY <1>1, <1>2, <1>3, <1>4 DEF IInv, OneCommand, ResponseStored, TextsTold, EndIsRead, Live

(* What every end of a stage shares.                                       *)
LEMMA BetweenStages ==
    ASSUME IInv, phase = "returned", phase' = "idle",
           UNCHANGED <<rxbuf, cmd, res, network, resp_size, resp_data>>
    PROVE  DriverTypes' /\ OneCommand' /\ stage \in Stages /\ ~Live /\ ~Live'
BY DEF IInv, DriverTypes, OneCommand, Live, network

LEMMA SucceedsKeeps == ASSUME IInv, StageSucceeds PROVE IInv'
<1>1. /\ phase = "returned" /\ phase' = "idle" /\ res = "success" /\ stage # "end"
      /\ stage' = Following[stage]
      /\ UNCHANGED <<rxbuf, cmd, res, coming, stored, told, tries, resp_size, resp_data, outcome>>
    BY DEF StageSucceeds, network
<1>2. DriverTypes' /\ OneCommand' /\ stage \in Stages \ {"end"} /\ ~Live'
    BY <1>1, BetweenStages DEF network
<1>3. /\ stage' \in Stages
      /\ Excess[stage] \in Nat /\ Excess[stage'] \in Nat /\ Excess[stage] <= Excess[stage']
      /\ stage' \in {"read", "end"} => stage \in {"post", "read"}
      /\ stage' = "end" => stage = "read"
    BY <1>1, <1>2, Order
<1>4. StageTypes'
    BY <1>1, <1>3, NumTriesAssumption DEF IInv, StageTypes
<1>5. ResponseStored'
    BY <1>1, <1>2, <1>3 DEF IInv, ResponseStored
<1>6. TextsTold'
    BY <1>1, <1>2, <1>3 DEF IInv, TextsTold, Copied
<1>7. EndIsRead'
    BY <1>1, <1>2, <1>3 DEF IInv, EndIsRead, Copied
<1> QED
    BY <1>2, <1>4, <1>5, <1>6, <1>7 DEF IInv

LEMMA NotClearedKeeps == ASSUME IInv, HeaderNotCleared PROVE IInv'
<1>1. /\ phase = "returned" /\ phase' = "idle" /\ stage = "clear_header" /\ stage' = "clear_body"
      /\ UNCHANGED <<rxbuf, cmd, res, coming, stored, told, tries, resp_size, resp_data, outcome>>
    BY DEF HeaderNotCleared, network
<1>2. DriverTypes' /\ OneCommand' /\ ~Live'
    BY <1>1, BetweenStages DEF network
<1>3. StageTypes'
    BY <1>1 DEF IInv, StageTypes, Stages, Following, Excess
<1> QED
    BY <1>1, <1>2, <1>3 DEF IInv, ResponseStored, TextsTold, EndIsRead, Copied

(* A stage that fails is tried again, and left when the count is spent:    *)
(* then nothing is claimed of the later ones.                              *)
LEMMA FailsKeeps == ASSUME IInv, StageFails PROVE IInv'
<1>1. /\ phase = "returned" /\ phase' = "idle" /\ stage \notin {"clear_header", "end"}
      /\ tries' = OneMore(tries)
      /\ stage' = (IF tries' >= NumTries THEN LeftTo(stage) ELSE LoopOf(stage))
      /\ UNCHANGED <<rxbuf, cmd, res, coming, stored, told, resp_size, resp_data, outcome>>
    BY DEF StageFails, network, Spent
<1>2. DriverTypes' /\ OneCommand' /\ stage \in Stages \ {"end"} /\ ~Live'
    BY <1>1, BetweenStages DEF network
<1>3. /\ tries \in Nat /\ NumTries \in Nat /\ NumTries # 0
      /\ tries <= NumTries + Excess[stage]
    BY NumTriesAssumption DEF IInv, StageTypes
<1>4. tries' \in Nat /\ tries' <= tries + 1 /\ (tries' < NumTries => tries < NumTries)
    BY <1>1, <1>3 DEF OneMore, MaxTries
<1>5. StageTypes'
  <2>1. CASE tries' >= NumTries
    <3>1. stage' \in Stages /\ Excess[stage] + 1 <= Excess[stage']
          /\ Excess[stage] \in Nat /\ Excess[stage'] \in Nat
        BY <1>1, <1>2, <2>1, Order
    <3> QED
        BY <1>1, <1>3, <1>4, <3>1 DEF IInv, StageTypes
  <2>2. CASE tries' < NumTries
    <3>1. stage' \in Stages /\ Excess[stage'] \in Nat
        BY <1>1, <1>2, <1>3, <1>4, <2>2, Order
    <3> QED
        BY <1>1, <1>3, <1>4, <2>2, <3>1 DEF IInv, StageTypes
  <2> QED
      BY <1>3, <1>4, <2>1, <2>2
<1>6. tries' < NumTries /\ stage' \in {"read", "end"} => stage = "read" /\ stage' = "read"
    BY <1>1, <1>2, <1>3, <1>4, Order
<1>7. ResponseStored'
    BY <1>1, <1>2, <1>4, <1>6 DEF IInv, ResponseStored
<1>8. TextsTold'
    BY <1>1, <1>2, <1>6 DEF IInv, TextsTold, Copied
<1>9. EndIsRead'
    BY <1>1, <1>6 DEF IInv, EndIsRead, Copied
<1> QED
    BY <1>2, <1>5, <1>7, <1>8, <1>9 DEF IInv

LEMMA EndKeeps == ASSUME IInv, EndCheckIn PROVE IInv'
<1>1. /\ phase = "returned" /\ phase' = "idle" /\ stage = "end" /\ stage' = "idle"
      /\ outcome' \in {"unlock", "photo", "lock", "error"}
      /\ UNCHANGED <<rxbuf, cmd, res, coming, stored, told, tries, resp_size, resp_data>>
    BY DEF EndCheckIn, network, WordFound
<1>2. DriverTypes' /\ OneCommand' /\ ~Live'
    BY <1>1, BetweenStages DEF network
<1>3. StageTypes'
    BY <1>1 DEF IInv, StageTypes, Excess
<1> QED
    BY <1>1, <1>2, <1>3 DEF IInv, ResponseStored, TextsTold, EndIsRead, Copied

LEMMA NextKeeps == ASSUME IInv, [Next]_vars PROVE IInv'
<1>1. CASE StartCheckIn
    BY <1>1, StartKeeps
<1>2. CASE ScooterStep
    BY <1>2, RunStageKeeps, SentKeeps, SendFailsKeeps, DecideKeeps, ReturnKeeps, SucceedsKeeps,
       NotClearedKeeps, FailsKeeps, EndKeeps DEF ScooterStep, DriverStep
<1>3. CASE NetworkStep /\ UNCHANGED <<stage, tries, resp_size, resp_data, outcome>>
    BY <1>3, ArrivesKeeps DEF NetworkStep
<1>4. CASE UNCHANGED vars
  <2>1. /\ UNCHANGED <<rxbuf, cmd, res, phase, coming, stored, told>>
        /\ UNCHANGED <<stage, tries, resp_size, resp_data, outcome>>
      BY <1>4 DEF vars, atvars, driver, network
  <2>2. Got' = Got /\ Copied' = Copied /\ (Live' <=> Live)
      BY <2>1 DEF Got, Copied, Live
  <2> QED
      BY <2>1, <2>2 DEF IInv, DriverTypes, StageTypes, OneCommand, CommandOf, ResponseStored,
         TextsTold, EndIsRead
<1> QED
    BY <1>1, <1>2, <1>3, <1>4 DEF Next

LEMMA Invariance == Spec => []IInv
<1> QED
    BY InitEstablishes, NextKeeps, PTL DEF Spec

-----------------------------------------------------------------------------
(* The marks of a text that is not late are in one buffer, in their order: *)
(* a text that has begun is not interrupted (OneBegun), and as long as its *)
(* command is not over, its last mark is the last that was collected       *)
(* (Continued).                                                            *)

Precedes(p, q) == p.part = "read" /\ p.reply = q.reply /\ p.at = q.at - 1

Chained(s) ==
    \A i \in DOMAIN s :
      s[i].part = "read" /\ ~s[i].late /\ s[i].at > 1 =>
        i > 1 /\ i - 1 \in DOMAIN s /\ Precedes(s[i - 1], s[i])

OneBegun == \A x, y \in coming : IsBegun(x) /\ IsBegun(y) => x = y

Follows(x, s) ==
    Len(s) > 0 /\ s[Len(s)].part = "read" /\ s[Len(s)].reply = stored /\ s[Len(s)].at = x.part.at - 1

Continued ==
    Live /\ ~rxbuf.closed => \A x \in coming : IsBegun(x) /\ x.age = 0 => Follows(x, rxbuf.got)

CopyInOrder ==
    /\ Chained(resp_data.got)
    /\ ~resp_data.late => \A i \in DOMAIN resp_data.got : ~resp_data.got[i].late

InOrder == OneBegun /\ Continued /\ (Live => Chained(rxbuf.got)) /\ CopyInOrder

LEMMA InitOrder == Init => InOrder
<1> SUFFICES ASSUME Init PROVE InOrder
    OBVIOUS
<1>1. coming = {} /\ phase = "idle" /\ resp_data = [got |-> <<>>, late |-> FALSE]
    BY DEF Init, AtInit, Nothing
<1>2. DOMAIN resp_data.got = {}
    BY <1>1
<1> QED
    BY <1>1, <1>2 DEF InOrder, OneBegun, Continued, Live, CopyInOrder, Chained

LEMMA RunStageOrder == ASSUME IInv, InOrder, RunStage PROVE InOrder'
<1>1. /\ rxbuf' = EmptyBuffer /\ UNCHANGED <<stored, resp_data>>
      /\ coming' = {[x EXCEPT !.age = @ + 1] : x \in {y \in coming : y.age < Late}}
    BY DEF RunStage, Execute
<1>2. \A x \in coming : x \in [part : Awaited, age : 0..Late]
    BY DEF IInv, DriverTypes
<1>3. \A z \in coming' : \E x \in coming : z = [x EXCEPT !.age = @ + 1] /\ z.part = x.part
                                          /\ z.age # 0
  <2> SUFFICES ASSUME NEW z \in coming'
               PROVE  \E x \in coming : z = [x EXCEPT !.age = @ + 1] /\ z.part = x.part /\ z.age # 0
      OBVIOUS
  <2>1. PICK x \in coming : z = [x EXCEPT !.age = @ + 1]
      BY <1>1
  <2>2. x \in [part : Awaited, age : 0..Late]
      BY <1>2
  <2>3. z.part = x.part /\ z.age = x.age + 1 /\ x.age \in Nat
      BY <2>1, <2>2, LateAssumption
  <2> QED
      BY <2>1, <2>3
<1>4. OneBegun'
    BY <1>3 DEF InOrder, OneBegun, IsBegun
<1>5. Continued'
    BY <1>3 DEF Continued
<1>6. rxbuf'.got = <<>>
    BY <1>1 DEF EmptyBuffer
<1>7. DOMAIN rxbuf'.got = {}
    BY <1>6
<1>8. Chained(rxbuf.got)'
    BY <1>7 DEF Chained
<1>9. CopyInOrder'
    BY <1>1 DEF InOrder, CopyInOrder, Chained
<1> QED
    BY <1>4, <1>5, <1>8, <1>9 DEF InOrder

LEMMA SentOrder ==
    ASSUME IInv, InOrder, Sent, UNCHANGED <<stage, tries, resp_size, resp_data, outcome>>
    PROVE  InOrder'
<1>1. phase = "sending" /\ phase' = "waiting" /\ UNCHANGED <<rxbuf, cmd, stored>>
    BY DEF Sent
<1>2. PICK answer \in Answers(cmd) : coming' = coming \cup {[part |-> p, age |-> 0] : p \in answer}
    BY DEF Sent
<1>3. \A p \in answer : p.part = "text" => p.at = 1
    BY DEF Answers, OK, ERROR, Request, Text, IInv, DriverTypes, Commands, Basic, Post, Read
<1>4. \A y \in coming' : IsBegun(y) => y \in coming
    BY <1>2, <1>3 DEF IsBegun
<1>5. Live /\ Live'
    BY <1>1 DEF Live
<1> QED
    BY <1>1, <1>4, <1>5 DEF InOrder, OneBegun, Continued, Follows, Chained, CopyInOrder

LEMMA QuietOrder ==
    ASSUME InOrder, UNCHANGED <<rxbuf, coming, stored, resp_data>>, Live' => Live
    PROVE  InOrder'
BY DEF InOrder, OneBegun, Continued, Follows, IsBegun, Chained, Precedes, CopyInOrder

LEMMA ReturnOrder == ASSUME IInv, InOrder, ReturnToStage PROVE InOrder'
<1>1. /\ phase = "decided" /\ phase' = "returned" /\ UNCHANGED coming
    BY DEF ReturnToStage, ReturnFromPost, Return, network
<1>2. Live /\ ~Live' /\ rxbuf \in Buffers
    BY <1>1 DEF Live, IInv, DriverTypes
<1>3. CopyInOrder'
  <2>1. CASE stage = "read"
    <3>1. resp_data' \in Copies
        BY <2>1 DEF ReturnToStage
    <3>2. /\ DOMAIN resp_data'.got \subseteq DOMAIN rxbuf.got
          /\ \A i \in DOMAIN resp_data'.got :
               resp_data'.got[i] = rxbuf.got[i] /\ (i > 1 => i - 1 \in DOMAIN resp_data'.got)
          /\ ~resp_data'.late => \A i \in DOMAIN resp_data'.got : ~resp_data'.got[i].late
        BY <1>2, <3>1, CopyFacts
    <3>3. Chained(rxbuf.got)
        BY <1>2 DEF InOrder
    <3>4. Chained(resp_data'.got)
        BY <3>2, <3>3 DEF Chained
    <3> QED
        BY <3>2, <3>4 DEF CopyInOrder, Chained, Precedes
  <2>2. CASE stage # "read"
      BY <2>2 DEF ReturnToStage, InOrder, CopyInOrder, Chained, Precedes
  <2> QED
      BY <2>1, <2>2
<1> QED
    BY <1>1, <1>2, <1>3 DEF InOrder, OneBegun, Continued, IsBegun

LEMMA StartOrder == ASSUME IInv, InOrder, StartCheckIn PROVE InOrder'
<1>1. stage = "idle" /\ UNCHANGED <<phase, coming>> /\ resp_data' = [got |-> <<>>, late |-> FALSE]
    BY DEF StartCheckIn, driver, Nothing
<1>2. ~Live'
    BY <1>1 DEF IInv, OneCommand, Stages, Following, Live
<1>3. DOMAIN resp_data'.got = {}
    BY <1>1
<1> QED
    BY <1>1, <1>2, <1>3 DEF InOrder, OneBegun, IsBegun, Continued, CopyInOrder, Chained

LEMMA ArrivesOrder ==
    ASSUME IInv, InOrder, NEW x \in coming, Arrives(x) \/ ArrivesDamaged(x),
           UNCHANGED <<stage, tries, resp_size, resp_data, outcome>>
    PROVE  InOrder'
<1>1. /\ UNCHANGED phase /\ (x.part.part = "text" => stored' = stored)
      /\ x \in [part : Awaited, age : 0..Late] /\ stored \in Replies
      /\ coming' = (coming \ {x}) \cup Left(x)
    BY ComesNext
<1>2. Live' <=> Live
    BY <1>1 DEF Live
<1>3. \A y \in Left(x) : /\ x.part.part = "text" /\ y.part.part = "text" /\ y.age = x.age
                         /\ y.part.at = x.part.at + 1 /\ ~IsEmpty(x.part)
    BY <1>1, ComingFacts
<1>4. \A y \in coming' : IsBegun(y) => y \in Left(x)
  <2> SUFFICES ASSUME NEW y \in coming, y # x, IsBegun(y) PROVE FALSE
      BY <1>1
  <2>1. IsBegun(x)
      BY DEF Arrives, ArrivesDamaged, IsNext
  <2> QED
      BY <2>1 DEF InOrder, OneBegun
<1>5. \A y, z \in Left(x) : y = z
    BY DEF Left
<1>6. OneBegun'
    BY <1>4, <1>5 DEF OneBegun, IsBegun
<1>7. CopyInOrder'
    BY DEF InOrder, CopyInOrder, Chained, Precedes
<1>8. ASSUME Live PROVE Chained(rxbuf.got)' /\ Continued'
  <2>1. rxbuf \in Buffers /\ Chained(rxbuf.got) /\ rxbuf # NoBuffer
      BY <1>8, NoBufferAssumption DEF IInv, DriverTypes, InOrder, Buffers
  <2>2. CASE ArrivesDamaged(x)
    <3>1. rxbuf' = [rxbuf EXCEPT !.closed = TRUE]
        BY <2>1, <2>2 DEF ArrivesDamaged
    <3>2. rxbuf'.got = rxbuf.got /\ rxbuf'.closed
        BY <2>1, <3>1 DEF Buffers
    <3> QED
        BY <2>1, <3>2 DEF Continued, Chained, Precedes
  <2>3. CASE Arrives(x) /\ rxbuf' = rxbuf
    <3>1. rxbuf.closed \/ IsEmpty(x.part)
      <4> SUFFICES ASSUME ~rxbuf.closed, ~IsEmpty(x.part) PROVE FALSE
          OBVIOUS
      <4>1. rxbuf' = [rxbuf EXCEPT !.got = Append(@, Token(x))]
          BY <2>1, <2>3 DEF Arrives, Collect
      <4>2. rxbuf'.got = Append(rxbuf.got, Token(x))
          BY <2>1, <4>1 DEF Buffers
      <4>3. Len(Append(rxbuf.got, Token(x))) = Len(rxbuf.got) + 1 /\ Len(rxbuf.got) \in Nat
          BY <2>1 DEF Buffers
      <4> QED
          BY <2>3, <4>2, <4>3
    <3> QED
        BY <1>3, <1>4, <2>1, <2>3, <3>1 DEF Continued, Chained, Precedes
  <2>4. CASE Arrives(x) /\ rxbuf' # rxbuf
    <3>1. ~IsEmpty(x.part) /\ rxbuf' = [rxbuf EXCEPT !.got = Append(@, Token(x))] /\ ~rxbuf.closed
        BY <2>1, <2>4 DEF Arrives, Collect
    <3>2. rxbuf'.got = Append(rxbuf.got, Token(x)) /\ Len(rxbuf.got) \in Nat
        BY <2>1, <3>1 DEF Buffers
    <3>3. /\ Len(rxbuf'.got) = Len(rxbuf.got) + 1
          /\ DOMAIN rxbuf'.got = 1..(Len(rxbuf.got) + 1) /\ DOMAIN rxbuf.got = 1..Len(rxbuf.got)
          /\ \A i \in 1..Len(rxbuf.got) : rxbuf'.got[i] = rxbuf.got[i]
          /\ rxbuf'.got[Len(rxbuf.got) + 1] = Token(x)
        BY <2>1, <3>2 DEF Buffers
    <3>4. x.part.part = "text" =>
            /\ x.part.at \in 1..3 /\ Token(x).part = "read" /\ Token(x).reply = stored
            /\ Token(x).at = x.part.at /\ (Token(x).late <=> x.age > 0)
        BY <1>1, ComingFacts
    <3>5. Token(x).part = "read" => x.part.part = "text"
      <4>1. x.part.part = "request" => Token(x).part = "post"
          BY DEF Token
      <4> QED
          BY <1>1, <4>1, ComingFacts
    <3>6. ASSUME Token(x).part = "read", ~Token(x).late, Token(x).at > 1
          PROVE  Len(rxbuf.got) > 0 /\ Precedes(rxbuf.got[Len(rxbuf.got)], Token(x))
      <4>1. IsBegun(x) /\ x.age = 0
          BY <1>1, <3>4, <3>5, <3>6, LateAssumption DEF IsBegun
      <4>2. Follows(x, rxbuf.got)
          BY <1>8, <3>1, <4>1 DEF InOrder, Continued
      <4> QED
          BY <3>4, <3>5, <3>6, <4>2 DEF Follows, Precedes
    <3>7. Chained(rxbuf'.got)
      <4> SUFFICES ASSUME NEW i \in DOMAIN rxbuf'.got, rxbuf'.got[i].part = "read",
                          ~rxbuf'.got[i].late, rxbuf'.got[i].at > 1
                   PROVE  i > 1 /\ i - 1 \in DOMAIN rxbuf'.got /\ Precedes(rxbuf'.got[i - 1], rxbuf'.got[i])
          BY DEF Chained
      <4>1. CASE i \in DOMAIN rxbuf.got
        <5>1. i > 1 /\ i - 1 \in DOMAIN rxbuf.got /\ Precedes(rxbuf.got[i - 1], rxbuf.got[i])
            BY <2>1, <3>3, <4>1 DEF Chained
        <5> QED
            BY <3>2, <3>3, <4>1, <5>1
      <4>2. CASE i = Len(rxbuf.got) + 1
          BY <3>2, <3>3, <3>6, <4>2
      <4> QED
          BY <3>2, <3>3, <4>1, <4>2
    <3>8. Continued'
      <4> SUFFICES ASSUME NEW y \in coming', IsBegun(y)
                   PROVE  Follows(y, rxbuf.got)'
          BY DEF Continued, IsBegun
      <4>1. y \in Left(x)
          BY <1>4
      <4>2. x.part.part = "text" /\ y.part.at = x.part.at + 1
          BY <1>3, <4>1
      <4> QED
          BY <1>1, <3>2, <3>3, <3>4, <4>2 DEF Follows
    <3> QED
        BY <3>7, <3>8 DEF Chained, Precedes
  <2> QED
      BY <2>2, <2>3, <2>4
<1> QED
    BY <1>2, <1>6, <1>7, <1>8 DEF InOrder, Continued

LEMMA NextOrder == ASSUME IInv, InOrder, [Next]_vars PROVE InOrder'
<1>1. CASE StartCheckIn
    BY <1>1, StartOrder
<1>2. CASE ScooterStep
  <2>1. ASSUME SendFails \/ Decide, UNCHANGED <<stage, tries, resp_size, resp_data, outcome>>
        PROVE  InOrder'
      BY <2>1, QuietOrder DEF SendFails, Decide, network, Live
  <2>2. ASSUME StageSucceeds \/ HeaderNotCleared \/ StageFails \/ EndCheckIn
        PROVE  InOrder'
      BY <2>2, QuietOrder DEF StageSucceeds, HeaderNotCleared, StageFails, EndCheckIn, network, Live
  <2> QED
      BY <1>2, <2>1, <2>2, RunStageOrder, SentOrder, ReturnOrder DEF ScooterStep, DriverStep
<1>3. CASE NetworkStep /\ UNCHANGED <<stage, tries, resp_size, resp_data, outcome>>
    BY <1>3, ArrivesOrder DEF NetworkStep
<1>4. CASE UNCHANGED vars
    BY <1>4, QuietOrder DEF vars, atvars, driver, network, Live
<1> QED
    BY <1>1, <1>2, <1>3, <1>4 DEF Next

LEMMA OrderInvariance == Spec => []InOrder
BY InitOrder, NextOrder, Invariance, PTL DEF Spec

(* A copy in which nothing is late has the word whose end it has.          *)
LEMMA WordOfEnd ==
    ASSUME IInv, InOrder, ~resp_data.late, NEW i \in DOMAIN resp_data.got
    PROVE  LET t == resp_data.got[i] IN
           /\ IsMark(t, "lock") /\ t.reply = "unlock" => HasWord("unlock")
           /\ IsMark(t, "*") /\ t.reply \in {"photo", "lock"} => HasWord(t.reply)
           /\ IsMark(t, "*") /\ t.reply = "unlock" => HasWord("unlock")
<1> DEFINE got == resp_data.got
<1>1. got \in Seq(Tokens) /\ i \in Nat /\ Chained(got) /\ \A j \in DOMAIN got : ~got[j].late
    BY DEF IInv, StageTypes, InOrder, CopyInOrder
<1>2. \A j \in DOMAIN got : got[j] \in Tokens
    BY <1>1
<1>3. ASSUME NEW j \in DOMAIN got, got[j].part = "read"
      PROVE  got[j].reply \in Replies /\ got[j].at \in DOMAIN Marks[got[j].reply] /\ got[j].at \in 1..3
    BY <1>2, <1>3 DEF Tokens, MarkTokens
<1>4. ASSUME NEW j \in DOMAIN got, got[j].part = "read", got[j].at > 1
      PROVE  j > 1 /\ j - 1 \in DOMAIN got /\ Precedes(got[j - 1], got[j])
    BY <1>1, <1>4 DEF Chained
<1>5. ASSUME NEW j \in DOMAIN got, IsMark(got[j], "lock"), got[j].reply = "unlock"
      PROVE  HasWord("unlock")
  <2>1. got[j].at = 2
      BY <1>3, <1>5 DEF IsMark, Marks
  <2>2. j > 1 /\ j - 1 \in DOMAIN got /\ Precedes(got[j - 1], got[j])
      BY <1>4, <1>5, <2>1 DEF IsMark
  <2>3. IsMark(got[j - 1], "un")
      BY <1>5, <2>1, <2>2 DEF Precedes, IsMark, Marks
  <2> QED
      BY <1>5, <2>2, <2>3 DEF HasWord
<1>6. ASSUME IsMark(got[i], "*"), got[i].reply \in {"photo", "lock"}
      PROVE  HasWord(got[i].reply)
  <2>1. got[i].at = 2
      BY <1>3, <1>6 DEF IsMark, Marks
  <2>2. i - 1 \in DOMAIN got /\ Precedes(got[i - 1], got[i])
      BY <1>4, <1>6, <2>1 DEF IsMark
  <2>3. IsMark(got[i - 1], got[i].reply)
      BY <1>6, <2>1, <2>2 DEF Precedes, IsMark, Marks
  <2> QED
      BY <1>6, <2>2, <2>3 DEF HasWord
<1>7. ASSUME IsMark(got[i], "*"), got[i].reply = "unlock"
      PROVE  HasWord("unlock")
  <2>1. got[i].at = 3
      BY <1>3, <1>7 DEF IsMark, Marks
  <2>2. i - 1 \in DOMAIN got /\ Precedes(got[i - 1], got[i])
      BY <1>4, <1>7, <2>1 DEF IsMark
  <2>3. IsMark(got[i - 1], "lock") /\ got[i - 1].reply = "unlock"
      BY <1>7, <2>1, <2>2 DEF Precedes, IsMark, Marks
  <2> QED
      BY <1>5, <2>2, <2>3
<1> QED
    BY <1>5, <1>6, <1>7

-----------------------------------------------------------------------------
(* A text that an earlier check-in asked for                               *)

(* How many commands have begun, at least, since such a text was asked     *)
(* for, when no try was spent; every try that is spent is one more.        *)
Begun ==
    [end |-> 0, idle |-> 1, conf_url |-> 1, conf_body |-> 2, conf_header |-> 3, start |-> 4,
     clear_header |-> 5, clear_body |-> 5, lat |-> 6, lon |-> 7, uuid |-> 8, valid |-> 9,
     post |-> 10, read |-> 10]

Since ==
    Begun[stage] + (IF stage \in {"end", "idle"} THEN 0 ELSE tries)
                 + (IF phase = "idle" THEN 0 ELSE 1)

(* Where such a text could still do harm: as long as the tries are not     *)
(* spent, and in reading when none but the last of them was spent on the   *)
(* request.                                                                *)
Harmful ==
    CASE stage \in {"end", "idle"} -> TRUE
      [] stage = "read" -> tries <= NumTries /\ stored \notin told
      [] OTHER -> tries < NumTries

AllSince(n) == \A x \in coming : x.part.part = "text" => x.age >= n

SizeTold == resp_size # 0 /\ stage # "idle" => stored \in told

OldTexts == Harmful => AllSince(Since)

TextsRead ==
    tries <= NumTries =>
      /\ stage = "read" /\ Live => \A p \in Got : p.part = "read" => p.reply \in told
      /\ (stage = "read" /\ phase = "returned") \/ stage = "end" =>
            \A p \in Copied : p.part = "read" => p.reply \in told

Texts == SizeTold /\ OldTexts /\ TextsRead

LEMMA BegunOrder ==
    ASSUME NEW s \in Stages
    PROVE  /\ Begun[s] \in Nat
           /\ s # "end" => /\ Following[s] # "end" => Begun[Following[s]] <= Begun[s] + 1
                           /\ LoopOf(s) \in Stages \ {"end"} /\ Begun[LoopOf(s)] <= Begun[s]
                           /\ LoopOf(s) = "read" => s = "read"
BY DEF Stages, Following, LoopOf, Setup, Begun

LEMMA SinceIsNat == ASSUME IInv PROVE Since \in Nat /\ tries \in Nat /\ NumTries \in Nat
<1>1. Begun[stage] \in Nat
    BY BegunOrder DEF IInv, StageTypes, Begun
<1> QED
    BY <1>1, NumTriesAssumption DEF IInv, StageTypes, Since

(* What no step but those of a stage changes.                              *)
LEMMA HarmfulStays ==
    ASSUME UNCHANGED <<stage, tries>>, stored \in told => stored' \in told'
    PROVE  Harmful' => Harmful
BY DEF Harmful

LEMMA RunStageTexts == ASSUME IInv, Texts, RunStage PROVE Texts'
<1>1. /\ stage \in Stages /\ phase = "idle" /\ phase' = "sending" /\ rxbuf' = EmptyBuffer
      /\ coming' = {[x EXCEPT !.age = @ + 1] : x \in {y \in coming : y.age < Late}}
      /\ UNCHANGED <<stored, told, stage, tries, resp_size, resp_data>>
    BY DEF RunStage, Execute
<1>2. Since' = Since + 1 /\ Since \in Nat
    BY <1>1, SinceIsNat, BegunOrder DEF Since
<1>3. \A x \in coming : x \in [part : Awaited, age : 0..Late]
    BY DEF IInv, DriverTypes
<1>4. AllSince(Since) => AllSince(Since)'
  <2> SUFFICES ASSUME AllSince(Since), NEW z \in coming', z.part.part = "text"
               PROVE  z.age >= Since'
      BY DEF AllSince
  <2>1. PICK x \in coming : z = [x EXCEPT !.age = @ + 1]
      BY <1>1
  <2>2. z.part = x.part /\ z.age = x.age + 1 /\ x.age \in Nat
      BY <1>3, <2>1, LateAssumption
  <2>3. x.age >= Since
      BY <2>2 DEF AllSince
  <2> QED
      BY <1>2, <2>2, <2>3
<1>5. OldTexts'
    BY <1>1, <1>4, HarmfulStays DEF Texts, OldTexts
<1>6. Got' = {}
    BY <1>1 DEF EmptyBuffer, Got
<1>7. SizeTold' /\ TextsRead'
    BY <1>1, <1>6 DEF Texts, SizeTold, TextsRead, Copied
<1> QED
    BY <1>5, <1>7 DEF Texts

(* A text is only asked for once the length of this check-in's is known.   *)
LEMMA SentTexts ==
    ASSUME IInv, Texts, Sent, UNCHANGED <<stage, tries, resp_size, resp_data, outcome>>
    PROVE  Texts'
<1>1. /\ phase = "sending" /\ phase' = "waiting"
      /\ UNCHANGED <<rxbuf, cmd, stored, told>>
    BY DEF Sent
<1>2. Since' = Since
    BY <1>1 DEF Since
<1>3. PICK answer \in Answers(cmd) : coming' = coming \cup {[part |-> p, age |-> 0] : p \in answer}
    BY DEF Sent
<1>4. stage \in Stages /\ cmd = CommandOf(stage)
    BY <1>1 DEF IInv, OneCommand
<1>5. (\E p \in answer : p.part = "text") => stored \in told /\ stage = "read"
  <2> SUFFICES ASSUME NEW p \in answer, p.part = "text" PROVE stored \in told /\ stage = "read"
      OBVIOUS
  <2>1. cmd.kind = "read" /\ cmd.len # NoLength
      BY <1>4 DEF Answers, CommandOf, Basic, Post, Read, OK, ERROR, Request
  <2>2. stage = "read" /\ resp_size # 0
      BY <1>4, <2>1 DEF CommandOf, Basic, Post, Read, NoLength
  <2> QED
      BY <2>2 DEF Texts, SizeTold
<1>6. OldTexts'
    BY <1>1, <1>2, <1>3, <1>5, HarmfulStays DEF Texts, OldTexts, AllSince, Harmful
<1>7. Got' = Got /\ Live' /\ Live
    BY <1>1 DEF Got, Live
<1>8. SizeTold' /\ TextsRead'
    BY <1>1, <1>7 DEF Texts, SizeTold, TextsRead, Copied
<1> QED
    BY <1>6, <1>8 DEF Texts

(* Sending that fails, and what the wait decides, change neither what is   *)
(* on its way nor what has been collected.                                 *)
LEMMA DecidedTexts ==
    ASSUME IInv, Texts, SendFails \/ Decide, UNCHANGED <<stage, tries, resp_size, resp_data, outcome>>
    PROVE  Texts'
<1>1. /\ phase \in {"sending", "waiting"} /\ phase' = "decided"
      /\ UNCHANGED <<rxbuf, coming, stored, told>>
    BY DEF SendFails, Decide, network
<1>2. Since' = Since /\ Got' = Got /\ Live /\ Live'
    BY <1>1 DEF Since, Got, Live
<1>3. OldTexts'
    BY <1>1, <1>2, HarmfulStays DEF Texts, OldTexts, AllSince
<1>4. SizeTold' /\ TextsRead'
    BY <1>1, <1>2 DEF Texts, SizeTold, TextsRead, Copied
<1> QED
    BY <1>3, <1>4 DEF Texts

LEMMA ReturnTexts == ASSUME IInv, Texts, ReturnToStage PROVE Texts'
<1>1. /\ phase = "decided" /\ phase' = "returned"
      /\ UNCHANGED <<coming, stored, told, stage, tries>>
    BY DEF ReturnToStage, ReturnFromPost, Return, network
<1>2. Since' = Since /\ Live /\ ~Live' /\ stage \in Stages
    BY <1>1 DEF Since, Live, IInv, OneCommand
<1>3. OldTexts'
    BY <1>1, <1>2, HarmfulStays DEF Texts, OldTexts, AllSince
<1>4. SizeTold'
  <2>1. CASE stage = "post" /\ res = "success"
      BY <1>1, <2>1 DEF IInv, ResponseStored, SizeTold
  <2>2. CASE ~(stage = "post" /\ res = "success")
      BY <1>1, <2>2 DEF ReturnToStage, ReturnFromPost, Texts, SizeTold
  <2> QED
      BY <2>1, <2>2
<1>5. IF stage = "read" THEN Copied' \subseteq Got ELSE Copied' = Copied
    BY <1>2, CopyFacts DEF ReturnToStage, Copied, Got, IInv, DriverTypes
<1>6. TextsRead'
    BY <1>1, <1>2, <1>5 DEF Texts, TextsRead
<1> QED
    BY <1>3, <1>4, <1>6 DEF Texts

-----------------------------------------------------------------------------
(* A text that comes while the scooter reads is one of this check-in: an   *)
(* older one would have had to be later than any is.                       *)
LEMMA ArrivesTexts ==
    ASSUME Late <= NumTries + 10,
           IInv, Texts, NEW x \in coming, Arrives(x) \/ ArrivesDamaged(x),
           UNCHANGED <<stage, tries, resp_size, resp_data, outcome>>
    PROVE  Texts'
<1>1. UNCHANGED <<cmd, res, phase>> /\ x.age \in 0..Late
    BY ComesNext
<1>2. \A y \in coming' : y.part.part = "text" => \E z \in coming : z.part.part = "text" /\ z.age = y.age
    BY ComesNext
<1>3. /\ told \subseteq told' /\ (stored \in told => stored' \in told')
      /\ (x.part.part = "text" => UNCHANGED <<stored, told>>)
    BY ComesNext
<1>4. Since' = Since /\ (Live' <=> Live) /\ Copied' = Copied
    BY <1>1 DEF Since, Live, Copied
<1>5. SizeTold' /\ OldTexts'
  <2>1. AllSince(Since) => AllSince(Since)'
      BY <1>2, <1>4 DEF AllSince
  <2> QED
      BY <1>3, <2>1, HarmfulStays DEF Texts, SizeTold, OldTexts
<1>6. ASSUME tries <= NumTries, stage = "read", Live, x.part.part = "text", stored \notin told
      PROVE  FALSE
  <2>1. Harmful
      BY <1>6 DEF Harmful
  <2>2. x.age >= Since
      BY <1>6, <2>1 DEF Texts, OldTexts, AllSince
  <2>3. tries = NumTries
      BY <1>6, NumTriesAssumption DEF IInv, ResponseStored, StageTypes
  <2>4. Since = NumTries + 11
      BY <1>6, <2>3, NumTriesAssumption DEF Since, Begun, Live
  <2> QED
      BY <1>1, <2>2, <2>4, NumTriesAssumption, LateAssumption
<1>7. TextsRead'
  <2>1. ASSUME tries <= NumTries, stage = "read", Live, NEW q \in Got', q.part = "read"
        PROVE  q.reply \in told'
    <3>1. q \in Got \/ (x.part.part = "text" /\ q.reply = stored)
        BY <2>1, ArrivesGot
    <3> QED
        BY <1>3, <1>6, <2>1, <3>1 DEF Texts, TextsRead
  <2> QED
      BY <1>1, <1>3, <1>4, <2>1 DEF Texts, TextsRead
<1> QED
    BY <1>5, <1>7 DEF Texts

-----------------------------------------------------------------------------
LEMMA StartTexts == ASSUME IInv, Texts, StartCheckIn PROVE Texts'
<1>1. /\ stage = "idle" /\ stage' = "conf_url" /\ tries' = 0 /\ resp_size' = 0
      /\ UNCHANGED <<phase, coming>>
    BY DEF StartCheckIn, SizeAtStart, driver
<1>2. phase = "idle"
    BY <1>1 DEF IInv, OneCommand, Stages, Following
<1>3. Since' = Since
    BY <1>1, <1>2 DEF Since, Begun
<1>4. OldTexts'
    BY <1>1, <1>3 DEF Texts, OldTexts, Harmful, AllSince
<1> QED
    BY <1>1, <1>4 DEF Texts, SizeTold, TextsRead, Copied

LEMMA SucceedsTexts == ASSUME IInv, Texts, StageSucceeds PROVE Texts'
<1>1. /\ phase = "returned" /\ phase' = "idle" /\ res = "success" /\ stage # "end"
      /\ stage' = Following[stage]
      /\ UNCHANGED <<coming, stored, told, tries, resp_size, resp_data>>
    BY DEF StageSucceeds, network
<1>2. stage \in Stages \ {"end"} /\ ~Live' /\ stage # "idle"
    BY <1>1 DEF IInv, OneCommand, Live, Stages, Following
<1>3. /\ stage' \in Stages /\ Begun[stage] \in Nat /\ Begun[stage'] \in Nat
      /\ stage' # "end" => Begun[stage'] <= Begun[stage] + 1
      /\ stage' = "read" => stage = "post"
      /\ stage' = "end" => stage = "read"
    BY <1>1, <1>2, Order, BegunOrder
<1>4. /\ Since = Begun[stage] + tries + 1 /\ (stage' # "end" => Since' = Begun[stage'] + tries)
      /\ tries \in Nat
    BY <1>1, <1>2, <1>3, SinceIsNat DEF Since, Stages, Following
<1>5. OldTexts'
  <2>1. CASE stage' = "end"
    <3>1. Since' = 0
        BY <1>1, <2>1 DEF Since, Begun
    <3> QED
        BY <1>1, <3>1, LateAssumption DEF IInv, DriverTypes, OldTexts, AllSince
  <2>2. CASE stage' = "read"
    <3>1. stored \in told
        BY <1>1, <1>3, <2>2 DEF IInv, ResponseStored
    <3> QED
        BY <1>1, <2>2, <3>1 DEF OldTexts, Harmful
  <2>3. CASE stage' \notin {"end", "read"}
    <3>1. Harmful' => Harmful
      <4>1. stage' # "idle" /\ stage # "read"
          BY <1>1, <1>2, <1>3, <2>3 DEF Stages, Following
      <4> QED
          BY <1>1, <1>2, <2>3, <4>1 DEF Harmful
    <3>2. Since' <= Since /\ Since' \in Nat
        BY <1>3, <1>4, <2>3
    <3>3. \A x \in coming : x.age \in Nat
        BY LateAssumption DEF IInv, DriverTypes
    <3> QED
        BY <1>1, <1>4, <3>1, <3>2, <3>3, SinceIsNat DEF Texts, OldTexts, AllSince
  <2> QED
      BY <2>1, <2>2, <2>3
<1>6. SizeTold' /\ TextsRead'
    BY <1>1, <1>2, <1>3 DEF Texts, SizeTold, TextsRead, Copied
<1> QED
    BY <1>5, <1>6 DEF Texts

LEMMA NotClearedTexts == ASSUME IInv, Texts, HeaderNotCleared PROVE Texts'
<1>1. /\ phase = "returned" /\ phase' = "idle" /\ stage = "clear_header" /\ stage' = "clear_body"
      /\ UNCHANGED <<coming, stored, told, tries, resp_size, resp_data>>
    BY DEF HeaderNotCleared, network
<1>2. Since = Since' + 1 /\ Since' \in Nat
    BY <1>1, SinceIsNat DEF Since, Begun
<1>3. \A x \in coming : x.age \in Nat
    BY LateAssumption DEF IInv, DriverTypes
<1>4. OldTexts'
    BY <1>1, <1>2, <1>3 DEF Texts, OldTexts, AllSince, Harmful
<1> QED
    BY <1>1, <1>4 DEF Texts, SizeTold, TextsRead, Copied, Live

(* A try that is spent is one more command that has begun; when they are   *)
(* all spent before the request, no later answer is returned.              *)
LEMMA FailsTexts == ASSUME IInv, Texts, StageFails PROVE Texts'
<1>1. /\ phase = "returned" /\ phase' = "idle" /\ stage \notin {"clear_header", "end"}
      /\ tries' = OneMore(tries)
      /\ stage' = (IF tries' >= NumTries THEN LeftTo(stage) ELSE LoopOf(stage))
      /\ UNCHANGED <<coming, stored, told, resp_size, resp_data>>
    BY DEF StageFails, network, Spent
<1>2. stage \in Stages \ {"end"} /\ ~Live' /\ stage # "idle"
    BY <1>1 DEF IInv, OneCommand, Live, Stages, Following
<1>3. tries \in Nat /\ NumTries \in Nat /\ tries' = tries + 1
  <2>1. Excess[stage] \in Nat /\ Excess[stage] <= 8
      BY <1>2 DEF Stages, Following, Excess
  <2>2. tries < NumTries + 10
      BY <2>1, NumTriesAssumption DEF IInv, StageTypes
  <2> QED
      BY <1>1, <2>2, NumTriesAssumption DEF IInv, StageTypes, OneMore, MaxTries
<1>4. Since = Begun[stage] + tries + 1 /\ Begun[stage] \in Nat
    BY <1>1, <1>2, <1>3, BegunOrder DEF Since
<1>5. \A x \in coming : x.age \in Nat
    BY LateAssumption DEF IInv, DriverTypes
<1>6. CASE tries' >= NumTries
  <2>1. /\ stage' \in Stages /\ (stage' = "end" => stage = "read")
        /\ (stage' = "read" => stage = "post")
      BY <1>1, <1>2, <1>6, Order
  <2>2. OldTexts'
    <3>1. CASE stage' = "end"
      <4>1. Since' = 0
          BY <1>1, <3>1 DEF Since, Begun
      <4> QED
          BY <1>1, <1>5, <4>1 DEF OldTexts, AllSince
    <3>2. CASE stage' = "read"
      <4>1. Harmful' => Harmful
          BY <1>1, <1>3, <2>1, <3>2 DEF Harmful
      <4>2. Since' = Since
          BY <1>1, <1>3, <1>4, <2>1, <3>2 DEF Since, Begun
      <4> QED
          BY <1>1, <4>1, <4>2 DEF Texts, OldTexts, AllSince
    <3>3. CASE stage' \notin {"end", "read"}
      <4>1. stage' # "idle"
          BY <2>1 DEF Stages, Following
      <4> QED
          BY <1>3, <1>6, <3>3, <4>1 DEF OldTexts, Harmful
    <3> QED
        BY <3>1, <3>2, <3>3
  <2>3. SizeTold' /\ TextsRead'
      BY <1>1, <1>2, <1>3, <2>1 DEF Texts, SizeTold, TextsRead, Copied
  <2> QED
      BY <2>2, <2>3 DEF Texts
<1>7. CASE tries' < NumTries
  <2>1. /\ stage' \in Stages \ {"end"} /\ Begun[stage'] \in Nat /\ Begun[stage'] <= Begun[stage]
        /\ (stage' = "read" => stage = "read")
      BY <1>1, <1>2, <1>3, <1>7, BegunOrder
  <2>2. OldTexts'
    <3>1. CASE stage' = "read"
      <4>1. stored \in told
          BY <1>3, <1>7, <2>1, <3>1 DEF IInv, ResponseStored
      <4> QED
          BY <1>1, <3>1, <4>1 DEF OldTexts, Harmful
    <3>2. CASE stage' # "read"
      <4>1. stage # "read" /\ stage' \notin {"end", "idle"}
          BY <1>1, <1>3, <1>7, <2>1, <3>2 DEF LoopOf, Setup, Stages, Following
      <4>2. Harmful' => Harmful
          BY <1>2, <1>3, <1>7, <3>2, <4>1 DEF Harmful
      <4>3. Since' <= Since /\ Since' \in Nat /\ Since \in Nat
          BY <1>1, <1>3, <1>4, <2>1, <4>1 DEF Since
      <4> QED
          BY <1>1, <1>5, <4>2, <4>3 DEF Texts, OldTexts, AllSince
    <3> QED
        BY <3>1, <3>2
  <2>3. SizeTold' /\ TextsRead'
      BY <1>1, <1>2, <2>1 DEF Texts, SizeTold, TextsRead, Copied
  <2> QED
      BY <2>2, <2>3 DEF Texts
<1> QED
    BY <1>3, <1>6, <1>7

LEMMA EndTexts == ASSUME IInv, Texts, EndCheckIn PROVE Texts'
<1>1. /\ phase = "returned" /\ phase' = "idle" /\ stage = "end" /\ stage' = "idle"
      /\ UNCHANGED <<coming, stored, told, tries, resp_size, resp_data>>
    BY DEF EndCheckIn, network
<1>2. Since' = Since
    BY <1>1 DEF Since, Begun
<1> QED
    BY <1>1, <1>2 DEF Texts, SizeTold, OldTexts, Harmful, AllSince, TextsRead, Copied

LEMMA NextTexts == ASSUME Late <= NumTries + 10, IInv, Texts, [Next]_vars PROVE Texts'
<1>1. CASE StartCheckIn
    BY <1>1, StartTexts
<1>2. CASE ScooterStep
    BY <1>2, RunStageTexts, SentTexts, DecidedTexts, ReturnTexts, SucceedsTexts,
       NotClearedTexts, FailsTexts, EndTexts DEF ScooterStep, DriverStep
<1>3. CASE NetworkStep /\ UNCHANGED <<stage, tries, resp_size, resp_data, outcome>>
    BY <1>3, ArrivesTexts DEF NetworkStep
<1>4. CASE UNCHANGED vars
  <2>1. /\ UNCHANGED <<rxbuf, phase, coming, stored, told>>
        /\ UNCHANGED <<stage, tries, resp_size, resp_data>>
      BY <1>4 DEF vars, atvars, driver, network
  <2>2. Got' = Got /\ (Live' <=> Live) /\ Since' = Since /\ (Harmful' <=> Harmful)
      BY <2>1 DEF Got, Live, Since, Harmful
  <2> QED
      BY <2>1, <2>2 DEF Texts, SizeTold, OldTexts, AllSince, TextsRead, Copied
<1> QED
    BY <1>1, <1>2, <1>3, <1>4 DEF Next

-----------------------------------------------------------------------------
(* Every variable keeps its type; the count of tries never reaches the     *)
(* bound of the model, whatever fails.                                     *)
THEOREM TypeCorrect == Spec => []TypeOK
<1>1. IInv => TypeOK
  <2> SUFFICES ASSUME IInv PROVE TypeOK
      OBVIOUS
  <2>1. rxbuf = NoBuffer \/ (rxbuf.got \in Seq(Tokens) /\ rxbuf.closed \in BOOLEAN)
      BY DEF IInv, DriverTypes, Buffers
  <2>2. Excess[stage] \in 0..9
      BY DEF IInv, StageTypes, Stages, Following, Excess
  <2>3. tries \in 0..(MaxTries - 1)
      BY <2>2, NumTriesAssumption DEF IInv, StageTypes, MaxTries
  <2> QED
      BY <2>1, <2>3 DEF IInv, DriverTypes, StageTypes, TypeOK
<1> QED
    BY <1>1, Invariance, PTL

(* The interrupt never writes to the stack of a function that returned.    *)
THEOREM BuffersAreLive == Spec => []BufferIsLive
<1>1. IInv => BufferIsLive
    BY DEF IInv, DriverTypes, Live, BufferIsLive
<1> QED
    BY <1>1, Invariance, PTL

(* As long as the tries are not spent, a check-in that the server answered *)
(* with a word finds it, unless something late was read with it.           *)
THEOREM FailuresHaveCauses == Spec => FailureHasACause
<1> DEFINE Cause ==
      stage = "end" /\ stage' = "idle" /\ outcome' = "error"
      => tries >= NumTries \/ "failed" \in told \/ res # "success" \/ resp_data.late
<1>1. IInv /\ InOrder /\ [Next]_vars => [Cause]_vars
  <2> SUFFICES ASSUME IInv, InOrder, Next, stage = "end", stage' = "idle", outcome' = "error",
                      tries < NumTries, "failed" \notin told, res = "success", ~resp_data.late
               PROVE  FALSE
      BY NumTriesAssumption DEF IInv, StageTypes
  <2>1. EndCheckIn
      BY DEF Next, StartCheckIn, ScooterStep, RunStage, ReturnToStage, StageSucceeds,
         HeaderNotCleared, StageFails
  <2>2. PICK p \in Copied : IsMark(p, "*")
      BY DEF IInv, EndIsRead, Copied
  <2>3. p.reply \in told
      BY <2>2 DEF IInv, TextsTold, IsMark
  <2>4. p.reply \in {"unlock", "photo", "lock"}
      BY <2>3, RepliesAssumption DEF IInv, DriverTypes
  <2>5. PICK i \in DOMAIN resp_data.got : p = resp_data.got[i]
      BY <2>2 DEF Copied
  <2>6. HasWord(p.reply)
      BY <2>2, <2>4, <2>5, WordOfEnd
  <2>7. ~(tries > NumTries)
      BY NumTriesAssumption DEF IInv, StageTypes
  <2>8. WordFound # "error"
      BY <2>4, <2>6, <2>7 DEF WordFound
  <2> QED
      BY <2>1, <2>8 DEF EndCheckIn
<1> QED
    BY <1>1, Invariance, OrderInvariance, PTL DEF Spec, FailureHasACause

(* When no answer comes later than NumTries + 10 commands after its own, a *)
(* check-in returns a word of the server only if the server said it during *)
(* this check-in, however many stages failed; only "lock" may have been    *)
(* the end of its "unlock".                                                *)
THEOREM OutcomesWereTold ==
    ASSUME Late <= NumTries + 10
    PROVE  Spec => OutcomeWasTold
<1> DEFINE Told == stage = "end" /\ stage' = "idle" /\ outcome' # "error"
                   => \/ outcome' \in told
                      \/ outcome' = "lock" /\ "unlock" \in told /\ resp_data.late
<1>1. Init => Texts
    BY DEF Init, AtInit, Texts, SizeTold, OldTexts, AllSince, TextsRead, Copied
<1>2. IInv /\ Texts /\ [Next]_vars => Texts'
    BY NextTexts
<1>3. IInv /\ Texts /\ InOrder /\ [Next]_vars => [Told]_vars
  <2> SUFFICES ASSUME IInv, Texts, InOrder, Next, stage = "end", stage' = "idle",
                      outcome' # "error", outcome' \notin told
               PROVE  outcome' = "lock" /\ "unlock" \in told /\ resp_data.late
      OBVIOUS
  <2>1. EndCheckIn
      BY DEF Next, StartCheckIn, ScooterStep, RunStage, ReturnToStage, StageSucceeds,
         HeaderNotCleared, StageFails
  <2>2. outcome' = WordFound /\ WordFound # "error"
      BY <2>1 DEF EndCheckIn
  <2>3. tries <= NumTries
      BY <2>2, NumTriesAssumption DEF WordFound, IInv, StageTypes
  <2>4. ASSUME NEW i \in DOMAIN resp_data.got, resp_data.got[i].part = "read"
        PROVE  /\ resp_data.got[i].reply \in told
               /\ resp_data.got[i].reply \in {"unlock", "photo", "lock", "failed"}
               /\ resp_data.got[i].at \in DOMAIN Marks[resp_data.got[i].reply]
    <3>1. resp_data.got[i] \in Tokens
        BY DEF IInv, StageTypes
    <3> QED
        BY <2>3, <2>4, <3>1, RepliesAssumption DEF Texts, TextsRead, Copied, Tokens, MarkTokens
  <2>5. CASE WordFound = "unlock"
    <3>1. PICK i \in DOMAIN resp_data.got :
            IsMark(resp_data.got[i], "lock") /\ resp_data.got[i].reply = "unlock"
        BY <2>5 DEF WordFound, HasWord
    <3> QED
        BY <2>2, <2>4, <2>5, <3>1 DEF IsMark
  <2>6. CASE WordFound = "photo"
    <3>1. PICK i \in DOMAIN resp_data.got : IsMark(resp_data.got[i], "photo")
        BY <2>6 DEF WordFound, HasWord
    <3>2. resp_data.got[i].reply = "photo"
        BY <2>4, <3>1 DEF IsMark, Marks
    <3> QED
        BY <2>2, <2>4, <2>6, <3>1, <3>2 DEF IsMark
  <2>7. CASE WordFound = "lock"
    <3>1. ~HasWord("unlock")
        BY <2>7 DEF WordFound
    <3>2. PICK i \in DOMAIN resp_data.got : IsMark(resp_data.got[i], "lock")
        BY <2>7 DEF WordFound, HasWord
    <3>3. resp_data.got[i].reply \in {"unlock", "lock"} /\ resp_data.got[i].reply \in told
        BY <2>4, <3>2 DEF IsMark, Marks
    <3>4. resp_data.got[i].reply = "unlock"
        BY <2>2, <2>7, <3>3
    <3>5. resp_data.late
        BY <3>1, <3>2, <3>4, WordOfEnd
    <3> QED
        BY <2>2, <2>7, <3>3, <3>4, <3>5
  <2> QED
      BY <2>2, <2>5, <2>6, <2>7 DEF WordFound
<1>4. Spec => []Texts
    BY <1>1, <1>2, Invariance, PTL DEF Spec
<1> QED
    BY <1>3, <1>4, Invariance, OrderInvariance, PTL DEF Spec, OutcomeWasTold
=============================================================================
