----------------------------- MODULE SignUpProofs -----------------------------
(***************************************************************************)
(* Proofs about SignUp, for any number of requests, names and crashes.     *)
(*                                                                         *)
(* All three properties are about names with no two sign-ups at a time     *)
(* (the others are in overlapped).  For such a name the only sign-up in    *)
(* flight (OneAtATime) finds no account, its folder and its own picture at *)
(* every step (Alone), so it inserts the only account, with a picture that *)
(* was looked at (Accounts), and its clean-up finds what it deletes        *)
(* (CleanUp).  What a crash leaves behind does no harm because the next    *)
(* sign-up for the name writes its picture over it.                        *)
(***************************************************************************)
EXTENDS SignUp, FiniteSetTheorems, TLAPS

Single == Names \ overlapped

OneAtATime ==
    \A r, q \in Requests :
      InFlight(r) /\ InFlight(q) /\ up[r].name = up[q].name /\ up[r].name \in Single => r = q

AloneAt(r, n) ==
    /\ up[r].pc \in {"writing", "detecting", "rejected", "accepted"} =>
         (\A a \in accounts : a.name # n) /\ n \in folder
    /\ up[r].pc \in {"detecting", "rejected"} => file[n] = r
    /\ up[r].pc = "accepted" => up[r].face
    /\ up[r].pc = "added" => n \in folder

Alone ==
    \A r \in Requests : InFlight(r) /\ up[r].name \in Single => AloneAt(r, up[r].name)

Accounts ==
    /\ \A a \in accounts : up[a.picture].pc # "new" /\ (a.name \in Single => up[a.picture].face)
    /\ \A a, b \in accounts : a.name = b.name /\ a.name \in Single => a = b

CleanUp == thrown = "file" => overlapped # {}

IInv == TypeOK /\ OneAtATime /\ Alone /\ Accounts /\ CleanUp

-----------------------------------------------------------------------------
(* An invocation that is not new has a name and a picture.                 *)
LEMMA Fields ==
    ASSUME TypeOK, NEW r \in Requests, up[r].pc # "new"
    PROVE  /\ up[r] \in [pc : {"checking", "writing", "detecting", "rejected", "accepted",
                               "added", "ended"}, name : Names, face : BOOLEAN]
           /\ up[r].name \in Names /\ up[r].face \in BOOLEAN
BY DEF TypeOK, Invocations

(* What a step to another place does to the invocations.                   *)
LEMMA GotoFacts ==
    ASSUME TypeOK, NEW r \in Requests, up[r].pc # "new", NEW pc, Goto(r, pc),
           pc \in {"writing", "detecting", "rejected", "accepted", "added", "ended"}
    PROVE  /\ up' \in [Requests -> Invocations]
           /\ up'[r].pc = pc /\ up'[r].name = up[r].name /\ up'[r].face = up[r].face
           /\ \A q \in Requests \ {r} : up'[q] = up[q]
<1>1. up[r] \in [pc : {"checking", "writing", "detecting", "rejected", "accepted",
                       "added", "ended"}, name : Names, face : BOOLEAN]
    BY Fields
<1>2. up \in [Requests -> Invocations]
    BY DEF TypeOK
<1>3. up' = [up EXCEPT ![r] = [up[r] EXCEPT !.pc = pc]]
    BY <1>1, <1>2 DEF Goto
<1>4. [up[r] EXCEPT !.pc = pc] \in Invocations
    BY <1>1 DEF Invocations
<1> QED
    BY <1>1, <1>2, <1>3, <1>4

LEMMA InitEstablishes == Init => IInv
<1> SUFFICES ASSUME Init PROVE IInv
    OBVIOUS
<1>1. TypeOK
    BY MaxRestartsAssumption DEF Init, TypeOK, Invocations
<1>2. \A r \in Requests : ~InFlight(r)
    BY DEF Init, InFlight
<1>3. Accounts /\ CleanUp
    BY DEF Init, Accounts, CleanUp
<1> QED
    BY <1>1, <1>2, <1>3 DEF IInv, OneAtATime, Alone

(* A step of a sign-up that changes nothing but what its own name shares   *)
(* keeps the others alone.                                                 *)
LEMMA OthersStayAlone ==
    ASSUME TypeOK, OneAtATime, Alone, NEW r \in Requests, InFlight(r), NEW pc, Goto(r, pc),
           pc \in {"writing", "detecting", "rejected", "accepted", "added", "ended"},
           overlapped' = overlapped,
           \A n \in Names \ {up[r].name} : (n \in folder => n \in folder') /\ file'[n] = file[n],
           \A a \in accounts' : a.name # up[r].name => a \in accounts,
           up[r].name \in Single /\ pc # "ended" => AloneAt(r, up[r].name)'
    PROVE  OneAtATime' /\ Alone'
<1>1. up[r].pc # "new"
    BY DEF InFlight
<1>2. /\ up' \in [Requests -> Invocations]
      /\ up'[r].pc = pc /\ up'[r].name = up[r].name /\ up'[r].face = up[r].face
      /\ \A q \in Requests \ {r} : up'[q] = up[q]
    BY <1>1, GotoFacts
<1>3. \A q \in Requests : InFlight(q)' => InFlight(q) /\ up'[q].name = up[q].name
    BY <1>2 DEF InFlight
<1>4. OneAtATime'
    BY <1>3 DEF OneAtATime, Single
<1>5. ASSUME NEW q \in Requests, InFlight(q)', up'[q].name \in Single'
      PROVE  AloneAt(q, up[q].name)'
  <2>1. InFlight(q) /\ up'[q].name = up[q].name /\ up[q].name \in Single
      BY <1>3, <1>5 DEF Single
  <2>2. CASE q = r
      BY <1>2, <1>5, <2>1, <2>2 DEF InFlight, AloneAt
  <2>3. CASE q # r
    <3>1. up[q].name # up[r].name /\ up[q].name \in Names
        BY <2>1, <2>3 DEF OneAtATime, Single
    <3>2. up'[q] = up[q] /\ AloneAt(q, up[q].name)
        BY <1>2, <2>1, <2>3 DEF Alone
    <3> QED
        BY <3>1, <3>2 DEF AloneAt
  <2> QED
      BY <2>2, <2>3
<1>6. Alone'
    BY <1>3, <1>5 DEF Alone, AloneAt
<1> QED
    BY <1>4, <1>6

(* A name of one sign-up at a time has no account or one.                  *)
LEMMA TakenOrNone ==
    ASSUME Accounts, NEW n \in Single
    PROVE  /\ Named(n) # {} => Cardinality(Named(n)) = 1
           /\ ~IsTaken(n) => \A a \in accounts : a.name # n
<1>1. ASSUME NEW a \in accounts, a.name = n
      PROVE  Cardinality(Named(n)) = 1
  <2>1. Named(n) = {a}
      BY <1>1 DEF Accounts, Named
  <2> QED
      BY <2>1, FS_Singleton
<1>2. Named(n) # {} => Cardinality(Named(n)) = 1
    BY <1>1 DEF Named
<1> QED
    BY <1>1, <1>2 DEF IsTaken

-----------------------------------------------------------------------------
LEMMA ArrivesKeeps ==
    ASSUME IInv, NEW r \in Requests, NEW n \in Names, NEW face \in BOOLEAN, Arrives(r, n, face)
    PROVE  IInv'
<1> DEFINE new == [pc |-> "checking", name |-> n, face |-> face]
<1>1. /\ up' = [up EXCEPT ![r] = new] /\ up[r].pc = "new"
      /\ up \in [Requests -> Invocations] /\ new \in Invocations
      /\ up'[r] = new /\ \A q \in Requests \ {r} : up'[q] = up[q]
    BY DEF Arrives, IInv, TypeOK, Invocations
<1>2. /\ overlapped' \in {overlapped, overlapped \cup {n}}
      /\ (\E q \in Requests : InFlight(q) /\ up[q].name = n) => n \in overlapped'
    BY DEF Arrives
<1>3. UNCHANGED <<accounts, folder, file, thrown, restarts>>
    BY DEF Arrives
<1>4. TypeOK'
    BY <1>1, <1>2, <1>3 DEF IInv, TypeOK
<1>5. Single' \subseteq Single
    BY <1>2 DEF Single
<1>6. \A q \in Requests \ {r} : InFlight(q)' => InFlight(q) /\ up'[q] = up[q]
    BY <1>1 DEF InFlight
<1>7. \A q \in Requests \ {r} : InFlight(q)' /\ up'[q].name \in Single' => up'[q].name # n
    BY <1>2, <1>6 DEF Single
<1>8. OneAtATime'
    BY <1>1, <1>5, <1>6, <1>7 DEF OneAtATime, IInv
<1>9. Alone'
  <2> SUFFICES ASSUME NEW q \in Requests, InFlight(q)', up'[q].name \in Single'
               PROVE  AloneAt(q, up[q].name)'
      BY DEF Alone, AloneAt
  <2>1. CASE q = r
      BY <1>1, <2>1 DEF AloneAt
  <2>2. CASE q # r
      BY <1>3, <1>5, <1>6, <2>2 DEF Alone, AloneAt, IInv
  <2> QED
      BY <2>1, <2>2
<1>10. Accounts'
    BY <1>1, <1>3, <1>5 DEF Accounts, IInv, TypeOK
<1>11. CleanUp'
    BY <1>2, <1>3 DEF CleanUp, IInv
<1> QED
    BY <1>4, <1>8, <1>9, <1>10, <1>11 DEF IInv

(* What a sign-up does, from here on, keeps the accounts when it inserts   *)
(* none.                                                                   *)
LEMMA AccountsStay ==
    ASSUME IInv, NEW r \in Requests, InFlight(r), NEW pc, Goto(r, pc),
           pc \in {"writing", "detecting", "rejected", "accepted", "added", "ended"},
           UNCHANGED <<accounts, overlapped>>
    PROVE  Accounts'
<1>1. up[r].pc # "new"
    BY DEF InFlight
<1>2. /\ up'[r].pc = pc /\ up'[r].face = up[r].face
      /\ \A q \in Requests \ {r} : up'[q] = up[q]
    BY <1>1, GotoFacts DEF IInv
<1> QED
    BY <1>2 DEF IInv, Accounts, TypeOK, Single

LEMMA NotAddedKeeps ==
    ASSUME IInv, NEW r \in Requests, NameIsTaken(r) \/ CheckFails(r)
    PROVE  IInv'
<1>1. InFlight(r) /\ up[r].pc # "new" /\ Goto(r, "ended")
      /\ UNCHANGED <<accounts, folder, file, thrown, restarts, overlapped>>
    BY DEF NameIsTaken, CheckFails, InFlight
<1>2. up' \in [Requests -> Invocations]
    BY <1>1, GotoFacts DEF IInv
<1>3. OneAtATime' /\ Alone'
    BY <1>1, OthersStayAlone DEF IInv
<1>4. Accounts'
    BY <1>1, AccountsStay
<1> QED
    BY <1>1, <1>2, <1>3, <1>4 DEF IInv, TypeOK, CleanUp

LEMMA NameIsFreeKeeps ==
    ASSUME IInv, NEW r \in Requests, NameIsFree(r)
    PROVE  IInv'
<1>1. InFlight(r) /\ up[r].pc = "checking" /\ Goto(r, "writing") /\ ~IsTaken(up[r].name)
      /\ folder' = folder \cup {up[r].name}
      /\ UNCHANGED <<accounts, file, thrown, restarts, overlapped>>
    BY DEF NameIsFree, InFlight, FolderMade
<1>2. /\ up' \in [Requests -> Invocations] /\ up[r].name \in Names
      /\ up'[r].pc = "writing" /\ up'[r].name = up[r].name
    BY <1>1, GotoFacts, Fields DEF IInv
<1>3. up[r].name \in Single => \A a \in accounts : a.name # up[r].name
    BY <1>1, TakenOrNone DEF IInv
<1>4. up[r].name \in Single => AloneAt(r, up[r].name)'
    BY <1>1, <1>2, <1>3 DEF AloneAt
<1>5. OneAtATime' /\ Alone'
    BY <1>1, <1>4, OthersStayAlone DEF IInv
<1>6. Accounts'
    BY <1>1, AccountsStay
<1> QED
    BY <1>1, <1>2, <1>5, <1>6 DEF IInv, TypeOK, CleanUp

LEMMA WritePictureKeeps ==
    ASSUME IInv, NEW r \in Requests, WritePicture(r)
    PROVE  IInv'
<1>1. /\ InFlight(r) /\ up[r].pc = "writing" /\ Goto(r, "detecting")
      /\ file' = IF up[r].name \in folder THEN [file EXCEPT ![up[r].name] = r] ELSE file
      /\ UNCHANGED <<accounts, folder, thrown, restarts, overlapped>>
    BY DEF WritePicture, InFlight, PictureWritten
<1>2. /\ up' \in [Requests -> Invocations] /\ up[r].name \in Names
      /\ up'[r].pc = "detecting" /\ up'[r].name = up[r].name
    BY <1>1, GotoFacts, Fields DEF IInv
<1>3. file \in [Names -> Requests \cup {NoFile}]
    BY DEF IInv, TypeOK
<1>4. up[r].name \in Single => AloneAt(r, up[r].name)
    BY <1>1 DEF IInv, Alone
<1>5. up[r].name \in Single => AloneAt(r, up[r].name)'
    BY <1>1, <1>2, <1>3, <1>4 DEF AloneAt
<1>6. OneAtATime' /\ Alone'
    BY <1>1, <1>3, <1>5, OthersStayAlone DEF IInv
<1>7. Accounts'
    BY <1>1, AccountsStay
<1> QED
    BY <1>1, <1>2, <1>3, <1>6, <1>7 DEF IInv, TypeOK, CleanUp

LEMMA DetectFaceKeeps ==
    ASSUME IInv, NEW r \in Requests, DetectFace(r)
    PROVE  IInv'
<1> DEFINE picture == file[up[r].name]
<1>1. PICK pc \in {"accepted", "rejected", "ended"} :
        /\ Goto(r, pc)
        /\ pc = "accepted" => picture # NoFile /\ up[picture].face
    BY DEF DetectFace
<1>2. /\ InFlight(r) /\ up[r].pc = "detecting"
      /\ UNCHANGED <<accounts, folder, file, thrown, restarts, overlapped>>
    BY DEF DetectFace, InFlight
<1>3. /\ up' \in [Requests -> Invocations] /\ up[r].name \in Names
      /\ up'[r].pc = pc /\ up'[r].name = up[r].name /\ up'[r].face = up[r].face
    BY <1>1, <1>2, GotoFacts, Fields DEF IInv
<1>4. up[r].name \in Single => AloneAt(r, up[r].name)
    BY <1>2 DEF IInv, Alone
<1>5. up[r].name \in Single => AloneAt(r, up[r].name)'
    BY <1>1, <1>2, <1>3, <1>4 DEF AloneAt
<1>6. OneAtATime' /\ Alone'
    BY <1>1, <1>2, <1>5, OthersStayAlone DEF IInv
<1>7. Accounts'
    BY <1>1, <1>2, AccountsStay
<1> QED
    BY <1>2, <1>3, <1>6, <1>7 DEF IInv, TypeOK, CleanUp

LEMMA DeletePictureKeeps ==
    ASSUME IInv, NEW r \in Requests, DeletePicture(r)
    PROVE  IInv'
<1> DEFINE n == up[r].name
<1>1. /\ InFlight(r) /\ up[r].pc = "rejected" /\ Goto(r, "ended")
      /\ file' = [file EXCEPT ![n] = NoFile]
      /\ thrown' = (IF file[n] = NoFile THEN "file" ELSE thrown)
      /\ UNCHANGED <<accounts, folder, restarts, overlapped>>
    BY DEF DeletePicture, InFlight
<1>2. up' \in [Requests -> Invocations] /\ n \in Names
    BY <1>1, GotoFacts, Fields DEF IInv
<1>3. file \in [Names -> Requests \cup {NoFile}]
    BY DEF IInv, TypeOK
<1>4. OneAtATime' /\ Alone'
    BY <1>1, <1>3, OthersStayAlone DEF IInv
<1>5. Accounts'
    BY <1>1, AccountsStay
<1>6. CleanUp'
  <2>1. CASE n \in Single
    <3>1. file[n] = r
        BY <1>1, <2>1 DEF IInv, Alone, AloneAt
    <3> QED
        BY <1>1, <3>1, NoFileAssumption DEF IInv, CleanUp
  <2>2. CASE n \notin Single
      BY <1>1, <1>2, <2>2 DEF Single, CleanUp
  <2> QED
      BY <2>1, <2>2
<1>7. TypeOK'
    BY <1>1, <1>2, <1>3 DEF IInv, TypeOK
<1> QED
    BY <1>4, <1>5, <1>6, <1>7 DEF IInv

LEMMA InsertAccountKeeps ==
    ASSUME IInv, NEW r \in Requests, InsertAccount(r)
    PROVE  IInv'
<1> DEFINE n == up[r].name
           account == [name |-> n, picture |-> r]
<1>1. /\ InFlight(r) /\ up[r].pc = "accepted" /\ up[r].pc # "new" /\ Goto(r, "added")
      /\ accounts' = accounts \cup {account}
      /\ UNCHANGED <<folder, file, thrown, restarts, overlapped>>
    BY DEF InsertAccount, InFlight, PictureOfRequest
<1>2. /\ up' \in [Requests -> Invocations] /\ n \in Names
      /\ up'[r].pc = "added" /\ up'[r].name = n /\ up'[r].face = up[r].face
      /\ \A q \in Requests \ {r} : up'[q] = up[q]
    BY <1>1, GotoFacts, Fields DEF IInv
<1>3. n \in Single => AloneAt(r, n)
    BY <1>1 DEF IInv, Alone
<1>4. n \in Single => AloneAt(r, up[r].name)'
    BY <1>1, <1>2, <1>3 DEF AloneAt
<1>5. \A a \in accounts' : a.name # n => a \in accounts
    BY <1>1
<1>6. OneAtATime' /\ Alone'
    BY <1>1, <1>4, <1>5, OthersStayAlone DEF IInv
<1>7. \A a \in accounts' : up'[a.picture].pc # "new" /\ (a.name \in Single' => up'[a.picture].face)
  <2> TAKE a \in accounts'
  <2>1. CASE a = account
      BY <1>1, <1>2, <1>3, <2>1 DEF AloneAt, Single
  <2>2. CASE a \in accounts
    <3>1. a.picture \in Requests
        BY <2>2 DEF IInv, TypeOK
    <3>2. up[a.picture].pc # "new" /\ (a.name \in Single => up[a.picture].face)
        BY <2>2 DEF IInv, Accounts
    <3>3. CASE a.picture = r
        BY <1>1, <1>2, <3>2, <3>3 DEF Single
    <3>4. CASE a.picture # r
        BY <1>1, <1>2, <3>1, <3>2, <3>4 DEF Single
    <3> QED
        BY <3>3, <3>4
  <2> QED
      BY <1>1, <2>1, <2>2
<1>8. \A a, b \in accounts' : a.name = b.name /\ a.name \in Single' => a = b
    BY <1>1, <1>3 DEF AloneAt, IInv, Accounts, Single
<1>9. TypeOK'
  <2>1. account \in [name : Names, picture : Requests]
      BY <1>2
  <2> QED
      BY <1>1, <1>2, <2>1 DEF IInv, TypeOK
<1> QED
    BY <1>1, <1>6, <1>7, <1>8, <1>9 DEF IInv, Accounts, CleanUp

LEMMA InsertFailsKeeps ==
    ASSUME IInv, NEW r \in Requests, InsertFails(r)
    PROVE  IInv'
<1>1. /\ InFlight(r) /\ Goto(r, "ended") /\ up[r].pc # "new"
      /\ thrown' = "database"
      /\ UNCHANGED <<accounts, folder, file, restarts, overlapped>>
    BY DEF InsertFails, InFlight
<1>2. up' \in [Requests -> Invocations]
    BY <1>1, GotoFacts DEF IInv
<1>3. OneAtATime' /\ Alone'
    BY <1>1, OthersStayAlone DEF IInv
<1>4. Accounts'
    BY <1>1, AccountsStay
<1> QED
    BY <1>1, <1>2, <1>3, <1>4 DEF IInv, TypeOK, CleanUp

LEMMA DeleteFolderKeeps ==
    ASSUME IInv, NEW r \in Requests, DeleteFolder(r)
    PROVE  IInv'
<1> DEFINE n == up[r].name
<1>1. /\ InFlight(r) /\ up[r].pc = "added" /\ Goto(r, "ended")
      /\ folder' = folder \ {n}
      /\ file' = [file EXCEPT ![n] = NoFile]
      /\ thrown' = (IF n \in folder THEN thrown ELSE "file")
      /\ UNCHANGED <<accounts, restarts, overlapped>>
    BY DEF DeleteFolder, InFlight
<1>2. up' \in [Requests -> Invocations] /\ n \in Names
    BY <1>1, GotoFacts, Fields DEF IInv
<1>3. file \in [Names -> Requests \cup {NoFile}]
    BY DEF IInv, TypeOK
<1>4. OneAtATime' /\ Alone'
    BY <1>1, <1>3, OthersStayAlone DEF IInv
<1>5. Accounts'
    BY <1>1, AccountsStay
<1>6. CleanUp'
  <2>1. CASE n \in Single
    <3>1. n \in folder
        BY <1>1, <2>1 DEF IInv, Alone, AloneAt
    <3> QED
        BY <1>1, <3>1 DEF IInv, CleanUp
  <2>2. CASE n \notin Single
      BY <1>1, <1>2, <2>2 DEF Single, CleanUp
  <2> QED
      BY <2>1, <2>2
<1>7. TypeOK'
    BY <1>1, <1>2, <1>3 DEF IInv, TypeOK
<1> QED
    BY <1>4, <1>5, <1>6, <1>7 DEF IInv

(* A crash ends every sign-up, and what it leaves is left to the next one. *)
LEMMA RestartKeeps ==
    ASSUME IInv, Restart
    PROVE  IInv'
<1>1. /\ thrown' = "nothing" /\ restarts' \in 0..MaxRestarts
      /\ UNCHANGED <<accounts, folder, file, overlapped>>
    BY MaxRestartsAssumption DEF Restart, IInv, TypeOK
<1>2. ASSUME NEW q \in Requests
      PROVE  /\ up'[q] \in Invocations /\ ~InFlight(q)'
             /\ up[q].pc # "new" => up'[q].pc # "new" /\ up'[q].face = up[q].face
  <2>1. up'[q] = IF InFlight(q) THEN [up[q] EXCEPT !.pc = "ended"] ELSE up[q]
      BY DEF Restart
  <2>2. CASE InFlight(q)
    <3>1. up[q] \in [pc : {"checking", "writing", "detecting", "rejected", "accepted",
                           "added", "ended"}, name : Names, face : BOOLEAN]
        BY <2>2, Fields DEF IInv, InFlight
    <3> QED
        BY <2>1, <2>2, <3>1 DEF Invocations, InFlight
  <2>3. CASE ~InFlight(q)
      BY <2>1, <2>3 DEF IInv, TypeOK, InFlight
  <2> QED
      BY <2>2, <2>3
<1>3. up' \in [Requests -> Invocations]
    BY <1>2 DEF Restart
<1>4. TypeOK'
    BY <1>1, <1>3 DEF IInv, TypeOK
<1>5. OneAtATime' /\ Alone'
    BY <1>2 DEF OneAtATime, Alone
<1>6. Accounts'
    BY <1>1, <1>2 DEF IInv, Accounts, TypeOK, Single
<1> QED
    BY <1>1, <1>4, <1>5, <1>6 DEF IInv, CleanUp

LEMMA Invariance == Spec => []IInv
<1>1. IInv /\ [Next]_vars => IInv'
  <2> SUFFICES ASSUME IInv, [Next]_vars PROVE IInv'
      OBVIOUS
  <2>1. CASE Restart
      BY <2>1, RestartKeeps
  <2>2. ASSUME NEW r \in Requests, NEW n \in Names, NEW face \in BOOLEAN, Arrives(r, n, face)
        PROVE  IInv'
      BY <2>2, ArrivesKeeps
  <2>3. ASSUME NEW r \in Requests, SignUpStep(r)
        PROVE  IInv'
      BY <2>3, NotAddedKeeps, NameIsFreeKeeps, WritePictureKeeps, DetectFaceKeeps,
         DeletePictureKeeps, InsertAccountKeeps, InsertFailsKeeps, DeleteFolderKeeps
         DEF SignUpStep
  <2>4. CASE UNCHANGED vars
      BY <2>4 DEF vars, IInv, TypeOK, OneAtATime, Alone, AloneAt, Accounts, CleanUp, InFlight,
         Single
  <2> QED
      BY <2>1, <2>2, <2>3, <2>4 DEF Next
<1> QED
    BY <1>1, InitEstablishes, PTL DEF Spec

-----------------------------------------------------------------------------
(* For any number of requests, names and crashes, every variable of the    *)
(* server's sign-up has its type: what the detector looked at is a picture *)
(* of a request.                                                           *)
THEOREM TypeCorrect == Spec => []TypeOK
<1>1. IInv => TypeOK
    BY DEF IInv
<1> QED
    BY <1>1, Invariance, PTL

(* Whoever has an account can sign in, unless two sign-ups for the name    *)
(* overlapped.                                                             *)
THEOREM EverybodyCanSignIn == Spec => []AccountsCanSignIn
<1>1. IInv => AccountsCanSignIn
    BY TakenOrNone DEF IInv, AccountsCanSignIn, CanSignIn, Single
<1> QED
    BY <1>1, Invariance, PTL

(* The picture of an account shows a face, unless two sign-ups for the     *)
(* name overlapped.                                                        *)
THEOREM AccountsShowAFace == Spec => []PicturesShowAFace
<1>1. IInv => PicturesShowAFace
    BY DEF IInv, TypeOK, Accounts, PicturesShowAFace, Single
<1> QED
    BY <1>1, Invariance, PTL

(* The clean-up ends the server only when two sign-ups overlapped.         *)
THEOREM CleanUpIsSafe == Spec => []CleanUpThrowsOnOverlap
<1>1. IInv => CleanUpThrowsOnOverlap
    BY DEF IInv, CleanUp, CleanUpThrowsOnOverlap
<1> QED
    BY <1>1, Invariance, PTL
=============================================================================
