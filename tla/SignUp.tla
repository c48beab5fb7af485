--------------------------------- MODULE SignUp ---------------------------------
(***************************************************************************)
(* Accounts: the handlers of /sign_up and /sign_in of server.js.           *)
(*                                                                         *)
(* A sign-up is cut at its awaits and callbacks: the query for the name,   *)
(* the write of the picture, the face_detection process, the insertion,    *)
(* and the clean-up that runs on after the response was sent.  Sign-ups    *)
(* for one name share one folder and one file, which outlive a crash.      *)
(***************************************************************************)
EXTENDS Naturals, FiniteSets

CONSTANTS
    Requests,       \* invocations of the handler
    Names,          \* usernames isValid accepts
    NoFile,
    MaxRestarts     \* bound: crashes of the server

ASSUME NoFileAssumption == NoFile \notin Requests
ASSUME MaxRestartsAssumption == MaxRestarts \in Nat

VARIABLES
    up,             \* the invocations
    accounts,       \* the documents of users, by name and by whose picture they have
    folder,         \* the names whose folder exists
    file,           \* per name, whose picture is in the folder
    thrown,         \* what a callback threw: the process is about to end
    restarts,
    overlapped      \* history: names with two sign-ups (or what one left to do) at a time

vars == <<up, accounts, folder, file, thrown, restarts, overlapped>>

Init ==
    /\ up = [r \in Requests |-> [pc |-> "new"]]
    /\ accounts = {}
    /\ folder = {}
    /\ file = [n \in Names |-> NoFile]
    /\ thrown = "nothing"
    /\ restarts = 0
    /\ overlapped = {}

Named(n) == {a \in accounts : a.name = n}
InFlight(r) == up[r].pc \notin {"new", "ended"}
Goto(r, pc) == up' = [up EXCEPT ![r].pc = pc]

-----------------------------------------------------------------------------
(* A request with a name and a picture that shows a face or not.           *)
Arrives(r, n, face) ==
    /\ up[r].pc = "new"
    /\ up' = [up EXCEPT ![r] = [pc |-> "checking", name |-> n, face |-> face]]
    /\ overlapped' = IF \E q \in Requests : InFlight(q) /\ up[q].name = n
                       THEN overlapped \cup {n}
                       ELSE overlapped
    /\ UNCHANGED <<accounts, folder, file, thrown, restarts>>

(* Mutant: a name is never taken.                                          *)
NeverTaken(n) == FALSE

(* isTaken: users.length === 1.                                            *)
IsTaken(n) == Cardinality(Named(n)) = 1

(* Mutant: the folder is expected to exist.                                *)
FolderExpected(n) == folder

FolderMade(n) == folder \cup {n}

NameIsTaken(r) ==
    /\ up[r].pc = "checking"
    /\ IsTaken(up[r].name)
    /\ Goto(r, "ended")
    /\ UNCHANGED <<accounts, folder, file, thrown, restarts, overlapped>>

NameIsFree(r) ==
    /\ up[r].pc = "checking"
    /\ ~IsTaken(up[r].name)
    /\ folder' = FolderMade(up[r].name)
    /\ Goto(r, "writing")
    /\ UNCHANGED <<accounts, file, thrown, restarts, overlapped>>

(* The query fails, or the folder cannot be made: the catch answers 400.   *)
CheckFails(r) ==
    /\ up[r].pc = "checking"
    /\ Goto(r, "ended")
    /\ UNCHANGED <<accounts, folder, file, thrown, restarts, overlapped>>

(* Mutant: a picture that is already there is not overwritten.             *)
PictureKept(r, n) == IF file[n] = NoFile THEN r ELSE file[n]

PictureWritten(r, n) == r

(* fs.writeFile; an error, when the folder is gone, is not looked at.      *)
WritePicture(r) ==
    LET n == up[r].name
    IN  /\ up[r].pc = "writing"
        /\ file' = IF n \in folder THEN [file EXCEPT ![n] = PictureWritten(r, n)] ELSE file
        /\ Goto(r, "detecting")
        /\ UNCHANGED <<accounts, folder, thrown, restarts, overlapped>>

(* External: face_detection prints what it found in the picture that is in *)
(* the folder by then, nothing without a picture, and may fail.  When it   *)
(* fails the handler only logs it.                                         *)
DetectFace(r) ==
    LET picture == file[up[r].name]
    IN  /\ up[r].pc = "detecting"
        /\ \/ Goto(r, IF picture # NoFile /\ up[picture].face THEN "accepted" ELSE "rejected")
           \/ Goto(r, "ended")
        /\ UNCHANGED <<accounts, folder, file, thrown, restarts, overlapped>>

(* "Please provide a valid photo." is sent and the file deleted, which     *)
(* throws when there is none.                                              *)
DeletePicture(r) ==
    LET n == up[r].name
    IN  /\ up[r].pc = "rejected"
        /\ file' = [file EXCEPT ![n] = NoFile]
        /\ thrown' = IF file[n] = NoFile THEN "file" ELSE thrown
        /\ Goto(r, "ended")
        /\ UNCHANGED <<accounts, folder, restarts, overlapped>>

(* Mutant: the account gets the picture that is in the folder.             *)
PictureOfFile(r) == file[up[r].name]

(* The account has the picture of the request, not that of the file.       *)
PictureOfRequest(r) == r

InsertAccount(r) ==
    /\ up[r].pc = "accepted"
    /\ accounts' = accounts \cup {[name |-> up[r].name, picture |-> PictureOfRequest(r)]}
    /\ Goto(r, "added")
    /\ UNCHANGED <<folder, file, thrown, restarts, overlapped>>

(* An insertion that fails is outside the try of the handler.              *)
InsertFails(r) ==
    /\ up[r].pc = "accepted"
    /\ thrown' = "database"
    /\ Goto(r, "ended")
    /\ UNCHANGED <<accounts, folder, file, restarts, overlapped>>

(* "New User Added!" is sent and the folder deleted, which throws when     *)
(* there is none.                                                          *)
DeleteFolder(r) ==
    LET n == up[r].name
    IN  /\ up[r].pc = "added"
        /\ folder' = folder \ {n}
        /\ file' = [file EXCEPT ![n] = NoFile]
        /\ thrown' = IF n \in folder THEN thrown ELSE "file"
        /\ Goto(r, "ended")
        /\ UNCHANGED <<accounts, restarts, overlapped>>

(* The process ends, by a throw or from outside, and is started again.     *)
Restart ==
    /\ thrown # "nothing" \/ restarts < MaxRestarts
    /\ restarts' = IF thrown # "nothing" THEN restarts ELSE restarts + 1
    /\ thrown' = "nothing"
    /\ up' = [r \in Requests |-> IF InFlight(r) THEN [up[r] EXCEPT !.pc = "ended"] ELSE up[r]]
    /\ UNCHANGED <<accounts, folder, file, overlapped>>

-----------------------------------------------------------------------------
SignUpStep(r) ==
    \/ NameIsTaken(r)
    \/ NameIsFree(r)
    \/ CheckFails(r)
    \/ WritePicture(r)
    \/ DetectFace(r)
    \/ DeletePicture(r)
    \/ InsertAccount(r)
    \/ InsertFails(r)
    \/ DeleteFolder(r)

Next ==
    \/ thrown = "nothing"
         /\ \E r \in Requests :
              \/ \E n \in Names, face \in BOOLEAN : Arrives(r, n, face)
              \/ SignUpStep(r)
    \/ Restart

Spec == Init /\ [][Next]_vars

-----------------------------------------------------------------------------
Invocations ==
    [pc : {"new"}]
    \cup [pc : {"checking", "writing", "detecting", "rejected", "accepted", "added", "ended"},
          name : Names, face : BOOLEAN]

(* Type invariant.                                                         *)
TypeOK ==
    /\ up \in [Requests -> Invocations]
    /\ accounts \subseteq [name : Names, picture : Requests]
    /\ folder \subseteq Names
    /\ file \in [Names -> Requests \cup {NoFile}]
    /\ thrown \in {"nothing", "file", "database"}
    /\ restarts \in 0..MaxRestarts
    /\ overlapped \subseteq Names

(* sign_in accepts a name with exactly one account.                        *)
CanSignIn(n) == Cardinality(Named(n)) = 1

(* Whoever has an account can sign in, whatever crashed and whatever was   *)
(* left over, unless two sign-ups for the name overlapped: both can find   *)
(* it free, and with two accounts nobody signs in any more.                *)
AccountsCanSignIn ==
    \A n \in Names \ overlapped : Named(n) # {} => CanSignIn(n)

(* The picture an account is recognised by shows a face, although it is    *)
(* the file of a folder that is looked at and the picture of the request   *)
(* that is stored.                                                         *)
PicturesShowAFace ==
    \A a \in accounts : a.name \in overlapped \/ up[a.picture].face

(* The clean-up only throws, and ends every handler of the server with it, *)
(* when sign-ups for one name overlapped.                                  *)
CleanUpThrowsOnOverlap == thrown = "file" => overlapped # {}
=============================================================================
