---------------------------- MODULE RentalServer ----------------------------
(***************************************************************************)
(* The rental core of server.js: the handlers of /gps,                     *)
(* /update_user_location and /free_scooter, the function checkFace that    *)
(* runs face recognition on an uploaded picture, and the start of the      *)
(* server.                                                                 *)
(*                                                                         *)
(* Node.js runs one continuation at a time, so a handler is cut exactly at *)
(* its awaits and callbacks: every action below is the effect of one       *)
(* database call, of one operation on a file, or of the code between two   *)
(* of them, on the documents of the database, the globals of the process   *)
(* and the files.  A restart loses the globals, the handlers in flight and *)
(* the file operations they have begun, and keeps the rest.                *)
(*                                                                         *)
(* Positions are metres along a street.  A request slot is one handler     *)
(* invocation; several requests of one scooter may overlap.                *)
(***************************************************************************)
EXTENDS Integers, FiniteSets

CONSTANTS
    Scooters,       \* scooterId
    Users,          \* username
    Positions,      \* where users and scooters can be
    GpsSlots,       \* concurrent invocations of the /gps handler
    RecSlots,       \* concurrent invocations of checkFace(), with all they begin
    FreeSlots,      \* concurrent invocations of the /free_scooter handler
    Undefined,      \* scooter_users.get() of a key that was never set
    MaxTime,        \* bound: the clock
    MaxRestarts     \* bound: crashes of the server

ASSUME PositionsAssumption == Positions \subseteq Int
(* isValid: a username has at least 6 characters and is not one of the     *)
(* words face_recognition prints for "nobody".                             *)
ASSUME UsersAssumption ==
    Users \cap {"_none", "", "unknown_person", "no_persons_found"} = {}
ASSUME UndefinedAssumption == \A list \in SUBSET Users : list # Undefined
ASSUME BoundsAssumption == MaxTime \in Nat \ {0} /\ MaxRestarts \in Nat

VARIABLES
    \* documents of the database
    scooter_user,   \* scooters.user
    scooter_pos,    \* scooters.location
    user_pos,       \* users.deviceLocation
    user_time,      \* users.time
    \* globals of the process
    scooter_users,
    faceRec_inProg,
    startup,        \* the invocation of initiate_scooter_users by listen()
    \* files
    folder,         \* names of the images in scooterCloseUsers/<scooterId>
    upscaled,       \* whether scooterFacesJPG/<scooterId>/checkFace_upscaled.jpg exists
    \* invocations
    gps, free,      \* each ends in "answered" while its response is on the way
    rec,
    pending,        \* per recognition, the file operations it has begun
    \* environment and history
    now,            \* Date.now()
    thrown,         \* the process has ended, by itself or from outside
    restarts,
    ever_close      \* history: everybody who was ever in scooter_users of a scooter

database == <<scooter_user, scooter_pos, user_pos, user_time>>
memory == <<scooter_users, faceRec_inProg, startup>>
files == <<folder, upscaled>>
recs == <<rec, pending>>
vars == <<database, memory, files, gps, recs, free, now, thrown, restarts, ever_close>>

Replies == {"photo", "unlock", "lock", "error"}
Renters == Users \cup {"_none", ""}

(* External: the words face_recognition prints when it finds no known face.*)
Nobody == {"unknown_person", "no_persons_found"}

(* distance_meters, on a street.                                           *)
Distance(p, q) == IF p < q THEN q - p ELSE p - q

(* The users of a users.find() snapshot within a number of metres.         *)
Within(positions, pos, metres) ==
    {u \in Users : Distance(positions[u], pos) <= metres}

IdleGps == [pc |-> "idle"]
IdleRec == [pc |-> "idle"]
IdleFree == [pc |-> "idle"]
StartingUp == [pc |-> "read_scooters"]

Init ==
    /\ scooter_user = [s \in Scooters |-> "_none"]
    /\ scooter_pos \in [Scooters -> Positions]
    /\ user_pos \in [Users -> Positions]
    /\ user_time = [u \in Users |-> 0]
    /\ scooter_users = [s \in Scooters |-> Undefined]
    /\ faceRec_inProg = FALSE
    /\ startup = StartingUp
    /\ folder = [s \in Scooters |-> {}]
    /\ upscaled = [s \in Scooters |-> FALSE]
    /\ gps = [h \in GpsSlots |-> IdleGps]
    /\ rec = [r \in RecSlots |-> IdleRec]
    /\ pending = [r \in RecSlots |-> {}]
    /\ free = [f \in FreeSlots |-> IdleFree]
    /\ now = 1
    /\ thrown = FALSE
    /\ restarts = 0
    /\ ever_close = [s \in Scooters |-> {}]

-----------------------------------------------------------------------------
(* POST /gps                                                               *)

(* users.find() of a new request.  A request with a valid fix stores it;   *)
(* who is close is computed from this snapshot of the users, against that  *)
(* fix or against the position GpsReadScooter finds.                       *)
GpsReadUsers(h, s, valid, p) ==
    /\ gps[h].pc = "idle"
    /\ gps' = [gps EXCEPT ![h] =
                 IF valid
                   THEN [pc |-> "set_location", scooter |-> s, pos |-> p,
                         close |-> Within(user_pos, p, 50)]
                   ELSE [pc |-> "read_stored", scooter |-> s, users |-> user_pos]]
    /\ UNCHANGED <<database, memory, files, recs, free, now, thrown, restarts, ever_close>>

GpsSetLocation(h) ==
    LET s == gps[h].scooter
    IN  /\ gps[h].pc = "set_location"
        /\ scooter_pos' = [scooter_pos EXCEPT ![s] = gps[h].pos]
        /\ gps' = [gps EXCEPT ![h] = [pc |-> "read_scooter", scooter |-> s,
                                      close |-> gps[h].close]]
        /\ UNCHANGED <<scooter_user, user_pos, user_time, memory, files, recs, free,
                       now, thrown, restarts, ever_close>>

(* scooters.find(): the renter the answer will be based on, and without a  *)
(* valid fix the position as well.                                         *)
GpsReadScooter(h) ==
    LET s == gps[h].scooter
    IN  /\ gps[h].pc \in {"read_scooter", "read_stored"}
        /\ gps' = [gps EXCEPT ![h] =
                     [pc |-> "answer", scooter |-> s, renter |-> scooter_user[s],
                      close |-> IF gps[h].pc = "read_scooter"
                                  THEN gps[h].close
                                  ELSE Within(gps[h].users, scooter_pos[s], 50)]]
        /\ UNCHANGED <<database, memory, files, recs, free, now, thrown, restarts, ever_close>>

(* The answer, from the close users and the renter that were read and the  *)
(* flag as it is now.                                                      *)
Answer(close, renter) ==
    IF close # {} /\ ~faceRec_inProg
      THEN IF renter = "_none" THEN "photo" ELSE "unlock"
      ELSE "lock"

(* update_scooter_users after its own find(), and the response.            *)
GpsAnswer(h) ==
    LET s == gps[h].scooter
        close == gps[h].close
    IN  /\ gps[h].pc = "answer"
        /\ scooter_users' = [scooter_users EXCEPT ![s] = close]
        /\ ever_close' = [ever_close EXCEPT ![s] = @ \cup close]
        /\ gps' = [gps EXCEPT ![h] = [pc |-> "answered", scooter |-> s,
                                      reply |-> Answer(close, gps[h].renter)]]
        /\ UNCHANGED <<database, faceRec_inProg, startup, files, recs, free, now,
                       thrown, restarts>>

(* A database call that fails: the catch answers 400.                      *)
GpsFails(h) ==
    /\ gps[h].pc \notin {"idle", "answered"}
    /\ gps' = [gps EXCEPT ![h] = [pc |-> "answered", scooter |-> gps[h].scooter,
                                  reply |-> "error"]]
    /\ UNCHANGED <<database, memory, files, recs, free, now, thrown, restarts, ever_close>>

-----------------------------------------------------------------------------
(* The process ends: the globals, the handlers in flight and the file      *)
(* operations they have begun are gone.                                    *)
Dies ==
    /\ thrown' = TRUE
    /\ scooter_users' = [s \in Scooters |-> Undefined]
    /\ faceRec_inProg' = FALSE
    /\ startup' = StartingUp
    /\ gps' = [h \in GpsSlots |-> IdleGps]
    /\ rec' = [r \in RecSlots |-> IdleRec]
    /\ pending' = [r \in RecSlots |-> {}]
    /\ free' = [f \in FreeSlots |-> IdleFree]

-----------------------------------------------------------------------------
(* checkFace(): called when the picture of a scooter has been assembled    *)
(* and upscaled.  What it begins on files goes on beside it: a slot takes  *)
(* the next call when the last one and its operations have ended.          *)

(* sharp wrote the upscaled picture; checkFace takes the list of close     *)
(* users and starts users.find().                                          *)
CheckFace(r, s) ==
    /\ rec[r].pc = "idle"
    /\ pending[r] = {}
    /\ upscaled' = [upscaled EXCEPT ![s] = TRUE]
    /\ rec' = [rec EXCEPT ![r] =
                 [pc |-> "read_users", scooter |-> s, close |-> scooter_users[s],
                  name |-> ""]]
    /\ UNCHANGED <<database, memory, folder, gps, pending, free, now, thrown, restarts,
                   ever_close>>

(* Mutant: the images of all users are written.                            *)
ImagesOfAll(close) == Users

(* The users whose image is written: those in the list of close users.     *)
ImagesOf(close) == close

Write(s, u) == [op |-> "write", scooter |-> s, image |-> u]
Unlink(s, u) == [op |-> "unlink", scooter |-> s, image |-> u]
List(s) == [op |-> "list", scooter |-> s]

(* users.find() answered: the writing of the images of the close users     *)
(* begins, the flag goes up and the recognition process is started.        *)
StartRecognition(r) ==
    LET s == rec[r].scooter
    IN  /\ rec[r].pc = "read_users"
        /\ rec[r].close # Undefined
        /\ pending' = [pending EXCEPT ![r] = {Write(s, u) : u \in ImagesOf(rec[r].close)}]
        /\ faceRec_inProg' = TRUE
        /\ rec' = [rec EXCEPT ![r] = [@ EXCEPT !.pc = "recognising", !.close = {}]]
        /\ UNCHANGED <<database, scooter_users, startup, files, gps, free, now, thrown,
                       restarts, ever_close>>

(* close_users is undefined: close_users.includes throws, the promise of   *)
(* checkFace is rejected and nobody handles it.                            *)
StartRecognitionThrows(r) ==
    /\ rec[r].pc = "read_users"
    /\ rec[r].close = Undefined
    /\ Dies
    /\ UNCHANGED <<database, files, now, restarts, ever_close>>

(* A database call of checkFace, or of the callback of exec, is rejected,  *)
(* which nobody handles either.                                            *)
RecFails(r) ==
    /\ rec[r].pc \in {"read_users", "set_user", "set_time"}
    /\ Dies
    /\ UNCHANGED <<database, files, now, restarts, ever_close>>

(* External: what the face_recognition process prints.  It knows the faces *)
(* whose images are in the folder, and names one of them or nobody.  With  *)
(* no picture to look at, or when it fails, it prints nothing.             *)
Recognised(s) == {""} \cup (IF upscaled[s] THEN Nobody \cup folder[s] ELSE {})

RunRecognition(r, name) ==
    /\ rec[r].pc = "recognising"
    /\ name \in Recognised(rec[r].scooter)
    /\ rec' = [rec EXCEPT ![r] = [@ EXCEPT !.pc = "recognised", !.name = name]]
    /\ UNCHANGED <<database, memory, files, gps, pending, free, now, thrown, restarts,
                   ever_close>>

(* Mutant: only one of the two words is compared.                          *)
IsNobodyOneWord(name) == name = "unknown_person"

IsNobody(name) == name \in {"unknown_person", "no_persons_found"}

(* Mutant: the flag is never taken down.                                   *)
FlagStaysUp == faceRec_inProg

(* faceRec_inProg after a recognition: false, even when another one runs.  *)
FlagAfterRecognition == FALSE

(* The upscaled picture, deleted by the callback of exec in the end.  When *)
(* another recognition has deleted it, the callback of fs.unlink throws.   *)
PictureDeleted(s) == upscaled[s] /\ upscaled' = [upscaled EXCEPT ![s] = FALSE]
PictureMissing(s) == ~upscaled[s] /\ UNCHANGED upscaled

(* Mutant: a face nobody has takes the scooter from its renter.            *)
RenterTaken(s) == scooter_user' = [scooter_user EXCEPT ![s] = "_none"]

(* A face nobody has leaves the scooter to its renter.                     *)
RenterStays(s) == UNCHANGED scooter_user

(* The callback of exec for a face nobody has: the deletion of the images  *)
(* of the close users begins, the flag goes down and the picture goes.     *)
FaceNotRecognised(r) ==
    LET s == rec[r].scooter
    IN  /\ rec[r].pc = "recognised"
        /\ IsNobody(rec[r].name)
        /\ RenterStays(s)
        /\ PictureDeleted(s)
        /\ faceRec_inProg' = FlagAfterRecognition
        /\ pending' = [pending EXCEPT ![r] = @ \cup {List(s)}]
        /\ rec' = [rec EXCEPT ![r] = IdleRec]
        /\ UNCHANGED <<scooter_pos, user_pos, user_time, scooter_users, startup, folder, gps,
                       free, now, thrown, restarts, ever_close>>

NotRecognisedThrows(r) ==
    /\ rec[r].pc = "recognised"
    /\ IsNobody(rec[r].name)
    /\ PictureMissing(rec[r].scooter)
    /\ Dies
    /\ UNCHANGED <<database, folder, now, restarts, ever_close>>

(* The callback of exec for a name, up to the update of the scooter.       *)
FaceRecognised(r) ==
    /\ rec[r].pc = "recognised"
    /\ ~IsNobody(rec[r].name)
    /\ faceRec_inProg' = FlagAfterRecognition
    /\ pending' = [pending EXCEPT ![r] = @ \cup {List(rec[r].scooter)}]
    /\ rec' = [rec EXCEPT ![r] = [@ EXCEPT !.pc = "set_user"]]
    /\ UNCHANGED <<database, scooter_users, startup, files, gps, free, now, thrown,
                   restarts, ever_close>>

SetScooterUser(r) ==
    /\ rec[r].pc = "set_user"
    /\ scooter_user' = [scooter_user EXCEPT ![rec[r].scooter] = rec[r].name]
    /\ rec' = [rec EXCEPT ![r] = [@ EXCEPT !.pc = "set_time"]]
    /\ UNCHANGED <<scooter_pos, user_pos, user_time, memory, files, gps, pending, free, now,
                   thrown, restarts, ever_close>>

(* users.time = Date.now() of the recognised user, then the picture goes.  *)
TimeRecorded(r) ==
    user_time' = [u \in Users |-> IF u = rec[r].name THEN now ELSE user_time[u]]

SetUserTime(r) ==
    /\ rec[r].pc = "set_time"
    /\ TimeRecorded(r)
    /\ PictureDeleted(rec[r].scooter)
    /\ rec' = [rec EXCEPT ![r] = IdleRec]
    /\ UNCHANGED <<scooter_user, scooter_pos, user_pos, memory, folder, gps, pending, free,
                   now, thrown, restarts, ever_close>>

SetUserTimeThrows(r) ==
    /\ rec[r].pc = "set_time"
    /\ TimeRecorded(r)
    /\ PictureMissing(rec[r].scooter)
    /\ Dies
    /\ UNCHANGED <<scooter_user, scooter_pos, user_pos, folder, now, restarts, ever_close>>

(* An operation of recognition r on a file ends, and may begin others.     *)
Ends(r, o, more) == pending' = [pending EXCEPT ![r] = (@ \ {o}) \cup more]

WriteImage(r, o) ==
    /\ o.op = "write"
    /\ folder' = [folder EXCEPT ![o.scooter] = @ \cup {o.image}]
    /\ Ends(r, o, {})

(* An image that cannot be written is logged.                              *)
WriteFails(r, o) == o.op = "write" /\ Ends(r, o, {}) /\ UNCHANGED folder

(* fs.readdir: every image it finds is deleted, those another recognition  *)
(* has written included.                                                   *)
ListImages(r, o) ==
    /\ o.op = "list"
    /\ Ends(r, o, {Unlink(o.scooter, u) : u \in folder[o.scooter]})
    /\ UNCHANGED folder

UnlinkImage(r, o) ==
    /\ o.op = "unlink"
    /\ o.image \in folder[o.scooter]
    /\ folder' = [folder EXCEPT ![o.scooter] = @ \ {o.image}]
    /\ Ends(r, o, {})

DiskStep(r) ==
    /\ \E o \in pending[r] :
          WriteImage(r, o) \/ WriteFails(r, o) \/ ListImages(r, o) \/ UnlinkImage(r, o)
    /\ UNCHANGED <<database, memory, upscaled, gps, rec, free, now, thrown, restarts,
                   ever_close>>

(* fs.readdir fails, or fs.unlink does, at the latest when the image is    *)
(* not there any more: their callbacks throw.                              *)
DiskThrows(r) ==
    /\ \E o \in pending[r] : o.op # "write"
    /\ Dies
    /\ UNCHANGED <<database, files, now, restarts, ever_close>>

-----------------------------------------------------------------------------
(* POST /update_user_location.  update_scooter_users_a compares with       *)
(* scooters[i].lat, which does not exist (the field is location.lat):      *)
(* every distance is NaN, both tests fail and scooter_users is left alone. *)
ScooterUsersAfterMove(u, p) == scooter_users

UpdateUserLocation(u, p) ==
    /\ user_pos' = [user_pos EXCEPT ![u] = p]
    /\ scooter_users' = ScooterUsersAfterMove(u, p)
    /\ UNCHANGED <<scooter_user, scooter_pos, user_time, faceRec_inProg, startup, files, gps,
                   recs, free, now, thrown, restarts, ever_close>>

-----------------------------------------------------------------------------
(* POST /free_scooter                                                      *)

FreeReadTime(f, u, s) ==
    /\ free[f].pc = "idle"
    /\ free' = [free EXCEPT ![f] = [pc |-> "set_none", user |-> u, scooter |-> s,
                                    time |-> user_time[u]]]
    /\ UNCHANGED <<database, memory, files, gps, recs, now, thrown, restarts, ever_close>>

FreeSetNone(f) ==
    /\ free[f].pc = "set_none"
    /\ scooter_user' = [scooter_user EXCEPT ![free[f].scooter] = "_none"]
    /\ free' = [free EXCEPT ![f] = [@ EXCEPT !.pc = "clear_time"]]
    /\ UNCHANGED <<scooter_pos, user_pos, user_time, memory, files, gps, recs, now, thrown,
                   restarts, ever_close>>

(* Mutant: the operands are swapped.                                       *)
ElapsedSwapped(time) == time - now

Elapsed(time) == now - time

(* users.time = 0, and the response Date.now() - time.                     *)
FreeClearTime(f) ==
    LET u == free[f].user
    IN  /\ free[f].pc = "clear_time"
        /\ user_time' = [user_time EXCEPT ![u] = 0]
        /\ free' = [free EXCEPT ![f] = [pc |-> "answered", user |-> u,
                                        reply |-> Elapsed(free[f].time)]]
        /\ UNCHANGED <<scooter_user, scooter_pos, user_pos, memory, files, gps, recs, now,
                       thrown, restarts, ever_close>>

(* A database call that fails: the catch answers 400 (here -1), what was   *)
(* updated before stays updated.                                           *)
FreeFails(f) ==
    /\ free[f].pc \in {"set_none", "clear_time"}
    /\ free' = [free EXCEPT ![f] = [pc |-> "answered", user |-> free[f].user,
                                    reply |-> -1]]
    /\ UNCHANGED <<database, memory, files, gps, recs, now, thrown, restarts, ever_close>>

-----------------------------------------------------------------------------
(* A response leaves the process; whether the client gets it is the        *)
(* client's business.                                                      *)
GpsResponse(h) ==
    /\ gps[h].pc = "answered"
    /\ gps' = [gps EXCEPT ![h] = IdleGps]
    /\ UNCHANGED <<database, memory, files, recs, free, now, thrown, restarts, ever_close>>

FreeResponse(f) ==
    /\ free[f].pc = "answered"
    /\ free' = [free EXCEPT ![f] = IdleFree]
    /\ UNCHANGED <<database, memory, files, gps, recs, now, thrown, restarts, ever_close>>

-----------------------------------------------------------------------------
(* The process is ended from outside, or by the rejection of a database    *)
(* call of initiate_scooter_users.                                         *)
Kill ==
    /\ restarts < MaxRestarts
    /\ restarts' = restarts + 1
    /\ Dies
    /\ UNCHANGED <<database, files, now, ever_close>>

(* It is started again, with empty globals.                                *)
Restart ==
    /\ thrown
    /\ thrown' = FALSE
    /\ UNCHANGED <<database, memory, files, gps, recs, free, now, restarts, ever_close>>

(* initiate_scooter_users runs beside the first requests: it reads the     *)
(* scooters, then the users, then overwrites what those requests stored.   *)
InitReadScooters ==
    /\ startup.pc = "read_scooters"
    /\ startup' = [pc |-> "read_users", pos |-> scooter_pos]
    /\ UNCHANGED <<database, scooter_users, faceRec_inProg, files, gps, recs, free, now, thrown,
                   restarts, ever_close>>

InitReadUsers ==
    /\ startup.pc = "read_users"
    /\ startup' = [pc |-> "store",
                   close |-> [s \in Scooters |-> Within(user_pos, startup.pos[s], 10)]]
    /\ UNCHANGED <<database, scooter_users, faceRec_inProg, files, gps, recs, free, now, thrown,
                   restarts, ever_close>>

InitiateScooterUsers ==
    /\ startup.pc = "store"
    /\ startup' = [pc |-> "done"]
    /\ scooter_users' = startup.close
    /\ ever_close' = [s \in Scooters |-> ever_close[s] \cup startup.close[s]]
    /\ UNCHANGED <<database, faceRec_inProg, files, gps, recs, free, now, thrown, restarts>>

Tick ==
    /\ now < MaxTime
    /\ now' = now + 1
    /\ UNCHANGED <<database, memory, files, gps, recs, free, thrown, restarts, ever_close>>

-----------------------------------------------------------------------------
RecStep(r) ==
    \/ StartRecognition(r)
    \/ StartRecognitionThrows(r)
    \/ \E name \in Users \cup Nobody \cup {""} : RunRecognition(r, name)
    \/ FaceNotRecognised(r)
    \/ NotRecognisedThrows(r)
    \/ FaceRecognised(r)
    \/ SetScooterUser(r)
    \/ SetUserTime(r)
    \/ SetUserTimeThrows(r)
    \/ DiskStep(r)
    \/ DiskThrows(r)

GpsStep(h) ==
    GpsSetLocation(h) \/ GpsReadScooter(h) \/ GpsAnswer(h) \/ GpsResponse(h)

FreeStep(f) == FreeSetNone(f) \/ FreeClearTime(f) \/ FreeResponse(f)

StartupStep == InitReadScooters \/ InitReadUsers \/ InitiateScooterUsers

(* What the process does once requests have come in.                       *)
ServerStep ==
    \/ \E h \in GpsSlots : GpsStep(h) \/ GpsFails(h)
    \/ \E r \in RecSlots : RecStep(r) \/ RecFails(r)
    \/ \E f \in FreeSlots : FreeStep(f) \/ FreeFails(f)
    \/ StartupStep

(* Requests: any scooter checks in from anywhere and uploads a        *)
(* picture at any time, any user moves and frees any scooter.              *)
Request ==
    \/ \E h \in GpsSlots, s \in Scooters, valid \in BOOLEAN, p \in Positions :
          GpsReadUsers(h, s, valid, p)
    \/ \E r \in RecSlots, s \in Scooters : CheckFace(r, s)
    \/ \E u \in Users, p \in Positions : UpdateUserLocation(u, p)
    \/ \E f \in FreeSlots, u \in Users, s \in Scooters : FreeReadTime(f, u, s)

Next ==
    \/ ~thrown /\ (ServerStep \/ Request \/ Kill)
    \/ Restart
    \/ Tick

Spec == Init /\ [][Next]_vars

(* Continuations and callbacks run until none is left, the recognition     *)
(* process ends, and a process that threw is started again.                *)
FairSpec ==
    /\ Spec
    /\ \A r \in RecSlots : WF_vars(~thrown /\ RecStep(r))
    /\ \A h \in GpsSlots : WF_vars(~thrown /\ GpsStep(h))
    /\ \A f \in FreeSlots : WF_vars(~thrown /\ FreeStep(f))
    /\ WF_vars(Restart)

-----------------------------------------------------------------------------
GpsStates ==
    [pc : {"idle"}]
    \cup [pc : {"set_location"}, scooter : Scooters, pos : Positions, close : SUBSET Users]
    \cup [pc : {"read_stored"}, scooter : Scooters, users : [Users -> Positions]]
    \cup [pc : {"read_scooter"}, scooter : Scooters, close : SUBSET Users]
    \cup [pc : {"answer"}, scooter : Scooters, close : SUBSET Users, renter : Renters]
    \cup [pc : {"answered"}, scooter : Scooters, reply : Replies]

BusyRecs ==
    [pc : {"read_users", "recognising", "recognised", "set_user", "set_time"},
     scooter : Scooters,
     close : {Undefined} \cup SUBSET Users,
     name : Users \cup Nobody \cup {""}]

RecStates == [pc : {"idle"}] \cup BusyRecs

Operations ==
    [op : {"write", "unlink"}, scooter : Scooters, image : Users]
    \cup [op : {"list"}, scooter : Scooters]

BusyFrees ==
    [pc : {"set_none", "clear_time"}, user : Users, scooter : Scooters, time : 0..MaxTime]

FreeStates ==
    [pc : {"idle"}]
    \cup BusyFrees
    \cup [pc : {"answered"}, user : Users, reply : Int]

StartupStates ==
    [pc : {"read_scooters", "done"}]
    \cup [pc : {"read_users"}, pos : [Scooters -> Positions]]
    \cup [pc : {"store"}, close : [Scooters -> SUBSET Users]]

(* Type invariant.  A renter is a user, "_none", or the empty string a     *)
(* failed recognition leaves, never one of the words for nobody.           *)
TypeOK ==
    /\ scooter_user \in [Scooters -> Renters]
    /\ scooter_pos \in [Scooters -> Positions]
    /\ user_pos \in [Users -> Positions]
    /\ user_time \in [Users -> 0..MaxTime]
    /\ scooter_users \in [Scooters -> {Undefined} \cup SUBSET Users]
    /\ faceRec_inProg \in BOOLEAN
    /\ startup \in StartupStates
    /\ folder \in [Scooters -> SUBSET Users]
    /\ upscaled \in [Scooters -> BOOLEAN]
    /\ gps \in [GpsSlots -> GpsStates]
    /\ rec \in [RecSlots -> RecStates]
    /\ pending \in [RecSlots -> SUBSET Operations]
    /\ free \in [FreeSlots -> FreeStates]
    /\ now \in 1..MaxTime
    /\ thrown \in BOOLEAN
    /\ restarts \in 0..MaxRestarts
    /\ ever_close \in [Scooters -> SUBSET Users]

(* faceRec_inProg locks every scooter (l.410, l.428), so it must not be    *)
(* left up: while it is, some recognition is under way whose end takes it  *)
(* down, whatever overlapping recognitions, failures and restarts happened.*)
FlagHasARecognition ==
    faceRec_inProg =>
      \E r \in RecSlots : rec[r].pc \in {"recognising", "recognised"}

(* Only a user who was once in the list of users close to a scooter can be *)
(* recorded as its renter, although the images recognition compares with   *)
(* are shared by overlapping recognitions and survive a restart.           *)
RenterWasClose ==
    \A s \in Scooters : scooter_user[s] \in Users => scooter_user[s] \in ever_close[s]

(* The server implements Rental.  A scooter changes hands only when a      *)
(* recognition in progress named somebody who had been close to it, or a   *)
(* request in progress asked for it to be freed (l.653, l.452), each of    *)
(* them once.  A face nobody has, a call that fails, an exception in a     *)
(* callback and a crash leave every renter as it is.                       *)
Named(r) == IF rec[r].pc = "set_user" THEN {<<rec[r].scooter, rec[r].name>>} ELSE {}
Asked(f) == IF free[f].pc = "set_none" THEN {free[f].scooter} ELSE {}

Rentals == INSTANCE Rental WITH Scooters <- Scooters, Users <- Users,
                                Recognitions <- RecSlots, Requests <- FreeSlots,
                                renter <- scooter_user, known <- ever_close,
                                named <- [r \in RecSlots |-> Named(r)],
                                asked <- [f \in FreeSlots |-> Asked(f)]
ImplementsRental == Rentals!Spec

(* Whoever is recognised later, scooters are not locked for ever by a      *)
(* recognition: the flag always comes down again.                          *)
FlagComesDown == faceRec_inProg ~> ~faceRec_inProg

(* "no user within 10 meters so lock" (l.416, l.432): a check-in is        *)
(* answered "lock" only when no user is close to the scooter, or while its *)
(* own picture is being recognised.                                        *)
LockMeansNobodyClose ==
    [][ \A h \in GpsSlots :
          gps[h].pc = "answer" /\ gps'[h].pc = "answered" /\ gps'[h].reply = "lock"
          => \/ gps[h].close = {}
             \/ \E r \in RecSlots : rec[r].pc # "idle" /\ rec[r].scooter = gps[h].scooter
      ]_vars
=============================================================================
