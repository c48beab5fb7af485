------------------------- MODULE RentalServerProofs -------------------------
(***************************************************************************)
(* Proofs about RentalServer, for any number of scooters, users and        *)
(* overlapping requests, and any number of restarts.                       *)
(***************************************************************************)
EXTENDS RentalServer, TLAPS

(* Everything a renter's name can come from is covered by ever_close: the  *)
(* lists in memory, the lists taken by a recognition, the images that are  *)
(* being written or on disk, and the name a recognition has printed.       *)
NamesWereClose ==
    /\ \A s \in Scooters : scooter_users[s] # Undefined => scooter_users[s] \subseteq ever_close[s]
    /\ \A s \in Scooters : folder[s] \subseteq ever_close[s]
    /\ \A r \in RecSlots :
         /\ rec[r].pc = "read_users" /\ rec[r].close # Undefined
              => rec[r].close \subseteq ever_close[rec[r].scooter]
         /\ rec[r].pc \in {"recognised", "set_user", "set_time"} /\ rec[r].name \in Users
              => rec[r].name \in ever_close[rec[r].scooter]
         /\ \A o \in pending[r] : o.op = "write" => o.image \in ever_close[o.scooter]

(* A name that is about to be recorded is not a word for nobody.           *)
NamesAreRenters ==
    \A r \in RecSlots : rec[r].pc \in {"set_user", "set_time"} => rec[r].name \in Renters

-----------------------------------------------------------------------------
(* The shapes of the records of a handler in flight.                       *)

LEMMA GpsShapes ==
    /\ IdleGps \in GpsStates
    /\ \A s \in Scooters, p \in Positions, c \in SUBSET Users :
         [pc |-> "set_location", scooter |-> s, pos |-> p, close |-> c] \in GpsStates
    /\ \A s \in Scooters, u \in [Users -> Positions] :
         [pc |-> "read_stored", scooter |-> s, users |-> u] \in GpsStates
    /\ \A s \in Scooters, c \in SUBSET Users :
         [pc |-> "read_scooter", scooter |-> s, close |-> c] \in GpsStates
    /\ \A s \in Scooters, c \in SUBSET Users, n \in Renters :
         [pc |-> "answer", scooter |-> s, renter |-> n, close |-> c] \in GpsStates
    /\ \A s \in Scooters, a \in Replies :
         [pc |-> "answered", scooter |-> s, reply |-> a] \in GpsStates
BY DEF GpsStates, IdleGps

LEMMA GpsFields ==
    ASSUME NEW g \in GpsStates, g.pc # "idle"
    PROVE  /\ g.scooter \in Scooters
           /\ g.pc = "set_location" => g.pos \in Positions
           /\ g.pc = "read_stored" => g.users \in [Users -> Positions]
           /\ g.pc \in {"set_location", "read_scooter", "answer"} => g.close \in SUBSET Users
           /\ g.pc = "answer" => g.renter \in Renters
BY DEF GpsStates

LEMMA RecFields ==
    ASSUME NEW g \in RecStates, g.pc # "idle"
    PROVE  /\ g \in BusyRecs
           /\ g.scooter \in Scooters
           /\ g.close \in {Undefined} \cup SUBSET Users
           /\ g.name \in Users \cup Nobody \cup {""}
BY DEF RecStates, BusyRecs

LEMMA RecShapes ==
    /\ IdleRec \in RecStates
    /\ \A s \in Scooters, c \in {Undefined} \cup SUBSET Users :
         [pc |-> "read_users", scooter |-> s, close |-> c, name |-> ""] \in RecStates
BY DEF RecStates, BusyRecs, IdleRec

(* What the three ways a recognition's record is changed give.             *)
LEMMA RecMoves ==
    ASSUME NEW g \in BusyRecs, NEW p \in {"set_user", "set_time"}
    PROVE  /\ [g EXCEPT !.pc = p] \in RecStates
           /\ [g EXCEPT !.pc = p].pc = p
           /\ [g EXCEPT !.pc = p].name = g.name
           /\ [g EXCEPT !.pc = p].scooter = g.scooter
BY DEF RecStates, BusyRecs

LEMMA RecStarts ==
    ASSUME NEW g \in BusyRecs
    PROVE  LET x == [g EXCEPT !.pc = "recognising", !.close = {}]
           IN  x \in RecStates /\ x.pc = "recognising" /\ x.scooter = g.scooter
BY DEF RecStates, BusyRecs

LEMMA RecEnds ==
    ASSUME NEW g \in BusyRecs, NEW n \in Users \cup Nobody \cup {""}
    PROVE  LET x == [g EXCEPT !.pc = "recognised", !.name = n]
           IN  x \in RecStates /\ x.pc = "recognised" /\ x.name = n /\ x.scooter = g.scooter
BY DEF RecStates, BusyRecs

(* The operations on files a recognition begins.                           *)
LEMMA OperationShapes ==
    /\ \A s \in Scooters : List(s) \in Operations /\ List(s).op = "list"
    /\ \A s \in Scooters, u \in Users :
          /\ Write(s, u) \in Operations
          /\ Write(s, u).image = u /\ Write(s, u).scooter = s
          /\ Unlink(s, u) \in Operations /\ Unlink(s, u).op = "unlink"
BY DEF Operations, List, Write, Unlink

LEMMA OperationFields ==
    ASSUME NEW o \in Operations
    PROVE  o.scooter \in Scooters /\ (o.op \in {"write", "unlink"} => o.image \in Users)
BY DEF Operations

LEMMA FreeShapes ==
    /\ IdleFree \in FreeStates
    /\ \A p \in {"set_none", "clear_time"}, u \in Users, s \in Scooters, t \in 0..MaxTime :
         [pc |-> p, user |-> u, scooter |-> s, time |-> t] \in FreeStates
    /\ \A u \in Users, b \in Int :
         [pc |-> "answered", user |-> u, reply |-> b] \in FreeStates
BY DEF FreeStates, BusyFrees, IdleFree

LEMMA FreeFields ==
    ASSUME NEW g \in FreeStates, g.pc # "idle"
    PROVE  /\ g.user \in Users
           /\ g.pc \in {"set_none", "clear_time"} => g \in BusyFrees
BY DEF FreeStates, BusyFrees

LEMMA WithinUsers ==
    ASSUME NEW positions, NEW pos, NEW metres
    PROVE  Within(positions, pos, metres) \in SUBSET Users
BY DEF Within

-----------------------------------------------------------------------------
LEMMA InitTypes == Init => TypeOK
<1> SUFFICES ASSUME Init PROVE TypeOK
    OBVIOUS
<1>1. gps \in [GpsSlots -> GpsStates] /\ rec \in [RecSlots -> RecStates]
          /\ free \in [FreeSlots -> FreeStates]
    BY GpsShapes, RecShapes, FreeShapes DEF Init
<1>2. 0 \in 0..MaxTime /\ 1 \in 1..MaxTime /\ 0 \in 0..MaxRestarts
    BY BoundsAssumption
<1>3. user_time \in [Users -> 0..MaxTime] /\ now \in 1..MaxTime /\ restarts \in 0..MaxRestarts
    BY <1>2 DEF Init
<1>4. /\ scooter_user \in [Scooters -> Renters]
      /\ pending \in [RecSlots -> SUBSET Operations]
      /\ scooter_users \in [Scooters -> {Undefined} \cup SUBSET Users]
      /\ folder \in [Scooters -> SUBSET Users]
      /\ ever_close \in [Scooters -> SUBSET Users]
      /\ upscaled \in [Scooters -> BOOLEAN]
      /\ faceRec_inProg \in BOOLEAN /\ startup \in StartupStates /\ thrown \in BOOLEAN
    BY DEF Init, Renters, StartingUp, StartupStates
<1> QED BY <1>1, <1>3, <1>4 DEF Init, TypeOK

(* A process that ends loses only what has a type when it is empty.        *)
LEMMA DiesKeepsTypes ==
    ASSUME TypeOK, Dies, UNCHANGED <<scooter_user, scooter_pos, user_pos, folder, now, ever_close>>,
           user_time' \in [Users -> 0..MaxTime], upscaled' = upscaled,
           restarts' \in 0..MaxRestarts
    PROVE  TypeOK' /\ NamesAreRenters'
<1>1. /\ gps' \in [GpsSlots -> GpsStates] /\ rec' \in [RecSlots -> RecStates]
      /\ free' \in [FreeSlots -> FreeStates]
    BY GpsShapes, RecShapes, FreeShapes DEF Dies
<1>2. /\ scooter_users' \in [Scooters -> {Undefined} \cup SUBSET Users]
      /\ pending' \in [RecSlots -> SUBSET Operations]
      /\ faceRec_inProg' \in BOOLEAN /\ thrown' \in BOOLEAN
      /\ startup' \in StartupStates
    BY DEF Dies, StartingUp, StartupStates
<1>3. TypeOK'
    BY <1>1, <1>2 DEF TypeOK
<1>4. NamesAreRenters'
    BY DEF Dies, IdleRec, NamesAreRenters
<1> QED BY <1>3, <1>4

(* Steps of the /gps handler keep every type.                              *)
LEMMA GpsKeepsTypes ==
    ASSUME TypeOK, NEW h \in GpsSlots,
           \/ \E s \in Scooters, valid \in BOOLEAN, p \in Positions : GpsReadUsers(h, s, valid, p)
           \/ GpsSetLocation(h)
           \/ GpsReadScooter(h)
           \/ GpsAnswer(h)
           \/ GpsFails(h)
           \/ GpsResponse(h)
    PROVE  TypeOK'
<1> DEFINE g == gps[h]
<1>1. g \in GpsStates /\ gps \in [GpsSlots -> GpsStates]
    BY DEF TypeOK
<1>2. ASSUME NEW s \in Scooters, NEW valid \in BOOLEAN, NEW p \in Positions,
             GpsReadUsers(h, s, valid, p)
      PROVE  TypeOK'
    <2>1. user_pos \in [Users -> Positions]
        BY DEF TypeOK
    <2>2. gps' \in [GpsSlots -> GpsStates]
        BY <1>1, <1>2, <2>1, GpsShapes, WithinUsers DEF GpsReadUsers
    <2> QED BY <1>2, <2>2 DEF GpsReadUsers, TypeOK, database, memory, files, recs
<1>3. CASE GpsSetLocation(h)
    <2>1. g.scooter \in Scooters /\ g.pos \in Positions /\ g.close \in SUBSET Users
        BY <1>1, <1>3, GpsFields DEF GpsSetLocation
    <2>2. gps' \in [GpsSlots -> GpsStates]
        BY <1>1, <1>3, <2>1, GpsShapes DEF GpsSetLocation
    <2> QED BY <1>3, <2>1, <2>2 DEF GpsSetLocation, TypeOK, memory, files, recs
<1>4. CASE GpsReadScooter(h)
    <2>1. g.scooter \in Scooters /\ scooter_user[g.scooter] \in Renters
        BY <1>1, <1>4, GpsFields DEF GpsReadScooter, TypeOK
    <2> DEFINE close == IF g.pc = "read_scooter" THEN g.close
                        ELSE Within(g.users, scooter_pos[g.scooter], 50)
    <2>2. close \in SUBSET Users
        BY <1>1, <1>4, GpsFields, WithinUsers DEF GpsReadScooter
    <2>3. gps' \in [GpsSlots -> GpsStates]
        BY <1>1, <1>4, <2>1, <2>2, GpsShapes DEF GpsReadScooter
    <2> QED BY <1>4, <2>3 DEF GpsReadScooter, TypeOK, database, memory, files, recs
<1>5. CASE GpsAnswer(h)
    <2>1. g.scooter \in Scooters /\ g.close \in SUBSET Users
        BY <1>1, <1>5, GpsFields DEF GpsAnswer
    <2>2. Answer(g.close, g.renter) \in Replies
        BY DEF Answer, Replies
    <2>3. gps' \in [GpsSlots -> GpsStates]
        BY <1>1, <1>5, <2>1, <2>2, GpsShapes DEF GpsAnswer
    <2>4. scooter_users' \in [Scooters -> {Undefined} \cup SUBSET Users]
        BY <1>5, <2>1 DEF GpsAnswer, TypeOK
    <2>5. ever_close' \in [Scooters -> SUBSET Users]
        BY <1>5, <2>1 DEF GpsAnswer, TypeOK
    <2> QED BY <1>5, <2>3, <2>4, <2>5 DEF GpsAnswer, TypeOK, database, files, recs
<1>6. CASE GpsFails(h)
    <2>1. g.scooter \in Scooters
        BY <1>1, <1>6, GpsFields DEF GpsFails
    <2>2. gps' \in [GpsSlots -> GpsStates]
        BY <1>1, <1>6, <2>1, GpsShapes DEF GpsFails, Replies
    <2> QED BY <1>6, <2>2 DEF GpsFails, TypeOK, database, memory, files, recs
<1>7. CASE GpsResponse(h)
    <2>1. gps' \in [GpsSlots -> GpsStates]
        BY <1>1, <1>7, GpsShapes DEF GpsResponse
    <2> QED BY <1>7, <2>1 DEF GpsResponse, TypeOK, database, memory, files, recs
<1> QED BY <1>2, <1>3, <1>4, <1>5, <1>6, <1>7

(* Steps of checkFace keep every type; a name that is recorded is no word  *)
(* for nobody.                                                             *)
LEMMA RecKeepsTypes ==
    ASSUME TypeOK, NamesAreRenters, NEW r \in RecSlots,
           \/ \E s \in Scooters : CheckFace(r, s)
           \/ RecStep(r)
           \/ RecFails(r)
    PROVE  TypeOK' /\ NamesAreRenters'
<1> DEFINE g == rec[r]
<1>1. g \in RecStates /\ rec \in [RecSlots -> RecStates]
    BY DEF TypeOK
<1>0. user_time \in [Users -> 0..MaxTime] /\ restarts \in 0..MaxRestarts
          /\ pending[r] \in SUBSET Operations /\ pending \in [RecSlots -> SUBSET Operations]
    BY DEF TypeOK
<1>2. ASSUME NEW s \in Scooters, CheckFace(r, s) PROVE TypeOK' /\ NamesAreRenters'
    <2>1. scooter_users[s] \in {Undefined} \cup SUBSET Users
        BY DEF TypeOK
    <2>2. rec' \in [RecSlots -> RecStates]
        BY <1>1, <1>2, <2>1, RecShapes DEF CheckFace
    <2> QED BY <1>2, <2>2 DEF CheckFace, TypeOK, NamesAreRenters, database, memory
<1>3. CASE StartRecognition(r)
    <2>1. g.pc # "idle" /\ rec[r].close # Undefined
        BY <1>3 DEF StartRecognition
    <2>2. rec' \in [RecSlots -> RecStates]
        <3>1. [g EXCEPT !.pc = "recognising", !.close = {}] \in RecStates
            BY <1>1, <2>1, RecFields, RecStarts
        <3> QED BY <1>1, <1>3, <3>1 DEF StartRecognition
    <2>3. pending' \in [RecSlots -> SUBSET Operations]
        <3>1. rec[r].close \in SUBSET Users /\ rec[r].scooter \in Scooters
            BY <1>1, <2>1, RecFields
        <3>2. {Write(rec[r].scooter, u) : u \in rec[r].close} \in SUBSET Operations
            BY <3>1, OperationShapes
        <3> QED BY <1>0, <1>3, <3>2 DEF StartRecognition, ImagesOf
    <2> QED BY <1>3, <2>2, <2>3 DEF StartRecognition, TypeOK, NamesAreRenters, database, files
<1>4. CASE StartRecognitionThrows(r) \/ RecFails(r) \/ DiskThrows(r)
    BY <1>0, <1>4, DiesKeepsTypes
    DEF StartRecognitionThrows, RecFails, DiskThrows, database, files
<1>5. ASSUME NEW name \in Users \cup Nobody \cup {""}, RunRecognition(r, name)
      PROVE  TypeOK' /\ NamesAreRenters'
    <2>1. g.pc # "idle"
        BY <1>5 DEF RunRecognition
    <2> DEFINE h == [g EXCEPT !.pc = "recognised", !.name = name]
    <2>2. h \in RecStates /\ h.pc = "recognised"
        BY <1>1, <2>1, RecFields, RecEnds
    <2>3. rec' \in [RecSlots -> RecStates] /\ rec' = [rec EXCEPT ![r] = h]
        BY <1>1, <1>5, <2>2 DEF RunRecognition
    <2> QED BY <1>5, <2>2, <2>3 DEF RunRecognition, TypeOK, NamesAreRenters, database, memory,
               files
<1>6. CASE FaceNotRecognised(r)
    <2>1. rec' \in [RecSlots -> RecStates] /\ rec' = [rec EXCEPT ![r] = IdleRec]
        BY <1>1, <1>6, RecShapes DEF FaceNotRecognised
    <2>2. upscaled' \in [Scooters -> BOOLEAN]
        BY <1>6 DEF FaceNotRecognised, PictureDeleted, TypeOK
    <2>3. pending' \in [RecSlots -> SUBSET Operations]
        <3>1. List(rec[r].scooter) \in Operations
            BY <1>1, <1>6, RecFields, OperationShapes DEF FaceNotRecognised
        <3> QED BY <1>0, <1>6, <3>1 DEF FaceNotRecognised
    <2>4. TypeOK'
        BY <1>6, <2>1, <2>2, <2>3
        DEF FaceNotRecognised, FlagAfterRecognition, RenterStays, TypeOK
    <2>5. NamesAreRenters'
        BY <2>1 DEF NamesAreRenters, IdleRec
    <2> QED BY <2>4, <2>5
<1>10. CASE NotRecognisedThrows(r)
    BY <1>0, <1>10, DiesKeepsTypes DEF NotRecognisedThrows, PictureMissing, database
<1>7. CASE FaceRecognised(r)
    <2>1. g.pc # "idle"
        BY <1>7 DEF FaceRecognised
    <2> DEFINE h == [g EXCEPT !.pc = "set_user"]
    <2>2. h \in RecStates /\ h.pc = "set_user" /\ h.name = g.name
        BY <1>1, <2>1, RecFields, RecMoves
    <2>3. rec' \in [RecSlots -> RecStates] /\ rec' = [rec EXCEPT ![r] = h]
        BY <1>1, <1>7, <2>2 DEF FaceRecognised
    <2>4. g.name \in Renters
        BY <1>1, <1>7, <2>1, RecFields DEF FaceRecognised, IsNobody, Nobody, Renters
    <2>5. pending' \in [RecSlots -> SUBSET Operations]
        <3>1. List(rec[r].scooter) \in Operations
            BY <1>1, <2>1, RecFields, OperationShapes
        <3> QED BY <1>0, <1>7, <3>1 DEF FaceRecognised
    <2> QED BY <1>1, <1>7, <2>2, <2>3, <2>4, <2>5
            DEF FaceRecognised, FlagAfterRecognition, TypeOK, NamesAreRenters, database, files
<1>8. CASE SetScooterUser(r)
    <2>1. g.pc # "idle" /\ g.name \in Renters
        BY <1>8 DEF SetScooterUser, NamesAreRenters
    <2> DEFINE h == [g EXCEPT !.pc = "set_time"]
    <2>2. h \in RecStates /\ h.pc = "set_time" /\ h.name = g.name
        BY <1>1, <2>1, RecFields, RecMoves
    <2>3. rec' \in [RecSlots -> RecStates] /\ rec' = [rec EXCEPT ![r] = h]
        BY <1>1, <1>8, <2>2 DEF SetScooterUser
    <2>4. scooter_user' \in [Scooters -> Renters]
        BY <1>1, <1>8, <2>1 DEF SetScooterUser, TypeOK
    <2> QED BY <1>1, <1>8, <2>1, <2>2, <2>3, <2>4
            DEF SetScooterUser, TypeOK, NamesAreRenters, memory, files
<1>9. ASSUME TimeRecorded(r) PROVE user_time' \in [Users -> 0..MaxTime]
    BY <1>9, BoundsAssumption DEF TimeRecorded, TypeOK
<1>11. CASE SetUserTime(r)
    <2>1. rec' \in [RecSlots -> RecStates] /\ rec' = [rec EXCEPT ![r] = IdleRec]
        BY <1>1, <1>11, RecShapes DEF SetUserTime
    <2>2. upscaled' \in [Scooters -> BOOLEAN] /\ user_time' \in [Users -> 0..MaxTime]
        BY <1>9, <1>11 DEF SetUserTime, PictureDeleted, TypeOK
    <2>3. TypeOK'
        BY <1>11, <2>1, <2>2 DEF SetUserTime, TypeOK, memory
    <2>4. NamesAreRenters'
        BY <2>1 DEF NamesAreRenters, IdleRec
    <2> QED BY <2>3, <2>4
<1>12. CASE SetUserTimeThrows(r)
    BY <1>0, <1>9, <1>12, DiesKeepsTypes DEF SetUserTimeThrows, PictureMissing
<1>13. CASE DiskStep(r)
    <2>1. PICK o \in pending[r] :
              WriteImage(r, o) \/ WriteFails(r, o) \/ ListImages(r, o) \/ UnlinkImage(r, o)
        BY <1>13 DEF DiskStep
    <2>2. o.scooter \in Scooters /\ (o.op \in {"write", "unlink"} => o.image \in Users)
        BY <1>0, OperationFields
    <2>3. folder' \in [Scooters -> SUBSET Users]
        BY <2>1, <2>2 DEF WriteImage, WriteFails, ListImages, UnlinkImage, TypeOK
    <2>4. {Unlink(o.scooter, u) : u \in folder[o.scooter]} \in SUBSET Operations
        BY <2>2, OperationShapes DEF TypeOK
    <2>5. pending' \in [RecSlots -> SUBSET Operations]
        BY <1>0, <2>1, <2>4 DEF WriteImage, WriteFails, ListImages, UnlinkImage, Ends
    <2> QED BY <1>13, <2>3, <2>5 DEF DiskStep, TypeOK, NamesAreRenters, database, memory
<1> QED BY <1>2, <1>3, <1>4, <1>5, <1>6, <1>7, <1>8, <1>10, <1>11, <1>12, <1>13 DEF RecStep

(* Steps of /free_scooter keep every type.                                 *)
LEMMA FreeKeepsTypes ==
    ASSUME TypeOK, NEW f \in FreeSlots,
           \/ \E u \in Users, s \in Scooters : FreeReadTime(f, u, s)
           \/ FreeStep(f)
           \/ FreeFails(f)
    PROVE  TypeOK'
<1> DEFINE g == free[f]
<1>1. g \in FreeStates /\ free \in [FreeSlots -> FreeStates]
    BY DEF TypeOK
<1>2. ASSUME NEW u \in Users, NEW s \in Scooters, FreeReadTime(f, u, s) PROVE TypeOK'
    <2>1. user_time[u] \in 0..MaxTime
        BY DEF TypeOK
    <2>2. free' \in [FreeSlots -> FreeStates]
        BY <1>1, <1>2, <2>1, FreeShapes DEF FreeReadTime
    <2> QED BY <1>2, <2>2 DEF FreeReadTime, TypeOK, database, memory, files, recs
<1>3. CASE FreeSetNone(f)
    <2>1. g \in BusyFrees
        BY <1>1, <1>3, FreeFields DEF FreeSetNone
    <2>2. [g EXCEPT !.pc = "clear_time"] \in FreeStates
        BY <2>1 DEF FreeStates, BusyFrees
    <2>3. free' \in [FreeSlots -> FreeStates]
        BY <1>1, <1>3, <2>2 DEF FreeSetNone
    <2>4. scooter_user' \in [Scooters -> Renters]
        BY <1>3 DEF FreeSetNone, TypeOK, Renters
    <2> QED BY <1>3, <2>3, <2>4 DEF FreeSetNone, TypeOK, memory, files, recs
<1>4. CASE FreeClearTime(f)
    <2>1. g.user \in Users /\ g.time \in 0..MaxTime
        BY <1>1, <1>4, FreeFields DEF FreeClearTime, BusyFrees
    <2>2. Elapsed(g.time) \in Int
        <3>1. now \in Int
            BY BoundsAssumption DEF TypeOK
        <3>2. g.time \in Int
            BY <2>1
        <3> QED BY <3>1, <3>2 DEF Elapsed
    <2>3. free' \in [FreeSlots -> FreeStates]
        BY <1>1, <1>4, <2>1, <2>2, FreeShapes DEF FreeClearTime
    <2>4. user_time' \in [Users -> 0..MaxTime]
        <3>1. 0 \in 0..MaxTime
            BY BoundsAssumption
        <3> QED BY <1>4, <3>1 DEF FreeClearTime, TypeOK
    <2> QED BY <1>4, <2>3, <2>4 DEF FreeClearTime, TypeOK, memory, files, recs
<1>5. CASE FreeResponse(f)
    <2>1. free' \in [FreeSlots -> FreeStates]
        BY <1>1, <1>5, FreeShapes DEF FreeResponse
    <2> QED BY <1>5, <2>1 DEF FreeResponse, TypeOK, database, memory, files, recs
<1>6. CASE FreeFails(f)
    <2>1. g.user \in Users
        BY <1>1, <1>6, FreeFields DEF FreeFails, BusyFrees
    <2>2. free' \in [FreeSlots -> FreeStates]
        BY <1>1, <1>6, <2>1, FreeShapes DEF FreeFails
    <2> QED BY <1>6, <2>2 DEF FreeFails, TypeOK, database, memory, files, recs
<1> QED BY <1>2, <1>3, <1>4, <1>5, <1>6 DEF FreeStep

(* So do moves of users, restarts and the clock.                           *)
LEMMA OtherStepsKeepTypes ==
    ASSUME TypeOK,
           \/ \E u \in Users, p \in Positions : UpdateUserLocation(u, p)
           \/ StartupStep
           \/ Kill
           \/ Restart
           \/ Tick
    PROVE  TypeOK'
<1>1. ASSUME NEW u \in Users, NEW p \in Positions, UpdateUserLocation(u, p) PROVE TypeOK'
    <2>1. user_pos' \in [Users -> Positions]
        BY <1>1 DEF UpdateUserLocation, TypeOK
    <2> QED BY <1>1, <2>1 DEF UpdateUserLocation, ScooterUsersAfterMove, TypeOK, files, recs
<1>2. CASE InitReadScooters
    <2>1. startup' \in StartupStates
        BY <1>2 DEF InitReadScooters, StartupStates, TypeOK
    <2> QED BY <1>2, <2>1 DEF InitReadScooters, TypeOK, database, files, recs
<1>3. CASE InitReadUsers
    <2>1. [s \in Scooters |-> Within(user_pos, startup.pos[s], 10)] \in [Scooters -> SUBSET Users]
        BY WithinUsers
    <2>2. startup' \in StartupStates
        BY <1>3, <2>1 DEF InitReadUsers, StartupStates
    <2> QED BY <1>3, <2>2 DEF InitReadUsers, TypeOK, database, files, recs
<1>4. CASE InitiateScooterUsers
    <2>1. startup.close \in [Scooters -> SUBSET Users] /\ startup' \in StartupStates
        BY <1>4 DEF InitiateScooterUsers, StartupStates, TypeOK
    <2>2. scooter_users' \in [Scooters -> {Undefined} \cup SUBSET Users]
        BY <1>4, <2>1 DEF InitiateScooterUsers
    <2>3. ever_close' \in [Scooters -> SUBSET Users]
        BY <1>4, <2>1 DEF InitiateScooterUsers, TypeOK
    <2> QED BY <1>4, <2>1, <2>2, <2>3 DEF InitiateScooterUsers, TypeOK, database, files, recs
<1>5. CASE Restart
    BY <1>5 DEF Restart, TypeOK, database, memory, files, recs
<1>6. CASE Tick
    <2>1. now' \in 1..MaxTime
        BY <1>6, BoundsAssumption DEF Tick, TypeOK
    <2> QED BY <1>6, <2>1 DEF Tick, TypeOK, database, memory, files, recs
<1>7. CASE Kill
    <2>1. user_time \in [Users -> 0..MaxTime] /\ restarts' \in 0..MaxRestarts
        BY <1>7, BoundsAssumption DEF Kill, TypeOK
    <2> QED BY <1>7, <2>1, DiesKeepsTypes DEF Kill, database, files
<1> QED BY <1>1, <1>2, <1>3, <1>4, <1>5, <1>6, <1>7 DEF StartupStep

-----------------------------------------------------------------------------
(* The parts of the invariant about the flag and about names.              *)
Core == FlagHasARecognition /\ NamesWereClose /\ NamesAreRenters /\ RenterWasClose

LEMMA InitCore == Init => Core
<1> SUFFICES ASSUME Init PROVE Core
    OBVIOUS
<1>1. \A r \in RecSlots : rec[r].pc = "idle" /\ pending[r] = {}
    BY DEF Init, IdleRec
<1>2. NamesWereClose
    BY <1>1 DEF Init, NamesWereClose
<1>3. RenterWasClose
    BY UsersAssumption DEF Init, RenterWasClose
<1>4. FlagHasARecognition /\ NamesAreRenters
    BY <1>1 DEF Init, FlagHasARecognition, NamesAreRenters
<1> QED BY <1>2, <1>3, <1>4 DEF Core

(* Lists only grow ever_close, so a step that leaves scooters' renters,    *)
(* images and recognitions alone keeps the names covered.                  *)
LEMMA CloseListsKeepCore ==
    ASSUME TypeOK, Core,
           UNCHANGED <<scooter_user, folder, recs, faceRec_inProg>>,
           \A s \in Scooters :
              /\ ever_close[s] \subseteq ever_close'[s]
              /\ scooter_users'[s] # Undefined => scooter_users'[s] \subseteq ever_close'[s]
    PROVE  Core'
<1>1. FlagHasARecognition' /\ NamesAreRenters' /\ RenterWasClose'
    BY DEF Core, FlagHasARecognition, NamesAreRenters, RenterWasClose, recs
<1>2. \A r \in RecSlots :
          /\ rec[r].pc # "idle" => rec[r].scooter \in Scooters
          /\ \A o \in pending[r] : o.scooter \in Scooters
    BY RecFields, OperationFields DEF TypeOK
<1>3. NamesWereClose'
    BY <1>2 DEF Core, NamesWereClose, recs
<1> QED BY <1>1, <1>3 DEF Core

(* A process that ends leaves renters, images and what is known of them.   *)
LEMMA DiesKeepsCore ==
    ASSUME Core, Dies, UNCHANGED <<scooter_user, folder, ever_close>>
    PROVE  Core'
<1>1. \A r \in RecSlots : rec'[r].pc = "idle" /\ pending'[r] = {}
    BY DEF Dies, IdleRec
<1>2. NamesWereClose' /\ NamesAreRenters'
    BY <1>1 DEF Dies, Core, NamesWereClose, NamesAreRenters
<1>3. FlagHasARecognition' /\ RenterWasClose'
    BY DEF Dies, Core, FlagHasARecognition, RenterWasClose
<1> QED BY <1>2, <1>3 DEF Core

LEMMA GpsKeepsCore ==
    ASSUME TypeOK, Core, NEW h \in GpsSlots,
           \/ \E s \in Scooters, valid \in BOOLEAN, p \in Positions : GpsReadUsers(h, s, valid, p)
           \/ GpsStep(h)
           \/ GpsFails(h)
    PROVE  Core'
<1>1. CASE GpsAnswer(h)
    <2>1. gps[h].scooter \in Scooters
        BY <1>1, GpsFields DEF GpsAnswer, TypeOK
    <2>2. \A s \in Scooters :
              /\ ever_close[s] \subseteq ever_close'[s]
              /\ scooter_users'[s] # Undefined => scooter_users'[s] \subseteq ever_close'[s]
        BY <1>1, <2>1 DEF GpsAnswer, TypeOK, Core, NamesWereClose
    <2> QED BY <1>1, <2>2, CloseListsKeepCore DEF GpsAnswer, database, files
<1>2. CASE ~GpsAnswer(h)
    <2>1. UNCHANGED <<scooter_user, folder, recs, faceRec_inProg, scooter_users, ever_close>>
        BY <1>2 DEF GpsStep, GpsReadUsers, GpsSetLocation, GpsReadScooter, GpsResponse,
                    GpsFails, database, memory, files
    <2> QED BY <2>1, CloseListsKeepCore DEF Core, NamesWereClose
<1> QED BY <1>1, <1>2

(* Images and names come from lists that were covered already; the end of  *)
(* a recognition takes the flag down, its start leaves a recognition up.   *)
LEMMA RecKeepsCore ==
    ASSUME TypeOK, Core, NEW r \in RecSlots,
           \/ \E s \in Scooters : CheckFace(r, s)
           \/ RecStep(r)
           \/ RecFails(r)
    PROVE  Core'
<1> DEFINE g == rec[r]
<1>1. g \in RecStates /\ rec \in [RecSlots -> RecStates]
          /\ (g.pc # "idle" => g \in BusyRecs /\ g.scooter \in Scooters)
    BY RecFields DEF TypeOK
<1>2. NamesAreRenters'
    BY RecKeepsTypes DEF Core
<1>3. CASE \/ StartRecognitionThrows(r) \/ RecFails(r) \/ NotRecognisedThrows(r)
          \/ SetUserTimeThrows(r) \/ DiskThrows(r)
    BY <1>3, DiesKeepsCore
    DEF StartRecognitionThrows, RecFails, NotRecognisedThrows, SetUserTimeThrows, DiskThrows,
        database, files
<1>4. ASSUME NEW s \in Scooters, CheckFace(r, s) PROVE Core'
    <2> DEFINE x == [pc |-> "read_users", scooter |-> s, close |-> scooter_users[s], name |-> ""]
    <2>1. rec' = [rec EXCEPT ![r] = x] /\ g.pc = "idle"
        BY <1>4 DEF CheckFace
    <2> HIDE DEF x
    <2>2. /\ x.pc = "read_users" /\ x.scooter = s
          /\ x.close # Undefined => x.close \subseteq ever_close[s]
        BY DEF x, Core, NamesWereClose
    <2>3. UNCHANGED <<folder, pending, ever_close, scooter_users>>
        BY <1>4 DEF CheckFace, memory
    <2>4. NamesWereClose'
        BY <1>1, <2>1, <2>2, <2>3 DEF Core, NamesWereClose
    <2>5. FlagHasARecognition' /\ RenterWasClose'
        BY <1>1, <1>4, <2>1
        DEF CheckFace, Core, FlagHasARecognition, RenterWasClose, database, memory
    <2> QED BY <1>2, <2>4, <2>5 DEF Core
<1>5. CASE StartRecognition(r)
    <2> DEFINE x == [g EXCEPT !.pc = "recognising", !.close = {}]
    <2>1. x.pc = "recognising" /\ x.scooter = g.scooter
        BY <1>1, <1>5, RecStarts DEF StartRecognition
    <2>2. rec' = [rec EXCEPT ![r] = x]
        BY <1>5 DEF StartRecognition
    <2>3. g.close \subseteq ever_close[g.scooter]
        BY <1>5 DEF StartRecognition, Core, NamesWereClose
    <2>4. /\ UNCHANGED <<folder, ever_close, scooter_users>>
          /\ pending' = [pending EXCEPT ![r] = {Write(g.scooter, u) : u \in g.close}]
        BY <1>5 DEF StartRecognition, ImagesOf, files
    <2>5. \A q \in RecSlots : \A o \in pending'[q] :
             o.op = "write" => o.image \in ever_close[o.scooter]
        <3>1. \A u \in g.close : /\ Write(g.scooter, u).image = u
                                  /\ Write(g.scooter, u).scooter = g.scooter
            BY DEF Write
        <3>2. \A q \in RecSlots : pending'[q] = IF q = r THEN {Write(g.scooter, u) : u \in g.close}
                                                ELSE pending[q]
            BY <2>4 DEF TypeOK
        <3>3. ASSUME NEW o \in {Write(g.scooter, u) : u \in g.close}
              PROVE  o.image \in ever_close[o.scooter]
            <4>1. PICK u \in g.close : o = Write(g.scooter, u)
                OBVIOUS
            <4> QED BY <2>3, <3>1, <4>1
        <3>4. \A q \in RecSlots : \A o \in pending[q] :
                 o.op = "write" => o.image \in ever_close[o.scooter]
            BY DEF Core, NamesWereClose
        <3> QED BY <3>2, <3>3, <3>4
    <2>6. NamesWereClose'
        BY <1>1, <2>1, <2>2, <2>4, <2>5 DEF Core, NamesWereClose
    <2>7. FlagHasARecognition'
        BY <1>1, <2>1, <2>2 DEF FlagHasARecognition
    <2>8. RenterWasClose'
        BY <1>5 DEF StartRecognition, Core, RenterWasClose, database
    <2> QED BY <1>2, <2>6, <2>7, <2>8 DEF Core
<1>7. ASSUME NEW name \in Users \cup Nobody \cup {""}, RunRecognition(r, name) PROVE Core'
    <2> DEFINE x == [g EXCEPT !.pc = "recognised", !.name = name]
    <2>1. x.pc = "recognised" /\ x.name = name /\ x.scooter = g.scooter
        BY <1>1, <1>7, RecEnds DEF RunRecognition
    <2>2. rec' = [rec EXCEPT ![r] = x] /\ g.pc = "recognising"
        BY <1>7 DEF RunRecognition
    <2>3. name \in Users => name \in ever_close[g.scooter]
        <3>1. name \in Users => name \in folder[g.scooter]
            BY <1>7, UsersAssumption DEF RunRecognition, Recognised, Nobody
        <3> QED BY <1>1, <2>2, <3>1 DEF Core, NamesWereClose
    <2>4. NamesWereClose'
        BY <1>1, <1>7, <2>1, <2>2, <2>3
        DEF RunRecognition, Core, NamesWereClose, files, memory
    <2>5. FlagHasARecognition' /\ RenterWasClose'
        BY <1>1, <1>7, <2>1, <2>2
        DEF RunRecognition, Core, FlagHasARecognition, RenterWasClose, database, memory
    <2> QED BY <1>2, <2>4, <2>5 DEF Core
<1>6. ASSUME pending' = [pending EXCEPT ![r] = @ \cup {List(g.scooter)}]
      PROVE  \A q \in RecSlots : \A o \in pending'[q] : o.op = "write" => o \in pending[q]
    BY <1>6 DEF TypeOK, List
<1>8. CASE FaceNotRecognised(r)
    <2>1. rec' = [rec EXCEPT ![r] = IdleRec] /\ g.pc = "recognised"
        BY <1>8 DEF FaceNotRecognised
    <2>2. \A q \in RecSlots : \A o \in pending'[q] : o.op = "write" => o \in pending[q]
        BY <1>6, <1>8 DEF FaceNotRecognised
    <2>3. UNCHANGED <<folder, ever_close, scooter_users>>
        BY <1>8 DEF FaceNotRecognised
    <2>4. NamesWereClose'
        BY <1>1, <2>1, <2>2, <2>3 DEF Core, NamesWereClose, IdleRec
    <2>5. FlagHasARecognition' /\ RenterWasClose'
        BY <1>8
        DEF FaceNotRecognised, FlagAfterRecognition, RenterStays, Core, FlagHasARecognition,
            RenterWasClose
    <2> QED BY <1>2, <2>4, <2>5 DEF Core
<1>9. CASE FaceRecognised(r)
    <2> DEFINE x == [g EXCEPT !.pc = "set_user"]
    <2>1. x.pc = "set_user" /\ x.name = g.name /\ x.scooter = g.scooter
        BY <1>1, <1>9, RecMoves DEF FaceRecognised
    <2>2. rec' = [rec EXCEPT ![r] = x] /\ g.pc = "recognised"
        BY <1>9 DEF FaceRecognised
    <2>3. \A q \in RecSlots : \A o \in pending'[q] : o.op = "write" => o \in pending[q]
        BY <1>6, <1>9 DEF FaceRecognised
    <2>4. UNCHANGED <<folder, ever_close, scooter_users>>
        BY <1>9 DEF FaceRecognised, files
    <2>5. NamesWereClose'
        BY <1>1, <2>1, <2>2, <2>3, <2>4 DEF Core, NamesWereClose
    <2>6. FlagHasARecognition' /\ RenterWasClose'
        BY <1>9
        DEF FaceRecognised, FlagAfterRecognition, Core, FlagHasARecognition, RenterWasClose,
            database
    <2> QED BY <1>2, <2>5, <2>6 DEF Core
<1>10. CASE SetScooterUser(r)
    <2> DEFINE x == [g EXCEPT !.pc = "set_time"]
    <2>1. x.pc = "set_time" /\ x.name = g.name /\ x.scooter = g.scooter
        BY <1>1, <1>10, RecMoves DEF SetScooterUser
    <2>2. rec' = [rec EXCEPT ![r] = x] /\ g.pc = "set_user"
        BY <1>10 DEF SetScooterUser
    <2>3. UNCHANGED <<folder, pending, ever_close, scooter_users>>
        BY <1>10 DEF SetScooterUser, files, memory
    <2>4. NamesWereClose'
        BY <1>1, <2>1, <2>2, <2>3 DEF Core, NamesWereClose
    <2>5. FlagHasARecognition'
        BY <1>1, <1>10, <2>1, <2>2 DEF SetScooterUser, Core, FlagHasARecognition, memory
    <2>6. RenterWasClose'
        BY <1>1, <1>10, <2>2, <2>3
        DEF SetScooterUser, Core, NamesWereClose, RenterWasClose, TypeOK
    <2> QED BY <1>2, <2>4, <2>5, <2>6 DEF Core
<1>11. CASE SetUserTime(r)
    <2>1. rec' = [rec EXCEPT ![r] = IdleRec] /\ g.pc = "set_time"
        BY <1>11 DEF SetUserTime
    <2>2. NamesWereClose'
        BY <1>1, <1>11, <2>1 DEF SetUserTime, Core, NamesWereClose, IdleRec, memory
    <2>3. FlagHasARecognition' /\ RenterWasClose'
        BY <1>1, <1>11, <2>1
        DEF SetUserTime, Core, FlagHasARecognition, RenterWasClose, IdleRec, memory
    <2> QED BY <1>2, <2>2, <2>3 DEF Core
<1>12. CASE DiskStep(r)
    <2>1. PICK o \in pending[r] :
              WriteImage(r, o) \/ WriteFails(r, o) \/ ListImages(r, o) \/ UnlinkImage(r, o)
        BY <1>12 DEF DiskStep
    <2>2. o \in Operations
        BY DEF TypeOK
    <2>3. \A s \in Scooters : folder'[s] \subseteq ever_close[s]
        BY <2>1, <2>2, OperationFields
        DEF WriteImage, WriteFails, ListImages, UnlinkImage, Core, NamesWereClose, TypeOK
    <2>4. \A q \in RecSlots : \A x \in pending'[q] : x.op = "write" => x \in pending[q]
        BY <2>1 DEF WriteImage, WriteFails, ListImages, UnlinkImage, Ends, Unlink, TypeOK
    <2>5. UNCHANGED <<rec, ever_close, scooter_users, scooter_user, faceRec_inProg>>
        BY <1>12 DEF DiskStep, memory, database
    <2>6. NamesWereClose'
        BY <2>3, <2>4, <2>5 DEF Core, NamesWereClose
    <2>7. FlagHasARecognition' /\ RenterWasClose'
        BY <2>5 DEF Core, FlagHasARecognition, RenterWasClose
    <2> QED BY <1>2, <2>6, <2>7 DEF Core
<1> QED BY <1>3, <1>4, <1>5, <1>7, <1>8, <1>9, <1>10, <1>11, <1>12 DEF RecStep

LEMMA FreeKeepsCore ==
    ASSUME TypeOK, Core, NEW f \in FreeSlots,
           \/ \E u \in Users, s \in Scooters : FreeReadTime(f, u, s)
           \/ FreeStep(f)
           \/ FreeFails(f)
    PROVE  Core'
<1>1. UNCHANGED <<folder, recs, faceRec_inProg, scooter_users, ever_close>>
    BY DEF FreeStep, FreeReadTime, FreeSetNone, FreeClearTime, FreeResponse, FreeFails,
           memory, files
<1>2. \A s \in Scooters : scooter_user'[s] \in {scooter_user[s], "_none"}
    BY DEF FreeStep, FreeReadTime, FreeSetNone, FreeClearTime, FreeResponse, FreeFails,
           database, TypeOK
<1>3. RenterWasClose'
    BY <1>1, <1>2, UsersAssumption DEF Core, RenterWasClose
<1>4. FlagHasARecognition' /\ NamesWereClose' /\ NamesAreRenters'
    BY <1>1 DEF Core, FlagHasARecognition, NamesWereClose, NamesAreRenters, recs
<1> QED BY <1>3, <1>4 DEF Core

LEMMA OtherStepsKeepCore ==
    ASSUME TypeOK, Core,
           \/ \E u \in Users, p \in Positions : UpdateUserLocation(u, p)
           \/ StartupStep
           \/ Kill
           \/ Restart
           \/ Tick
    PROVE  Core'
<1>1. CASE \/ \E u \in Users, p \in Positions : UpdateUserLocation(u, p)
          \/ Tick \/ InitReadScooters \/ InitReadUsers \/ Restart
    <2>1. UNCHANGED <<scooter_user, folder, recs, faceRec_inProg, scooter_users, ever_close>>
        BY <1>1 DEF UpdateUserLocation, ScooterUsersAfterMove, Tick, InitReadScooters,
                    InitReadUsers, Restart, database, memory, files
    <2> QED BY <2>1, CloseListsKeepCore DEF Core, NamesWereClose
<1>2. CASE InitiateScooterUsers
    <2>1. \A s \in Scooters :
              /\ ever_close[s] \subseteq ever_close'[s]
              /\ scooter_users'[s] # Undefined => scooter_users'[s] \subseteq ever_close'[s]
        BY <1>2 DEF InitiateScooterUsers, StartupStates, TypeOK
    <2> QED BY <1>2, <2>1, CloseListsKeepCore DEF InitiateScooterUsers, database, files
<1>3. CASE Kill
    BY <1>3, DiesKeepsCore DEF Kill, database, files
<1> QED BY <1>1, <1>2, <1>3 DEF StartupStep

-----------------------------------------------------------------------------
IInv == TypeOK /\ Core

LEMMA NextPreservesIInv == IInv /\ [Next]_vars => IInv'
<1> SUFFICES ASSUME IInv, [Next]_vars PROVE IInv'
    OBVIOUS
<1>0. TypeOK /\ Core /\ NamesAreRenters
    BY DEF IInv, Core
<1>1. ASSUME NEW h \in GpsSlots,
             \/ \E s \in Scooters, valid \in BOOLEAN, p \in Positions : GpsReadUsers(h, s, valid, p)
             \/ GpsStep(h)
             \/ GpsFails(h)
      PROVE  IInv'
    BY <1>0, <1>1, GpsKeepsTypes, GpsKeepsCore DEF IInv, GpsStep
<1>2. ASSUME NEW r \in RecSlots,
             (\E s \in Scooters : CheckFace(r, s)) \/ RecStep(r) \/ RecFails(r)
      PROVE  IInv'
    BY <1>0, <1>2, RecKeepsTypes, RecKeepsCore DEF IInv
<1>3. ASSUME NEW f \in FreeSlots,
             \/ \E u \in Users, s \in Scooters : FreeReadTime(f, u, s)
             \/ FreeStep(f)
             \/ FreeFails(f)
      PROVE  IInv'
    BY <1>0, <1>3, FreeKeepsTypes, FreeKeepsCore DEF IInv
<1>4. ASSUME \/ \E u \in Users, p \in Positions : UpdateUserLocation(u, p)
             \/ StartupStep
             \/ Kill
             \/ Restart
             \/ Tick
      PROVE  IInv'
    BY <1>0, <1>4, OtherStepsKeepTypes, OtherStepsKeepCore DEF IInv
<1>5. CASE UNCHANGED vars
    BY <1>5 DEF vars, database, memory, files, recs, IInv, Core, TypeOK, FlagHasARecognition,
                NamesWereClose, NamesAreRenters, RenterWasClose
<1> QED BY <1>1, <1>2, <1>3, <1>4, <1>5 DEF Next, ServerStep, Request

LEMMA SpecImpliesIInv == Spec => []IInv
<1>1. Init => IInv
    BY InitTypes, InitCore DEF IInv
<1> QED BY <1>1, NextPreservesIInv, PTL DEF Spec

(* Every document, global, file and handler keeps its shape.               *)
THEOREM TypeCorrect == Spec => []TypeOK
<1>1. IInv => TypeOK
    BY DEF IInv
<1> QED BY <1>1, SpecImpliesIInv, PTL

(* The flag that locks every scooter is never left up without a            *)
(* recognition whose end takes it down.                                    *)
THEOREM FlagIsOwned == Spec => []FlagHasARecognition
<1>1. IInv => FlagHasARecognition
    BY DEF IInv, Core
<1> QED BY <1>1, SpecImpliesIInv, PTL

(* Nobody is recorded as the renter of a scooter they were never close to. *)
THEOREM RentersWereClose == Spec => []RenterWasClose
<1>1. IInv => RenterWasClose
    BY DEF IInv, Core
<1> QED BY <1>1, SpecImpliesIInv, PTL
-----------------------------------------------------------------------------
(* A step that changes no renter and only takes names and requests away    *)
(* drops them, or stutters.                                                *)
LEMMA LessIsDropped ==
    ASSUME UNCHANGED <<scooter_user, ever_close>>,
           \A r \in RecSlots : Named(r)' \in {Named(r), {}},
           \A f \in FreeSlots : Asked(f)' \in {Asked(f), {}}
    PROVE  Rentals!Next
<1> DEFINE names == {r \in RecSlots : Named(r)' # Named(r)}
           requests == {f \in FreeSlots : Asked(f)' # Asked(f)}
<1>1. [r \in RecSlots |-> Named(r)'] = [r \in RecSlots |-> IF r \in names THEN {} ELSE Named(r)]
    OBVIOUS
<1>2. [f \in FreeSlots |-> Asked(f)']
        = [f \in FreeSlots |-> IF f \in requests THEN {} ELSE Asked(f)]
    OBVIOUS
<1>3. names \in SUBSET RecSlots /\ requests \in SUBSET FreeSlots
    OBVIOUS
<1>4. Rentals!Drop
    BY <1>1, <1>2, <1>3 DEF Rentals!Drop
<1> QED BY <1>4 DEF Rentals!Next

(* Steps that neither record a renter nor begin a name or a request.       *)
LEMMA QuietSteps ==
    ASSUME TypeOK, [Next]_vars,
           \A h \in GpsSlots : ~GpsAnswer(h),
           \A r \in RecSlots : ~FaceRecognised(r) /\ ~SetScooterUser(r),
           \A f \in FreeSlots :
              ~FreeSetNone(f) /\ \A u \in Users, s \in Scooters : ~FreeReadTime(f, u, s),
           ~InitiateScooterUsers
    PROVE  Rentals!Next
<1>1. ASSUME UNCHANGED <<scooter_user, ever_close, rec, free>> PROVE Rentals!Next
    BY <1>1, LessIsDropped DEF Named, Asked
<1>2. ASSUME UNCHANGED <<scooter_user, ever_close>>, Dies PROVE Rentals!Next
    <2>1. \A r \in RecSlots : Named(r)' = {}
        BY <1>2 DEF Dies, Named, IdleRec
    <2>2. \A f \in FreeSlots : Asked(f)' = {}
        BY <1>2 DEF Dies, Asked, IdleFree
    <2> QED BY <1>2, <2>1, <2>2, LessIsDropped
<1>3. CASE UNCHANGED vars
    BY <1>1, <1>3 DEF vars, database, recs
<1>4. ASSUME NEW h \in GpsSlots,
             \/ \E s \in Scooters, valid \in BOOLEAN, p \in Positions : GpsReadUsers(h, s, valid, p)
             \/ GpsStep(h)
             \/ GpsFails(h)
      PROVE  Rentals!Next
    BY <1>1, <1>4 DEF GpsReadUsers, GpsStep, GpsSetLocation, GpsReadScooter, GpsFails,
                      GpsResponse, database, recs
<1>5. ASSUME NEW r \in RecSlots,
             (\E s \in Scooters : CheckFace(r, s)) \/ RecStep(r) \/ RecFails(r)
      PROVE  Rentals!Next
    <2>1. CASE \/ StartRecognitionThrows(r) \/ RecFails(r) \/ NotRecognisedThrows(r)
               \/ SetUserTimeThrows(r) \/ DiskThrows(r)
        BY <1>2, <2>1 DEF StartRecognitionThrows, RecFails, NotRecognisedThrows,
                          SetUserTimeThrows, DiskThrows, database
    <2>2. CASE DiskStep(r)
        BY <1>1, <2>2 DEF DiskStep, database
    <2>3. ASSUME NEW x, rec' = [rec EXCEPT ![r] = x], x.pc # "set_user",
                 UNCHANGED <<scooter_user, ever_close, free>>
          PROVE  Rentals!Next
        <3>1. \A q \in RecSlots : Named(q)' \in {Named(q), {}}
            BY <2>3 DEF Named, TypeOK
        <3> QED BY <2>3, <3>1, LessIsDropped DEF Asked
    <2>4. rec[r] \in RecStates
        BY DEF TypeOK
    <2>5. CASE \E s \in Scooters : CheckFace(r, s)
        BY <2>3, <2>5 DEF CheckFace, database
    <2>6. CASE StartRecognition(r)
        <3>1. rec[r] \in BusyRecs
            BY <2>4, <2>6, RecFields DEF StartRecognition
        <3> DEFINE x == [rec[r] EXCEPT !.pc = "recognising", !.close = {}]
        <3>2. x.pc = "recognising" /\ rec' = [rec EXCEPT ![r] = x]
            BY <2>6, <3>1, RecStarts DEF StartRecognition
        <3> QED BY <2>3, <2>6, <3>2 DEF StartRecognition, database
    <2>7. ASSUME NEW name \in Users \cup Nobody \cup {""}, RunRecognition(r, name)
          PROVE  Rentals!Next
        <3>1. rec[r] \in BusyRecs
            BY <2>4, <2>7, RecFields DEF RunRecognition
        <3> DEFINE x == [rec[r] EXCEPT !.pc = "recognised", !.name = name]
        <3>2. x.pc = "recognised" /\ rec' = [rec EXCEPT ![r] = x]
            BY <2>7, <3>1, RecEnds DEF RunRecognition
        <3> QED BY <2>3, <2>7, <3>2 DEF RunRecognition, database
    <2>8. CASE FaceNotRecognised(r) \/ SetUserTime(r)
        BY <2>3, <2>8 DEF FaceNotRecognised, RenterStays, SetUserTime, IdleRec
    <2> QED BY <1>5, <2>1, <2>2, <2>5, <2>6, <2>7, <2>8 DEF RecStep
<1>6. ASSUME NEW f \in FreeSlots, FreeStep(f) \/ FreeFails(f)
      PROVE  Rentals!Next
    <2>1. /\ UNCHANGED <<scooter_user, ever_close, rec>>
          /\ \E x : free' = [free EXCEPT ![f] = x] /\ x.pc # "set_none"
        BY <1>6 DEF FreeStep, FreeClearTime, FreeFails, FreeResponse, database, recs, IdleFree
    <2>2. \A e \in FreeSlots : Asked(e)' \in {Asked(e), {}}
        BY <2>1 DEF Asked, TypeOK
    <2> QED BY <2>1, <2>2, LessIsDropped DEF Named
<1>7. ASSUME \/ \E u \in Users, p \in Positions : UpdateUserLocation(u, p)
             \/ StartupStep
             \/ Restart
             \/ Tick
      PROVE  Rentals!Next
    BY <1>1, <1>7 DEF UpdateUserLocation, StartupStep, InitReadScooters, InitReadUsers,
                      Restart, Tick, database, recs
<1>8. CASE Kill
    BY <1>2, <1>8 DEF Kill, database
<1> QED BY <1>3, <1>4, <1>5, <1>6, <1>7, <1>8 DEF Next, ServerStep, Request

LEMMA StepsAreRentals ==
    ASSUME IInv, [Next]_vars
    PROVE  [Rentals!Next]_(Rentals!rentals)
<1>0. TypeOK /\ TypeOK' /\ NamesWereClose /\ NamesWereClose' /\ NamesAreRenters'
    BY NextPreservesIInv DEF IInv, Core
<1>1. ASSUME UNCHANGED <<scooter_user, rec, free>>,
             \A s \in Scooters : ever_close[s] \subseteq ever_close'[s]
      PROVE  Rentals!Next
    <2>1. /\ [r \in RecSlots |-> Named(r)'] = [r \in RecSlots |-> Named(r)]
          /\ [f \in FreeSlots |-> Asked(f)'] = [f \in FreeSlots |-> Asked(f)]
        BY <1>1 DEF Named, Asked
    <2>2. Rentals!Meet
        BY <1>0, <1>1, <2>1 DEF Rentals!Meet, TypeOK
    <2> QED BY <2>2 DEF Rentals!Next
<1>2. ASSUME NEW h \in GpsSlots, GpsAnswer(h) PROVE Rentals!Next
    BY <1>0, <1>1, <1>2 DEF GpsAnswer, TypeOK, database, recs
<1>3. CASE InitiateScooterUsers
    BY <1>0, <1>1, <1>3 DEF InitiateScooterUsers, TypeOK, database, recs
<1>4. ASSUME NEW r \in RecSlots, FaceRecognised(r) PROVE Rentals!Next
    <2> DEFINE s == rec[r].scooter
               u == rec[r].name
               x == [rec[r] EXCEPT !.pc = "set_user"]
    <2>1. rec[r] \in BusyRecs /\ s \in Scooters
        BY <1>0, <1>4, RecFields DEF FaceRecognised, TypeOK
    <2>2. x.pc = "set_user" /\ x.scooter = s /\ x.name = u
        BY <2>1, RecMoves
    <2>3. rec' = [rec EXCEPT ![r] = x] /\ rec[r].pc = "recognised"
        BY <1>4 DEF FaceRecognised
    <2>4. rec'[r] = x
        BY <1>0, <2>3 DEF TypeOK
    <2>5. u \in Users \cup {""} /\ u \in ever_close[s] \cup {""}
        <3>1. u \in Renters
            BY <1>0, <2>2, <2>4 DEF NamesAreRenters
        <3>2. u # "_none"
            BY <2>1, UsersAssumption DEF BusyRecs, Nobody
        <3> QED BY <1>0, <2>3, <3>1, <3>2 DEF NamesWereClose, Renters
    <2>6. Named(r) = {} /\ Named(r)' = {<<s, u>>}
        BY <2>2, <2>3, <2>4 DEF Named
    <2>7. \A q \in RecSlots \ {r} : Named(q)' = Named(q)
        BY <1>0, <2>3 DEF Named, TypeOK
    <2>8. /\ [q \in RecSlots |-> Named(q)']
               = [[q \in RecSlots |-> Named(q)] EXCEPT ![r] = {<<s, u>>}]
          /\ [f \in FreeSlots |-> Asked(f)'] = [f \in FreeSlots |-> Asked(f)]
        BY <1>4, <2>6, <2>7 DEF FaceRecognised, Asked
    <2>9. Rentals!Name(r, s, u)
        BY <1>4, <2>5, <2>6, <2>8 DEF FaceRecognised, Rentals!Name, database
    <2> QED BY <2>1, <2>5, <2>9 DEF Rentals!Next
<1>5. ASSUME NEW r \in RecSlots, SetScooterUser(r) PROVE Rentals!Next
    <2> DEFINE s == rec[r].scooter
               u == rec[r].name
               x == [rec[r] EXCEPT !.pc = "set_time"]
    <2>1. rec[r] \in BusyRecs /\ s \in Scooters
        BY <1>0, <1>5, RecFields DEF SetScooterUser, TypeOK
    <2>2. x.pc = "set_time" /\ x.name = u
        BY <2>1, RecMoves
    <2>3. rec' = [rec EXCEPT ![r] = x] /\ rec[r].pc = "set_user"
        BY <1>5 DEF SetScooterUser
    <2>4. rec'[r] = x
        BY <1>0, <2>3 DEF TypeOK
    <2>5. u \in Users \cup {""}
        <3>1. u \in Renters
            BY <1>0, <2>2, <2>4 DEF NamesAreRenters
        <3>2. u # "_none"
            BY <2>1, UsersAssumption DEF BusyRecs, Nobody
        <3> QED BY <3>1, <3>2 DEF Renters
    <2>6. Named(r) = {<<s, u>>} /\ Named(r)' = {}
        BY <2>2, <2>3, <2>4 DEF Named
    <2>7. \A q \in RecSlots \ {r} : Named(q)' = Named(q)
        BY <1>0, <2>3 DEF Named, TypeOK
    <2>8. /\ [q \in RecSlots |-> Named(q)']
               = [[q \in RecSlots |-> Named(q)] EXCEPT ![r] = {}]
          /\ [f \in FreeSlots |-> Asked(f)'] = [f \in FreeSlots |-> Asked(f)]
        BY <1>5, <2>6, <2>7 DEF SetScooterUser, Asked
    <2>9. Rentals!Rent(r, s, u)
        BY <1>5, <2>6, <2>8 DEF SetScooterUser, Rentals!Rent
    <2> QED BY <2>1, <2>5, <2>9 DEF Rentals!Next
<1>6. ASSUME NEW f \in FreeSlots, NEW x, NEW standing, free' = [free EXCEPT ![f] = x],
             Asked(f)' = standing, UNCHANGED rec
      PROVE  /\ [r \in RecSlots |-> Named(r)'] = [r \in RecSlots |-> Named(r)]
             /\ [e \in FreeSlots |-> Asked(e)']
                  = [[e \in FreeSlots |-> Asked(e)] EXCEPT ![f] = standing]
    <2>1. \A e \in FreeSlots \ {f} : Asked(e)' = Asked(e)
        BY <1>0, <1>6 DEF Asked, TypeOK
    <2> QED BY <1>6, <2>1 DEF Named
<1>7. ASSUME NEW f \in FreeSlots, NEW u \in Users, NEW s \in Scooters, FreeReadTime(f, u, s)
      PROVE  Rentals!Next
    <2>1. Asked(f) = {} /\ Asked(f)' = {s}
        BY <1>0, <1>7 DEF FreeReadTime, Asked, TypeOK
    <2>2. Rentals!Ask(f, s)
        BY <1>6, <1>7, <2>1 DEF FreeReadTime, Rentals!Ask, database, recs
    <2> QED BY <2>2 DEF Rentals!Next
<1>8. ASSUME NEW f \in FreeSlots, FreeSetNone(f) PROVE Rentals!Next
    <2> DEFINE s == free[f].scooter
    <2>1. free[f] \in BusyFrees /\ s \in Scooters
        BY <1>0, <1>8, FreeFields DEF FreeSetNone, TypeOK, BusyFrees
    <2>2. [free[f] EXCEPT !.pc = "clear_time"].pc = "clear_time"
        BY <2>1 DEF BusyFrees
    <2>3. Asked(f) = {s} /\ Asked(f)' = {}
        BY <1>0, <1>8, <2>2 DEF FreeSetNone, Asked, TypeOK
    <2>4. Rentals!Free(f, s)
        BY <1>6, <1>8, <2>3 DEF FreeSetNone, Rentals!Free, recs
    <2> QED BY <2>1, <2>4 DEF Rentals!Next
<1> QED BY <1>0, <1>2, <1>3, <1>4, <1>5, <1>7, <1>8, QuietSteps

(* Whatever overlaps, fails or crashes, the server is a Rental: a renter   *)
(* comes from a recognition in progress that named somebody who had been   *)
(* close, goes by a request in progress or by another such recognition,    *)
(* each carried out once, and in no other way.                             *)
THEOREM ServerIsARental == Spec => ImplementsRental
<1>1. Init => Rentals!Init
    <2> SUFFICES ASSUME Init PROVE Rentals!Init
        OBVIOUS
    <2>1. (\A r \in RecSlots : Named(r) = {}) /\ (\A f \in FreeSlots : Asked(f) = {})
        BY DEF Init, Named, Asked, IdleRec, IdleFree
    <2> QED BY <2>1 DEF Init, Rentals!Init
<1>2. IInv /\ [Next]_vars => [Rentals!Next]_(Rentals!rentals)
    BY StepsAreRentals
<1> QED BY <1>1, <1>2, SpecImpliesIInv, PTL DEF Spec, ImplementsRental, Rentals!Spec
=============================================================================
