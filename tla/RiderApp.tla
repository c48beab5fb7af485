------------------------------ MODULE RiderApp ------------------------------
(***************************************************************************)
(* The map page of the rider's phone (MapPage.dart), which shows the       *)
(* scooter a rider has and ends trips, together with the handlers of       *)
(* RentalServer it calls.                                                  *)
(*                                                                         *)
(* Dart runs one continuation at a time as well, so the page is cut at its *)
(* awaits.  The timer fires every seven seconds whether or not its last    *)
(* callback has ended, so callbacks overlap, and each of them may end a    *)
(* trip beside the button END TRIP.  Requests and responses travel for any *)
(* time and get lost; what the page does with a lost one is throw.         *)
(*                                                                         *)
(* How somebody is recognised is RentalServer's business: here any user is *)
(* recognised at any scooter at any time (Recognise), and the two updates  *)
(* that follow are RentalServer's.                                         *)
(***************************************************************************)
EXTENDS RentalServer

CONSTANTS
    PollSlots,      \* concurrent callbacks of locationTimer
    NoScooter       \* null

VARIABLES
    currScooter,    \* per user, the scooter the page shows
    currLoc,        \* per user, where the page last found its phone to be
    poll,           \* callbacks of locationTimer
    sent,           \* per slot of /free_scooter, the request on its way to the server
    starts,         \* history: per user, when they were recorded as a renter
    ridden          \* history: which user was ever recorded as the renter of what

page == <<currScooter, currLoc, poll, sent>>
history == <<starts, ridden>>
appvars == <<vars, page, history>>

ASSUME NoScooterAssumption == NoScooter \notin Scooters

IdlePoll == [pc |-> "idle"]
NoRequest == [user |-> NoScooter, scooter |-> NoScooter]

(* currLoc is not read before it is set.                                   *)
AppInit ==
    /\ Init
    /\ currScooter = [u \in Users |-> NoScooter]
    /\ currLoc = user_pos
    /\ poll = [q \in PollSlots |-> IdlePoll]
    /\ sent = [f \in FreeSlots |-> NoRequest]
    /\ starts = [u \in Users |-> {}]
    /\ ridden = {}

-----------------------------------------------------------------------------
(* locationTimer                                                           *)

(* The timer fired and the phone has found its position, which the page    *)
(* stores in a field that all callbacks share, and posts.                  *)
TimerFires(q, u, p) ==
    /\ poll[q] = IdlePoll
    /\ currLoc' = [currLoc EXCEPT ![u] = p]
    /\ poll' = [poll EXCEPT ![q] = [pc |-> "post", user |-> u, pos |-> p]]
    /\ UNCHANGED <<vars, currScooter, sent, history>>

(* The post reaches the server; a later one may have overtaken it.         *)
PollArrives(q) ==
    /\ poll[q].pc = "post"
    /\ UpdateUserLocation(poll[q].user, poll[q].pos)
    /\ poll' = [poll EXCEPT ![q] = [pc |-> "find", user |-> poll[q].user]]
    /\ UNCHANGED <<currScooter, currLoc, sent, history>>

(* Mutant: the scooters of any renter are found.                           *)
ScootersOfAnybody(u) == {s \in Scooters : scooter_user[s] # "_none"}

(* scooters.find({user : user_name})                                       *)
ScootersOf(u) == {s \in Scooters : scooter_user[s] = u}

(* The server answers with the scooters of that user; the page looks at    *)
(* the first, and the documents are in no particular order.                *)
PollFind(q) ==
    LET mine == ScootersOf(poll[q].user)
    IN  /\ poll[q].pc = "find"
        /\ \E s \in (IF mine = {} THEN {NoScooter} ELSE mine) :
              poll' = [poll EXCEPT ![q] =
                         [pc |-> "answered", user |-> poll[q].user, scooter |-> s,
                          pos |-> IF s = NoScooter THEN 0 ELSE scooter_pos[s]]]
        /\ UNCHANGED <<vars, currScooter, currLoc, sent, history>>

(* An error of the server is no JSON, a lost answer is an exception: the   *)
(* callback throws before it changes anything.                             *)
PollFails(q) ==
    /\ poll[q].pc # "idle"
    /\ poll' = [poll EXCEPT ![q] = IdlePoll]
    /\ UNCHANGED <<vars, currScooter, currLoc, sent, history>>

(* External: lat_lng's distance in kilometres is rounded, so more than one *)
(* begins at a kilometre and a half.                                       *)
IsFar(p, q) == Distance(p, q) >= 1500

(* freeScooter(), up to its await: the request is sent, and may get lost.  *)
SendFree(u, s) ==
    \/ \E f \in FreeSlots :
          /\ sent[f] = NoRequest
          /\ free[f] = IdleFree
          /\ sent' = [sent EXCEPT ![f] = [user |-> u, scooter |-> s]]
    \/ UNCHANGED sent

(* Mutant: the test for null is inverted.                                  *)
ShownOnlyAgain(u, s) ==
    IF s = NoScooter \/ currScooter[u] = NoScooter THEN currScooter ELSE [currScooter EXCEPT ![u] = s]

(* A scooter in the answer is shown; none leaves the one that is shown.    *)
ShownAfterPoll(u, s) == IF s = NoScooter THEN currScooter ELSE [currScooter EXCEPT ![u] = s]

(* The answer; a scooter that is far from where the phone is by now is     *)
(* given back at once.                                                     *)
PollAnswer(q) ==
    LET u == poll[q].user
        s == poll[q].scooter
    IN  /\ poll[q].pc = "answered"
        /\ poll' = [poll EXCEPT ![q] = IdlePoll]
        /\ currScooter' = ShownAfterPoll(u, s)
        /\ IF s # NoScooter /\ IsFar(currLoc[u], poll[q].pos)
             THEN SendFree(u, s)
             ELSE UNCHANGED sent
        /\ UNCHANGED <<vars, currLoc, history>>

-----------------------------------------------------------------------------
(* Mutant: the card is there without a scooter.                            *)
CardAlways(u) == TRUE

CardShown(u) == currScooter[u] # NoScooter

(* END TRIP, which nothing disables while a request is on its way.         *)
EndTrip(u) ==
    /\ CardShown(u)
    /\ SendFree(u, currScooter[u])
    /\ UNCHANGED <<vars, currScooter, currLoc, poll, history>>

(* The request reaches the server, whose handler starts.                   *)
FreeArrives(f) ==
    /\ sent[f] # NoRequest
    /\ FreeReadTime(f, sent[f].user, sent[f].scooter)
    /\ sent' = [sent EXCEPT ![f] = NoRequest]
    /\ UNCHANGED <<currScooter, currLoc, poll, history>>

(* The response: the elapsed time is shown and no scooter any more, or an  *)
(* error is.                                                               *)
FreeAnswer(f) ==
    LET u == free[f].user
    IN  /\ FreeResponse(f)
        /\ IF free[f].reply >= 0
             THEN currScooter' = [currScooter EXCEPT ![u] = NoScooter]
             ELSE UNCHANGED currScooter
        /\ UNCHANGED <<currLoc, poll, sent, history>>

(* The response or the connection is lost: the await throws.               *)
FreeLost(f) == FreeResponse(f) /\ UNCHANGED <<page, history>>

-----------------------------------------------------------------------------
(* The server                                                              *)

(* checkFace up to its first update of the database, for any name.         *)
Recognise(r, s, u) ==
    /\ rec[r].pc = "idle"
    /\ rec' = [rec EXCEPT ![r] = [pc |-> "set_user", scooter |-> s, close |-> {}, name |-> u]]
    /\ upscaled' = [upscaled EXCEPT ![s] = TRUE]
    /\ UNCHANGED <<database, memory, folder, gps, pending, free, now, thrown, restarts,
                   ever_close, page, history>>

RecordRenter(r) ==
    /\ SetScooterUser(r)
    /\ ridden' = ridden \cup ({rec[r].name} \cap Users) \X {rec[r].scooter}
    /\ UNCHANGED <<page, starts>>

(* When the server ends, the callbacks that wait for it throw; what it has *)
(* answered, and what has not reached it, stays on its way.                *)
PollsAreLost ==
    /\ poll' = [q \in PollSlots |-> IF poll[q].pc = "find" THEN IdlePoll ELSE poll[q]]
    /\ UNCHANGED <<currScooter, currLoc, sent>>

RecordStart(r) ==
    /\ \/ SetUserTime(r) /\ UNCHANGED page
       \/ SetUserTimeThrows(r) /\ PollsAreLost
    /\ starts' = [u \in Users |-> IF u = rec[r].name THEN starts[u] \cup {now} ELSE starts[u]]
    /\ UNCHANGED ridden

ServerEnds ==
    /\ Kill \/ \E r \in RecSlots : RecFails(r)
    /\ PollsAreLost
    /\ UNCHANGED history

-----------------------------------------------------------------------------
(* What the phone does whether or not the server runs.                     *)
PhoneStep ==
    \/ \E q \in PollSlots :
          \/ \E u \in Users, p \in Positions : TimerFires(q, u, p)
          \/ PollAnswer(q)
          \/ PollFails(q)
    \/ \E f \in FreeSlots : FreeAnswer(f) \/ FreeLost(f)
    \/ \E u \in Users : EndTrip(u)

PollStep(q) == PollArrives(q) \/ PollFind(q)

TripStep(f) ==
    \/ FreeArrives(f)
    \/ (FreeSetNone(f) \/ FreeClearTime(f) \/ FreeFails(f)) /\ UNCHANGED <<page, history>>

RecognitionStep ==
    \E r \in RecSlots :
      \/ RecordRenter(r)
      \/ RecordStart(r)
      \/ \E s \in Scooters, u \in Users \cup {""} : Recognise(r, s, u)

ServerAppStep ==
    \/ \E q \in PollSlots : PollStep(q)
    \/ \E f \in FreeSlots : TripStep(f)
    \/ RecognitionStep
    \/ ServerEnds

AppNext ==
    \/ PhoneStep
    \/ ~thrown /\ ServerAppStep
    \/ (Restart \/ Tick) /\ UNCHANGED <<page, history>>

AppSpec == AppInit /\ [][AppNext]_appvars

(* The server is started again after it ended, and again and again while   *)
(* it runs the timer fires, the post of some callback, its question to the *)
(* database and an answer get through: since a callback can always fail    *)
(* and the timer fire anew, this is strong fairness of the four.           *)
AppFairness ==
    /\ WF_appvars(Restart /\ UNCHANGED <<page, history>>)
    /\ []<><< ~thrown /\ \E q \in PollSlots, u \in Users, p \in Positions :
                           TimerFires(q, u, p) >>_appvars
    /\ []<><< \E q \in PollSlots : PollArrives(q) >>_appvars
    /\ []<><< \E q \in PollSlots : PollFind(q) >>_appvars
    /\ []<><< \E q \in PollSlots : PollAnswer(q) >>_appvars

-----------------------------------------------------------------------------
PollStates ==
    {IdlePoll}
    \cup [pc : {"post"}, user : Users, pos : Positions]
    \cup [pc : {"find"}, user : Users]
    \cup [pc : {"answered"}, user : Users, scooter : Scooters \cup {NoScooter},
          pos : Positions \cup {0}]

(* Type invariant.                                                         *)
AppTypeOK ==
    /\ TypeOK
    /\ currScooter \in [Users -> Scooters \cup {NoScooter}]
    /\ currLoc \in [Users -> Positions]
    /\ poll \in [PollSlots -> PollStates]
    /\ sent \in [FreeSlots -> {NoRequest} \cup [user : Users, scooter : Scooters]]
    /\ starts \in [Users -> SUBSET (1..MaxTime)]
    /\ ridden \subseteq Users \X Scooters

(* The page shows a rider only scooters they have been the renter of,      *)
(* however late an answer comes and whoever has the scooter by then; so    *)
(* nobody can end a trip on a scooter they never rode.                     *)
ShownScooterWasRidden ==
    /\ \A u \in Users : currScooter[u] # NoScooter => <<u, currScooter[u]>> \in ridden
    /\ \A f \in FreeSlots : sent[f] # NoRequest => <<sent[f].user, sent[f].scooter>> \in ridden

(* An elapsed time is counted from a moment at which that same rider was   *)
(* recognised, or, when a trip is ended again or before its time is        *)
(* recorded, from the 0 a user without a trip has.                         *)
BillsStartAtARide ==
    [][ \A f \in FreeSlots :
          free[f].pc = "clear_time" /\ free'[f].pc = "answered" /\ free'[f].reply # -1
          => \E t \in starts[free[f].user] \cup {0} : free'[f].reply = now - t
      ]_appvars

(* Somebody who is the renter of a scooter gets to see a scooter, and with *)
(* it the button that ends the trip, even when the answer to an earlier    *)
(* trip took it off the page.                                              *)
RenterSeesAScooter ==
    \A u \in Users :
      (\E s \in Scooters : scooter_user[s] = u)
      ~> (currScooter[u] # NoScooter \/ \A s \in Scooters : scooter_user[s] # u)
=============================================================================
