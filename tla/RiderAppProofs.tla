----------------------------- MODULE RiderAppProofs -----------------------------
(***************************************************************************)
(* Proofs about RiderApp, for any number of riders, scooters, overlapping  *)
(* callbacks and trips.  The types of the server come from the lemmas of   *)
(* RentalServerProofs about its steps.                                     *)
(***************************************************************************)
EXTENDS RiderApp, RentalServerProofs

PageTypes ==
    /\ currScooter \in [Users -> Scooters \cup {NoScooter}]
    /\ currLoc \in [Users -> Positions]
    /\ poll \in [PollSlots -> PollStates]
    /\ sent \in [FreeSlots -> {NoRequest} \cup [user : Users, scooter : Scooters]]

HistoryTypes ==
    /\ starts \in [Users -> SUBSET (1..MaxTime)]
    /\ ridden \subseteq Users \X Scooters

(* Everything the page can show comes from the server's documents and from *)
(* answers on their way.                                                   *)
RidersRode ==
    /\ \A s \in Scooters : scooter_user[s] \in Users => <<scooter_user[s], s>> \in ridden
    /\ \A q \in PollSlots :
         poll[q].pc = "answered" /\ poll[q].scooter # NoScooter
         => <<poll[q].user, poll[q].scooter>> \in ridden

(* Every time that can be billed is a start of that user's, or 0.          *)
TimesAreStarts ==
    /\ \A u \in Users : user_time[u] \in starts[u] \cup {0}
    /\ \A f \in FreeSlots :
         free[f].pc \in {"set_none", "clear_time"}
         => free[f].time \in starts[free[f].user] \cup {0}

Types == TypeOK /\ NamesAreRenters /\ PageTypes /\ HistoryTypes
AppInv == Types /\ RidersRode /\ ShownScooterWasRidden /\ TimesAreStarts

-----------------------------------------------------------------------------
LEMMA PollShapes ==
    /\ IdlePoll \in PollStates /\ IdlePoll.pc = "idle"
    /\ \A u \in Users, p \in Positions :
         [pc |-> "post", user |-> u, pos |-> p] \in PollStates
    /\ \A u \in Users : [pc |-> "find", user |-> u] \in PollStates
    /\ \A u \in Users, s \in Scooters \cup {NoScooter}, p \in Positions \cup {0} :
         [pc |-> "answered", user |-> u, scooter |-> s, pos |-> p] \in PollStates
BY DEF PollStates, IdlePoll

LEMMA PollFields ==
    ASSUME NEW g \in PollStates
    PROVE  /\ g.pc # "idle" => g.user \in Users
           /\ g.pc = "post" => g.pos \in Positions
           /\ g.pc = "answered" => g.scooter \in Scooters \cup {NoScooter}
BY DEF PollStates, IdlePoll

LEMMA AppInit_Inv == AppInit => AppInv
<1> SUFFICES ASSUME AppInit PROVE AppInv
    OBVIOUS
<1>1. TypeOK /\ NamesAreRenters
    BY InitTypes DEF AppInit, Init, NamesAreRenters, IdleRec
<1>2. PageTypes /\ HistoryTypes
    BY <1>1, PollShapes DEF AppInit, PageTypes, HistoryTypes, TypeOK
<1>3. RidersRode
    BY UsersAssumption, PollShapes DEF AppInit, Init, RidersRode
<1>4. ShownScooterWasRidden
    BY DEF AppInit, ShownScooterWasRidden
<1>5. TimesAreStarts
    BY DEF AppInit, Init, TimesAreStarts, IdleFree
<1> QED BY <1>1, <1>2, <1>3, <1>4, <1>5 DEF AppInv, Types

-----------------------------------------------------------------------------
(* Steps of the timer's callback.                                          *)
LEMMA PollKeepsInv ==
    ASSUME AppInv, NEW q \in PollSlots,
           \/ \E u \in Users, p \in Positions : TimerFires(q, u, p)
           \/ PollStep(q)
           \/ PollAnswer(q)
           \/ PollFails(q)
    PROVE  AppInv'
<1>0. TypeOK /\ NamesAreRenters /\ PageTypes /\ HistoryTypes
    BY DEF AppInv, Types
<1>1. ASSUME NEW u \in Users, NEW p \in Positions, TimerFires(q, u, p) PROVE AppInv'
    <2>1. PageTypes'
        BY <1>0, <1>1, PollShapes DEF TimerFires, PageTypes
    <2>2. UNCHANGED <<vars, currScooter, sent, history>>
        BY <1>1 DEF TimerFires
    <2>3. RidersRode'
        BY <1>0, <1>1, <2>2
        DEF TimerFires, AppInv, RidersRode, PageTypes, vars, database, history
    <2> QED BY <1>0, <2>1, <2>2, <2>3
            DEF AppInv, Types, TypeOK, NamesAreRenters, HistoryTypes, ShownScooterWasRidden,
                TimesAreStarts, vars, database, memory, files, recs, history
<1>4. CASE PollArrives(q)
    <2> DEFINE u == poll[q].user
    <2>1. u \in Users /\ poll[q].pos \in Positions
        BY <1>0, <1>4, PollFields DEF PollArrives, PageTypes
    <2>2. TypeOK'
        BY <1>0, <1>4, <2>1, OtherStepsKeepTypes DEF PollArrives
    <2>3. /\ UNCHANGED <<scooter_user, user_time, free, rec, currScooter, currLoc, sent, starts,
                        ridden>>
          /\ poll' = [poll EXCEPT ![q] = [pc |-> "find", user |-> u]]
        BY <1>4 DEF PollArrives, UpdateUserLocation, recs, history
    <2>4. PageTypes' /\ HistoryTypes'
        BY <1>0, <2>1, <2>3, PollShapes DEF PageTypes, HistoryTypes
    <2>5. RidersRode'
        BY <1>0, <2>3 DEF AppInv, RidersRode, PageTypes
    <2> QED BY <1>0, <2>2, <2>3, <2>4, <2>5
            DEF AppInv, Types, NamesAreRenters, ShownScooterWasRidden, TimesAreStarts
<1>2. CASE PollFind(q)
    <2> DEFINE u == poll[q].user
    <2>1. u \in Users
        BY <1>0, <1>2, PollFields DEF PollFind, PageTypes
    <2>2. PICK s \in Scooters \cup {NoScooter} :
            /\ s # NoScooter => scooter_user[s] = u
            /\ poll' = [poll EXCEPT ![q] =
                         [pc |-> "answered", user |-> u, scooter |-> s,
                          pos |-> IF s = NoScooter THEN 0 ELSE scooter_pos[s]]]
        BY <1>2 DEF PollFind, ScootersOf
    <2>3. (IF s = NoScooter THEN 0 ELSE scooter_pos[s]) \in Positions \cup {0}
        BY <1>0 DEF TypeOK
    <2>4. UNCHANGED <<vars, currScooter, currLoc, sent, history>>
        BY <1>2 DEF PollFind
    <2>5. PageTypes' /\ HistoryTypes'
        BY <1>0, <2>1, <2>2, <2>3, <2>4, PollShapes DEF PageTypes, HistoryTypes, history
    <2>6. RidersRode'
        BY <1>0, <2>1, <2>2, <2>4
        DEF AppInv, RidersRode, PageTypes, vars, database, history
    <2> QED BY <1>0, <2>4, <2>5, <2>6
            DEF AppInv, Types, TypeOK, NamesAreRenters, ShownScooterWasRidden, TimesAreStarts,
                vars, database, memory, files, recs, history
<1>3. CASE PollAnswer(q) \/ PollFails(q)
    <2> DEFINE u == poll[q].user
               s == poll[q].scooter
    <2>1. poll' = [poll EXCEPT ![q] = IdlePoll] /\ UNCHANGED <<vars, history>>
        BY <1>3 DEF PollAnswer, PollFails
    <2>6. poll' \in [PollSlots -> PollStates]
        BY <1>0, <2>1, PollShapes DEF PageTypes
    <2>2. ASSUME PollAnswer(q) PROVE PageTypes' /\ ShownScooterWasRidden'
        <3>1. /\ u \in Users /\ s \in Scooters \cup {NoScooter}
              /\ s # NoScooter => <<u, s>> \in ridden
            BY <1>0, <2>2, PollFields DEF PollAnswer, PageTypes, AppInv, RidersRode
        <3>2. currScooter' \in [Users -> Scooters \cup {NoScooter}]
              /\ \A v \in Users : currScooter'[v] # NoScooter => <<v, currScooter'[v]>> \in ridden
            BY <1>0, <2>2, <3>1
            DEF PollAnswer, ShownAfterPoll, PageTypes, AppInv, ShownScooterWasRidden
        <3>3. /\ sent' \in [FreeSlots -> {NoRequest} \cup [user : Users, scooter : Scooters]]
              /\ \A f \in FreeSlots :
                    sent'[f] # NoRequest => <<sent'[f].user, sent'[f].scooter>> \in ridden
            BY <1>0, <2>2, <3>1
            DEF PollAnswer, SendFree, PageTypes, AppInv, ShownScooterWasRidden
        <3>4. currLoc' \in [Users -> Positions]
            BY <1>0, <2>2 DEF PollAnswer, PageTypes
        <3>5. PageTypes'
            BY <2>6, <3>2, <3>3, <3>4 DEF PageTypes
        <3>6. ShownScooterWasRidden'
            BY <2>1, <3>2, <3>3 DEF ShownScooterWasRidden, history
        <3> QED BY <3>5, <3>6
    <2>3. ASSUME PollFails(q) PROVE PageTypes' /\ ShownScooterWasRidden'
        <3>1. PageTypes'
            BY <1>0, <2>3, <2>6 DEF PollFails, PageTypes
        <3>2. ShownScooterWasRidden'
            BY <2>3 DEF PollFails, AppInv, ShownScooterWasRidden, history
        <3> QED BY <3>1, <3>2
    <2>4. PageTypes' /\ ShownScooterWasRidden'
        BY <1>3, <2>2, <2>3
    <2>5. RidersRode'
        BY <1>0, <2>1, PollShapes DEF AppInv, RidersRode, PageTypes, vars, database, history
    <2> QED BY <1>0, <2>1, <2>4, <2>5
            DEF AppInv, Types, TypeOK, NamesAreRenters, HistoryTypes, TimesAreStarts,
                vars, database, memory, files, recs, history
<1> QED BY <1>1, <1>2, <1>3, <1>4 DEF PollStep

(* Steps of a trip's end: the button, the request and the response.        *)
LEMMA TripKeepsInv ==
    ASSUME AppInv, NEW f \in FreeSlots,
           \/ TripStep(f)
           \/ FreeAnswer(f)
           \/ FreeLost(f)
    PROVE  AppInv'
<1>0. TypeOK /\ NamesAreRenters /\ PageTypes /\ HistoryTypes /\ free[f] \in FreeStates
    BY DEF AppInv, Types, TypeOK
<1>1. CASE FreeArrives(f)
    <2> DEFINE u == sent[f].user
               s == sent[f].scooter
    <2>1. u \in Users /\ s \in Scooters
        BY <1>0, <1>1 DEF FreeArrives, PageTypes
    <2>2. TypeOK'
        BY <1>0, <1>1, <2>1, FreeKeepsTypes DEF FreeArrives
    <2>3. /\ free' = [free EXCEPT ![f] = [pc |-> "set_none", user |-> u, scooter |-> s,
                                         time |-> user_time[u]]]
          /\ sent' = [sent EXCEPT ![f] = NoRequest]
          /\ UNCHANGED <<scooter_user, user_time, rec, currScooter, currLoc, poll, starts, ridden>>
        BY <1>1 DEF FreeArrives, FreeReadTime, database, recs, history
    <2>4. PageTypes' /\ HistoryTypes' /\ ShownScooterWasRidden'
        BY <1>0, <2>3 DEF PageTypes, HistoryTypes, AppInv, ShownScooterWasRidden
    <2>5. TimesAreStarts'
        BY <1>0, <2>1, <2>3 DEF AppInv, TimesAreStarts, TypeOK
    <2> QED BY <1>0, <2>2, <2>3, <2>4, <2>5 DEF AppInv, Types, NamesAreRenters, RidersRode
<1>2. ASSUME FreeSetNone(f) \/ FreeClearTime(f) \/ FreeFails(f) \/ FreeResponse(f)
      PROVE  TypeOK' /\ NamesAreRenters' /\ (starts' = starts => TimesAreStarts')
                 /\ \A s \in Scooters : scooter_user'[s] \in {scooter_user[s], "_none"}
    <2>1. TypeOK'
        BY <1>0, <1>2, FreeKeepsTypes DEF FreeStep
    <2>2. rec' = rec
        BY <1>2 DEF FreeSetNone, FreeClearTime, FreeFails, FreeResponse, recs
    <2>3. \A s \in Scooters : scooter_user'[s] \in {scooter_user[s], "_none"}
        BY <1>0, <1>2 DEF FreeSetNone, FreeClearTime, FreeFails, FreeResponse, TypeOK, database
    <2>4. /\ \A u \in Users : user_time'[u] \in {user_time[u], 0}
          /\ \A e \in FreeSlots :
                free'[e].pc \in {"set_none", "clear_time"}
                => /\ free[e].pc \in {"set_none", "clear_time"}
                   /\ free'[e].user = free[e].user /\ free'[e].time = free[e].time
        <3>1. CASE FreeSetNone(f)
            <4>1. free[f] \in BusyFrees
                BY <1>0, <3>1, FreeFields DEF FreeSetNone
            <4>2. /\ [free[f] EXCEPT !.pc = "clear_time"].user = free[f].user
                  /\ [free[f] EXCEPT !.pc = "clear_time"].time = free[f].time
                BY <4>1 DEF BusyFrees
            <4> QED BY <1>0, <3>1, <4>2 DEF FreeSetNone, TypeOK
        <3>2. CASE FreeClearTime(f) \/ FreeFails(f) \/ FreeResponse(f)
            BY <1>0, <3>2
            DEF FreeClearTime, FreeFails, FreeResponse, IdleFree, TypeOK, database
        <3> QED BY <1>2, <3>1, <3>2
    <2>5. starts' = starts => TimesAreStarts'
        BY <2>4 DEF AppInv, TimesAreStarts
    <2> QED BY <1>0, <2>1, <2>2, <2>3, <2>5 DEF NamesAreRenters
<1>3. ASSUME \A s \in Scooters : scooter_user'[s] \in {scooter_user[s], "_none"},
             UNCHANGED <<poll, ridden>>
      PROVE  RidersRode'
    BY <1>3, UsersAssumption DEF AppInv, RidersRode
<1>4. CASE (FreeSetNone(f) \/ FreeClearTime(f) \/ FreeFails(f) \/ FreeResponse(f))
             /\ UNCHANGED <<page, history>>
    <2>1. UNCHANGED <<currScooter, currLoc, poll, sent, starts, ridden>>
        BY <1>4 DEF page, history
    <2> QED BY <1>0, <1>2, <1>3, <1>4, <2>1
            DEF AppInv, Types, PageTypes, HistoryTypes, ShownScooterWasRidden
<1>5. CASE FreeAnswer(f)
    <2>1. UNCHANGED <<currLoc, poll, sent, starts, ridden>> /\ FreeResponse(f)
        BY <1>5 DEF FreeAnswer, history
    <2>3. /\ currScooter' \in [Users -> Scooters \cup {NoScooter}]
          /\ \A v \in Users : currScooter'[v] \in {currScooter[v], NoScooter}
        BY <1>0, <1>5 DEF FreeAnswer, PageTypes
    <2>4. PageTypes' /\ HistoryTypes' /\ ShownScooterWasRidden'
        BY <1>0, <2>1, <2>3 DEF AppInv, PageTypes, HistoryTypes, ShownScooterWasRidden
    <2> QED BY <1>2, <1>3, <2>1, <2>4 DEF AppInv, Types
<1> QED BY <1>1, <1>4, <1>5 DEF TripStep, FreeLost

(* The server ends: the callbacks that wait for it are lost, and what it   *)
(* had in flight.                                                          *)
LEMMA DeathKeepsInv ==
    ASSUME AppInv, TypeOK', NamesAreRenters', Dies, PollsAreLost,
           UNCHANGED <<scooter_user, ridden>>,
           starts' \in [Users -> SUBSET (1..MaxTime)],
           \A u \in Users : user_time'[u] \in starts'[u] \cup {0}
    PROVE  AppInv'
<1>0. PageTypes /\ HistoryTypes
    BY DEF AppInv, Types
<1>1. \A f \in FreeSlots : free'[f].pc = "idle"
    BY DEF Dies, IdleFree
<1>2. PageTypes' /\ HistoryTypes'
    BY <1>0, PollShapes DEF PollsAreLost, PageTypes, HistoryTypes
<1>3. RidersRode'
    BY PollShapes DEF PollsAreLost, AppInv, RidersRode
<1>4. ShownScooterWasRidden' /\ TimesAreStarts'
    BY <1>1 DEF PollsAreLost, AppInv, ShownScooterWasRidden, TimesAreStarts
<1> QED BY <1>2, <1>3, <1>4 DEF AppInv, Types

(* Steps of a recognition, which is where rides begin.                     *)
LEMMA RecognitionKeepsInv ==
    ASSUME AppInv, RecognitionStep
    PROVE  AppInv'
<1>0. TypeOK /\ NamesAreRenters /\ PageTypes /\ HistoryTypes
    BY DEF AppInv, Types
<1>1. ASSUME NEW r \in RecSlots, NEW s \in Scooters, NEW u \in Users \cup {""},
             Recognise(r, s, u)
      PROVE  AppInv'
    <2> DEFINE x == [pc |-> "set_user", scooter |-> s, close |-> {}, name |-> u]
    <2>1. x \in RecStates /\ x.name \in Renters
        BY DEF RecStates, BusyRecs, Renters
    <2>2. rec' = [rec EXCEPT ![r] = x]
        BY <1>1 DEF Recognise
    <2>3. TypeOK'
        BY <1>0, <1>1, <2>1, <2>2 DEF Recognise, TypeOK, database, memory
    <2>4. NamesAreRenters'
        BY <1>0, <2>1, <2>2 DEF NamesAreRenters, TypeOK
    <2>5. UNCHANGED <<scooter_user, user_time, free, currScooter, currLoc, poll, sent,
                      starts, ridden>>
        BY <1>1 DEF Recognise, database, page, history
    <2> QED BY <1>0, <2>3, <2>4, <2>5
            DEF AppInv, Types, PageTypes, HistoryTypes, RidersRode, ShownScooterWasRidden,
                TimesAreStarts
<1>2. ASSUME NEW r \in RecSlots, SetScooterUser(r) \/ SetUserTime(r) \/ SetUserTimeThrows(r)
      PROVE  /\ TypeOK' /\ NamesAreRenters'
             /\ rec[r].scooter \in Scooters /\ rec[r].name \in Users \cup Nobody \cup {""}
    <2>1. TypeOK' /\ NamesAreRenters'
        BY <1>0, <1>2, RecKeepsTypes DEF RecStep
    <2>2. rec[r].pc # "idle" /\ rec[r] \in RecStates
        BY <1>0, <1>2 DEF SetScooterUser, SetUserTime, SetUserTimeThrows, TypeOK
    <2> QED BY <2>1, <2>2, RecFields
<1>3. ASSUME NEW r \in RecSlots, RecordRenter(r) PROVE AppInv'
    <2> DEFINE u == rec[r].name
               s == rec[r].scooter
    <2>0. TypeOK' /\ NamesAreRenters' /\ s \in Scooters
        BY <1>2, <1>3 DEF RecordRenter
    <2>1. /\ scooter_user' = [scooter_user EXCEPT ![s] = u]
          /\ ridden' = ridden \cup ({u} \cap Users) \X {s}
          /\ UNCHANGED <<user_time, free, currScooter, currLoc, poll, sent, starts>>
        BY <1>3 DEF RecordRenter, SetScooterUser, page
    <2>2. PageTypes' /\ HistoryTypes'
        BY <1>0, <2>0, <2>1 DEF PageTypes, HistoryTypes
    <2>3. RidersRode'
        BY <1>0, <2>0, <2>1 DEF AppInv, RidersRode, TypeOK
    <2>4. ShownScooterWasRidden' /\ TimesAreStarts'
        BY <2>1 DEF AppInv, ShownScooterWasRidden, TimesAreStarts
    <2> QED BY <2>0, <2>2, <2>3, <2>4 DEF AppInv, Types
<1>4. ASSUME NEW r \in RecSlots, RecordStart(r) PROVE AppInv'
    <2> DEFINE u == rec[r].name
    <2>0. TypeOK' /\ NamesAreRenters'
        BY <1>2, <1>4 DEF RecordStart
    <2>1. /\ user_time' = [v \in Users |-> IF v = u THEN now ELSE user_time[v]]
          /\ starts' = [v \in Users |-> IF v = u THEN starts[v] \cup {now} ELSE starts[v]]
          /\ UNCHANGED <<scooter_user, ridden>>
        BY <1>4 DEF RecordStart, SetUserTime, SetUserTimeThrows, TimeRecorded
    <2>2. /\ starts' \in [Users -> SUBSET (1..MaxTime)]
          /\ \A v \in Users : user_time'[v] \in starts'[v] \cup {0}
          /\ \A v \in Users : starts[v] \subseteq starts'[v]
        BY <1>0, <2>1 DEF HistoryTypes, TypeOK, AppInv, TimesAreStarts
    <2>3. CASE SetUserTimeThrows(r) /\ PollsAreLost
        BY <2>0, <2>1, <2>2, <2>3, DeathKeepsInv DEF SetUserTimeThrows
    <2>4. CASE SetUserTime(r) /\ UNCHANGED page
        <3>1. UNCHANGED <<free, currScooter, currLoc, poll, sent>>
            BY <2>4 DEF SetUserTime, page
        <3>2. PageTypes' /\ HistoryTypes'
            BY <1>0, <2>1, <2>2, <3>1 DEF PageTypes, HistoryTypes
        <3>3. TimesAreStarts'
            BY <1>0, <2>2, <3>1, FreeFields DEF AppInv, TimesAreStarts, TypeOK
        <3>4. RidersRode' /\ ShownScooterWasRidden'
            BY <2>1, <3>1 DEF AppInv, RidersRode, ShownScooterWasRidden
        <3> QED BY <2>0, <3>2, <3>3, <3>4 DEF AppInv, Types
    <2> QED BY <1>4, <2>3, <2>4 DEF RecordStart
<1> QED BY <1>1, <1>3, <1>4 DEF RecognitionStep

(* END TRIP, the end of the server and its start, and the clock.           *)
LEMMA OthersKeepInv ==
    ASSUME AppInv,
           \/ \E u \in Users : EndTrip(u)
           \/ ServerEnds
           \/ (Restart \/ Tick) /\ UNCHANGED <<page, history>>
    PROVE  AppInv'
<1>0. TypeOK /\ NamesAreRenters /\ PageTypes /\ HistoryTypes
    BY DEF AppInv, Types
<1>1. ASSUME NEW u \in Users, EndTrip(u) PROVE AppInv'
    <2>1. UNCHANGED <<vars, currScooter, currLoc, poll, starts, ridden>>
        BY <1>1 DEF EndTrip, history
    <2>3. currScooter[u] \in Scooters /\ <<u, currScooter[u]>> \in ridden
        BY <1>0, <1>1 DEF EndTrip, CardShown, PageTypes, AppInv, ShownScooterWasRidden
    <2>4. /\ sent' \in [FreeSlots -> {NoRequest} \cup [user : Users, scooter : Scooters]]
          /\ \A f \in FreeSlots :
                sent'[f] # NoRequest => <<sent'[f].user, sent'[f].scooter>> \in ridden
        BY <1>0, <1>1, <2>3 DEF EndTrip, CardShown, SendFree, PageTypes, AppInv, ShownScooterWasRidden
    <2>5. PageTypes'
        BY <1>0, <2>1, <2>4 DEF PageTypes
    <2>6. ShownScooterWasRidden'
        BY <2>1, <2>4 DEF AppInv, ShownScooterWasRidden
    <2>7. TypeOK' /\ NamesAreRenters' /\ HistoryTypes' /\ RidersRode' /\ TimesAreStarts'
        BY <1>0, <2>1
        DEF AppInv, TypeOK, NamesAreRenters, HistoryTypes, RidersRode, TimesAreStarts,
            vars, database, memory, files, recs
    <2> QED BY <2>5, <2>6, <2>7 DEF AppInv, Types
<1>2. CASE ServerEnds
    <2>1. TypeOK'
        BY <1>0, <1>2, OtherStepsKeepTypes, RecKeepsTypes DEF ServerEnds
    <2>2. Dies /\ PollsAreLost /\ UNCHANGED <<scooter_user, user_time, starts, ridden>>
        BY <1>2 DEF ServerEnds, Kill, RecFails, database, history
    <2>3. NamesAreRenters'
        BY <2>2 DEF Dies, IdleRec, NamesAreRenters
    <2> QED BY <1>0, <2>1, <2>2, <2>3, DeathKeepsInv DEF AppInv, HistoryTypes, TimesAreStarts
<1>3. CASE (Restart \/ Tick) /\ UNCHANGED <<page, history>>
    <2>1. TypeOK'
        BY <1>0, <1>3, OtherStepsKeepTypes
    <2>2. UNCHANGED <<scooter_user, user_time, rec, free, page, history>>
        BY <1>3 DEF Restart, Tick, database, recs
    <2> QED BY <1>0, <2>1, <2>2
            DEF AppInv, Types, NamesAreRenters, PageTypes, HistoryTypes, RidersRode,
                ShownScooterWasRidden, TimesAreStarts, page, history
<1> QED BY <1>1, <1>2, <1>3

LEMMA AppNextPreservesInv == AppInv /\ [AppNext]_appvars => AppInv'
<1> SUFFICES ASSUME AppInv, [AppNext]_appvars PROVE AppInv'
    OBVIOUS
<1>1. CASE UNCHANGED appvars
    BY <1>1
    DEF AppInv, Types, TypeOK, NamesAreRenters, PageTypes, HistoryTypes, RidersRode,
        ShownScooterWasRidden, TimesAreStarts, appvars, page, history, vars, database, memory,
        files, recs
<1>2. CASE AppNext
    BY <1>2, PollKeepsInv, TripKeepsInv, RecognitionKeepsInv, OthersKeepInv
    DEF AppNext, PhoneStep, ServerAppStep
<1> QED BY <1>1, <1>2

LEMMA AppSpecImpliesInv == AppSpec => []AppInv
<1> QED BY AppInit_Inv, AppNextPreservesInv, PTL DEF AppSpec

-----------------------------------------------------------------------------
(* Server, page and requests keep their shapes.                            *)
THEOREM AppTypeCorrect == AppSpec => []AppTypeOK
<1>1. AppInv => AppTypeOK
    BY DEF AppInv, Types, PageTypes, HistoryTypes, AppTypeOK
<1> QED BY <1>1, AppSpecImpliesInv, PTL

(* A rider is only shown, and can only give back, what they have ridden.   *)
THEOREM RidersSeeTheirRides == AppSpec => []ShownScooterWasRidden
<1>1. AppInv => ShownScooterWasRidden
    BY DEF AppInv
<1> QED BY <1>1, AppSpecImpliesInv, PTL

(* Whatever is lost, repeated or overtaken, nobody is billed from the      *)
(* start of somebody else's ride.                                          *)
THEOREM BillsAreRides == AppSpec => BillsStartAtARide
<1> DEFINE Bills == \A f \in FreeSlots :
              free[f].pc = "clear_time" /\ free'[f].pc = "answered" /\ free'[f].reply # -1
              => \E t \in starts[free[f].user] \cup {0} : free'[f].reply = now - t
<1>1. ASSUME AppInv, AppNext PROVE Bills
    <2> SUFFICES ASSUME NEW f \in FreeSlots, free[f].pc = "clear_time",
                        free'[f].pc = "answered", free'[f].reply # -1
                 PROVE  \E t \in starts[free[f].user] \cup {0} : free'[f].reply = now - t
        OBVIOUS
    <2>1. free \in [FreeSlots -> FreeStates] /\ free'[f] # free[f]
        BY <1>1 DEF AppInv, Types, TypeOK
    <2>2. ~Dies /\ ~Restart /\ ~Tick
        BY <2>1 DEF Dies, IdleFree, Restart, Tick
    <2>3. ~RecognitionStep /\ ~ServerEnds
        BY <2>1, <2>2
        DEF RecognitionStep, Recognise, RecordRenter, RecordStart, SetScooterUser, SetUserTime,
            SetUserTimeThrows, ServerEnds, Kill, RecFails
    <2>4. \A q \in PollSlots :
            /\ ~PollStep(q) /\ ~PollAnswer(q) /\ ~PollFails(q)
            /\ \A u \in Users, p \in Positions : ~TimerFires(q, u, p)
        BY <2>1 DEF PollStep, PollFails, PollArrives, PollFind, PollAnswer, TimerFires,
                    UpdateUserLocation, vars
    <2>5. \A u \in Users : ~EndTrip(u)
        BY <2>1 DEF EndTrip, vars
    <2>6. PICK e \in FreeSlots : TripStep(e) \/ FreeAnswer(e) \/ FreeLost(e)
        BY <1>1, <2>2, <2>3, <2>4, <2>5 DEF AppNext, PhoneStep, ServerAppStep
    <2>7. FreeClearTime(f)
        BY <2>1, <2>6 DEF TripStep, FreeAnswer, FreeLost, FreeArrives, FreeReadTime,
           FreeSetNone, FreeClearTime, FreeFails, FreeResponse, IdleFree
    <2>8. free'[f].reply = now - free[f].time
        BY <2>1, <2>7 DEF FreeClearTime, Elapsed
    <2> QED BY <1>1, <2>8 DEF AppInv, TimesAreStarts
<1>2. AppInv /\ [AppNext]_appvars => [Bills]_appvars
    BY <1>1
<1> QED BY <1>2, AppSpecImpliesInv, PTL DEF AppSpec, BillsStartAtARide
=============================================================================
