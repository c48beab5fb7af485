------------------------- MODULE CameraStreamProofs -------------------------
(***************************************************************************)
(* Proofs about CameraStream, for all sizes of the queues and the picture. *)
(***************************************************************************)
EXTENDS CameraStream, SequenceTheorems, TLAPS

(* Where the camera task is, against what stream_running shows the others. *)
Phases ==
    /\ cam \in {"starting", "free_finished", "free_timed_out"} => ~stream_running
    /\ cam \in {"unset", "fetching", "queued", "finished"} => stream_running
    /\ stream_running => object = (IF cam = "unset" THEN "unset" ELSE "live")
    /\ cam \in {"unset", "fetching", "queued"} => running.status = "RUNNING"
    /\ cam = "finished" => running.status = "DONE" /\ running.out_q = <<>>

(* Requests wait in the order of their ids, and nothing of them or of a    *)
(* later id has been handed out.                                           *)
Pending ==
    /\ running.id <= next_gen /\ (stream_running => running.id < next_gen)
    /\ \A j \in Ids : j > running.id \/ j >= next_gen => received[j] = 0
    /\ \A k \in 1..Len(in_q) :
         /\ running.id <= in_q[k] /\ in_q[k] < next_gen /\ received[in_q[k]] = 0
         /\ stream_running => running.id < in_q[k]
         /\ cam = "starting" => request < in_q[k]
    /\ \A k, l \in 1..Len(in_q) : k < l => in_q[k] < in_q[l]
    /\ cam = "starting" =>
         running.id <= request /\ request < next_gen /\ received[request] = 0
    /\ cam = "unset" => received[running.id] = 0

(* The queue of a stream holds the chunks after those handed out, up to    *)
(* those read from the camera.                                             *)
Consecutive ==
    stream_running /\ object = "live" =>
      /\ \A k \in 1..Len(running.out_q) :
           running.out_q[k] = received[running.id] + k - 1
      /\ received[running.id] + Len(running.out_q)
           = running.completed_chunks + (IF cam = "queued" THEN 1 ELSE 0)
      /\ running.total_size = size_of[running.id]
      /\ running.status = "RUNNING" => running.completed_chunks < running.total_size
      /\ running.status = "DONE" => running.completed_chunks = running.total_size
      /\ cam = "fetching" => Len(running.out_q) < OutQueueSize

(* A stream that is not running was handed out whole, not at all, or ran   *)
(* out of time.                                                            *)
WholeOrNone(i) == received[i] \in {0, size_of[i]} \/ i \in timed_out

Ended ==
    /\ \A i \in Ids : WholeOrNone(i) \/ IsRunning(i)
    /\ demo = "ended" => WholeOrNone(id)

IInv == TypeOK /\ Phases /\ OneFramePerPicture /\ Pending /\ Consecutive /\ Ended

(* Facts about taking from and adding to a queue.                         *)
LEMMA QueueFacts ==
    ASSUME NEW S, NEW q \in Seq(S)
    PROVE  /\ q # <<>> =>
                /\ Len(q) \in Nat \ {0} /\ Head(q) = q[1] /\ Head(q) \in S
                /\ Tail(q) \in Seq(S) /\ Len(Tail(q)) = Len(q) - 1
                /\ \A k \in 1..(Len(q) - 1) : Tail(q)[k] = q[k + 1]
           /\ \A e \in S :
                /\ Append(q, e) \in Seq(S) /\ Len(Append(q, e)) = Len(q) + 1
                /\ \A k \in 1..Len(q) : Append(q, e)[k] = q[k]
                /\ Append(q, e)[Len(q) + 1] = e
    BY HeadTailProperties, AppendProperties, LenProperties, ElementOfSeq, EmptySeq

LEMMA InitIInv == Init => IInv
<1> SUFFICES ASSUME Init PROVE IInv
    OBVIOUS
<1> USE SizesAssumption, BoundAssumption
<1>1. 0 \in Ids /\ 1 \in Sizes /\ 0 \in 0..MaxSize /\ 0 \in 0..(MaxId + 1)
    BY DEF Ids, Sizes
<1>2. TypeOK
    <2>1. running \in Streams
        BY <1>1 DEF Init, Streams
    <2>2. in_q \in Seq(Ids) /\ received \in [Ids -> Nat] /\ size_of \in [Ids -> 0..MaxSize]
        BY <1>1 DEF Init
    <2> QED BY <1>1, <2>1, <2>2 DEF Init, TypeOK
<1>3. Phases /\ OneFramePerPicture /\ Consecutive
    BY DEF Init, Phases, OneFramePerPicture, Consecutive
<1>4. Pending
    BY <1>1 DEF Init, Pending, Ids
<1>5. Ended
    BY <1>1 DEF Init, Ended, WholeOrNone
<1> QED BY <1>2, <1>3, <1>4, <1>5 DEF IInv

(* The undefined behaviour that may halt the machine changes nothing else. *)
LEMMA HaltChangesNothing ==
    ASSUME GetFromUnsetQueue \/ ChunkOverwritesMemory
    PROVE  /\ halted' = TRUE
           /\ UNCHANGED <<in_q, next_gen, last_finished, mutex>>
           /\ UNCHANGED <<running, stream_running, cam, request, object, frozen>>
           /\ UNCHANGED <<demo, id, image_size, received, last, size_of, timed_out>>
<1>1. CASE GetFromUnsetQueue
    BY <1>1 DEF GetFromUnsetQueue, camera_vars, demo_vars, history
<1>2. CASE ChunkOverwritesMemory
    BY <1>2 DEF ChunkOverwritesMemory, camera_vars, demo_vars, history
<1> QED BY <1>1, <1>2

LEMMA TypesKept ==
    ASSUME TypeOK, [Next]_vars
    PROVE  TypeOK'
<1> USE SizesAssumption, BoundAssumption
<1>1. CASE SchedulePicture
    <2>1. Len(in_q) < RequestQueueSize => in_q' \in Seq(Ids) /\ id' \in Ids /\ next_gen' \in 0..(MaxId + 1)
        <3>1. next_gen \in Nat /\ next_gen <= MaxId /\ next_gen \in Ids
            BY <1>1 DEF SchedulePicture, TypeOK, Ids
        <3>2. in_q \in Seq(Ids)
            BY DEF TypeOK
        <3>3. Append(in_q, next_gen) \in Seq(Ids)
            BY <3>1, <3>2, QueueFacts
        <3> QED BY <1>1, <3>1, <3>3 DEF SchedulePicture, Ids
    <2> QED BY <1>1, <2>1 DEF SchedulePicture, TypeOK, camera_vars, history
<1>2. CASE ScheduleTimesOut
    BY <1>2 DEF ScheduleTimesOut, TypeOK, Streams, camera_vars, demo_vars, history
<1>3. CASE ReadImageSize
    <2>1. ImageSizes(id) \subseteq 0..MaxSize
        BY DEF ImageSizes, TypeOK, Streams, Sizes
    <2> QED BY <1>3, <2>1 DEF ReadImageSize, TypeOK, camera_vars, history
<1>4. CASE Connect
    BY <1>4 DEF Connect, TypeOK, Streams, camera_vars, demo_vars, history
<1>5. CASE LoopEnds
    BY <1>5 DEF LoopEnds, TypeOK, Streams, camera_vars, demo_vars, history
<1>6. CASE GetNextChunk
    <2>1. Head(running.out_q) \in Nat /\ Tail(running.out_q) \in Seq(Nat)
        BY <1>6, QueueFacts DEF GetNextChunk, TypeOK, Streams
    <2>2. running' \in Streams
        BY <1>6, <2>1 DEF GetNextChunk, TypeOK, Streams
    <2>3. received' \in [Ids -> Nat]
        <3>1. id \in Ids /\ received \in [Ids -> Nat] /\ received[id] + 1 \in Nat
            BY DEF TypeOK
        <3> QED BY <1>6, <3>1 DEF GetNextChunk
    <2>4. last' \in [id : Ids, chunk : Nat]
        BY <1>6, <2>1 DEF GetNextChunk, TypeOK
    <2> QED BY <1>6, <2>2, <2>3, <2>4 DEF GetNextChunk, TypeOK
<1>7. CASE GetFromUnsetQueue \/ ChunkOverwritesMemory
    <2>1. halted' \in BOOLEAN
        BY <1>7, HaltChangesNothing
    <2>2. /\ UNCHANGED <<in_q, next_gen, last_finished, mutex>>
          /\ UNCHANGED <<running, stream_running, cam, request, object, frozen>>
          /\ UNCHANGED <<demo, id, image_size, received, last, size_of, timed_out>>
        BY <1>7, HaltChangesNothing
    <2> QED BY <2>1, <2>2 DEF TypeOK
<1>8. CASE SendChunk
    BY <1>8 DEF SendChunk, TypeOK, Streams, camera_vars, demo_vars, history
<1>9. CASE AbandonPicture
    BY <1>9 DEF AbandonPicture, TypeOK, Streams, camera_vars, demo_vars, history
<1>10. CASE TakePictureReturns
    BY <1>10 DEF TakePictureReturns, TypeOK, Streams, camera_vars, demo_vars, history
<1>11. CASE TakeRequest
    <2>1. Head(in_q) \in Ids /\ Tail(in_q) \in Seq(Ids)
        BY <1>11, QueueFacts DEF TakeRequest, TypeOK
    <2> QED BY <1>11, <2>1 DEF TakeRequest, TypeOK, demo_vars, history
<1>12. CASE StartFails
    BY <1>12 DEF StartFails, TypeOK, Streams, camera_vars, demo_vars, history
<1>13. CASE StartStream
    BY <1>13 DEF StartStream, TypeOK, Streams, camera_vars, demo_vars, history
<1>14. ASSUME NEW n \in Sizes, SetMembers(n) PROVE TypeOK'
    <2>1. running' \in Streams
        <3>1. <<>> \in Seq(Nat) /\ 0 \in Nat /\ running \in Streams
            BY DEF TypeOK
        <3> QED BY <1>14, <3>1 DEF SetMembers, Streams
    <2>2. size_of' \in [Ids -> 0..MaxSize]
        <3>1. n \in 0..MaxSize
            BY <1>14 DEF Sizes
        <3> QED BY <1>14, <3>1 DEF SetMembers, TypeOK
    <2> QED BY <1>14, <2>1, <2>2 DEF SetMembers, TypeOK, demo_vars
<1>15. CASE FetchChunk
    BY <1>15 DEF FetchChunk, TypeOK, Streams, camera_vars, demo_vars, history
<1>16. CASE FetchFails
    BY <1>16 DEF FetchFails, TypeOK, Streams, camera_vars, demo_vars, history, FrozenAfterRead
<1>17. CASE QueueChunk
    <2>1. QueueSend(running.out_q, running.completed_chunks) \in Seq(Nat)
        BY QueueFacts DEF TypeOK, Streams, QueueSend
    <2>2. running' \in Streams
        BY <1>17, <2>1 DEF QueueChunk, TypeOK, Streams
    <2> QED BY <1>17, <2>2 DEF QueueChunk, TypeOK, demo_vars, history
<1>18. CASE CountChunk
    <2>1. running' \in Streams
        <3>1. running \in Streams /\ running.completed_chunks + 1 \in Nat
            BY DEF TypeOK, Streams
        <3>2. StatusAfter(running.completed_chunks + 1, running.total_size) \in {"RUNNING", "DONE"}
            BY DEF StatusAfter
        <3> QED BY <1>18, <3>1, <3>2 DEF CountChunk, Streams
    <2> QED BY <1>18, <2>1 DEF CountChunk, TypeOK, demo_vars, history
<1>19. CASE FinishStream
    BY <1>19 DEF FinishStream, TypeOK, Streams, camera_vars, demo_vars, history
<1>20. CASE StopFinished
    BY <1>20 DEF StopFinished, TypeOK, Streams, camera_vars, demo_vars, history, RunningAtFree
<1>21. CASE StreamTimesOut
    BY <1>21 DEF StreamTimesOut, TypeOK, Streams, camera_vars, demo_vars, history, RunningAtFree
<1>22. CASE TakeMutex
    BY <1>22 DEF TakeMutex, TypeOK, Streams, camera_vars, demo_vars, history
<1>23. CASE GiveMutex
    BY <1>23 DEF GiveMutex, TypeOK, Streams, camera_vars, demo_vars, history
<1>24. CASE LeakStream
    BY <1>24 DEF LeakStream, TypeOK, Streams, camera_vars, demo_vars, history
<1>25. CASE UNCHANGED vars
    BY <1>25 DEF vars, TypeOK, Streams, camera_vars, demo_vars, history
<1> QED
    BY <1>1, <1>2, <1>3, <1>4, <1>5, <1>6, <1>7, <1>8, <1>9, <1>10, <1>11, <1>12, <1>13, <1>14,
       <1>15, <1>16, <1>17, <1>18, <1>19, <1>20, <1>21, <1>22, <1>23, <1>24, <1>25 DEF Next, DemoStep, CameraStep, Trouble

LEMMA PhasesKept ==
    ASSUME TypeOK, Phases, [Next]_vars
    PROVE  Phases'
<1> USE SizesAssumption, BoundAssumption
<1>1. CASE SchedulePicture
    BY <1>1 DEF SchedulePicture, TypeOK, Streams, Phases, camera_vars, demo_vars, history
<1>2. CASE ScheduleTimesOut
    BY <1>2 DEF ScheduleTimesOut, TypeOK, Streams, Phases, camera_vars, demo_vars, history
<1>3. CASE ReadImageSize
    BY <1>3 DEF ReadImageSize, TypeOK, Streams, Phases, camera_vars, demo_vars, history
<1>4. CASE Connect
    BY <1>4 DEF Connect, TypeOK, Streams, Phases, camera_vars, demo_vars, history
<1>5. CASE LoopEnds
    BY <1>5 DEF LoopEnds, TypeOK, Streams, Phases, camera_vars, demo_vars, history
<1>6. CASE GetNextChunk
    BY <1>6 DEF GetNextChunk, TypeOK, Streams, Phases, camera_vars, demo_vars, history
<1>7. CASE GetFromUnsetQueue \/ ChunkOverwritesMemory
    <2>1. UNCHANGED <<running, stream_running, cam, request, object, frozen>>
        BY <1>7, HaltChangesNothing
    <2> QED BY <2>1 DEF Phases
<1>8. CASE SendChunk
    BY <1>8 DEF SendChunk, TypeOK, Streams, Phases, camera_vars, demo_vars, history
<1>9. CASE AbandonPicture
    BY <1>9 DEF AbandonPicture, TypeOK, Streams, Phases, camera_vars, demo_vars, history
<1>10. CASE TakePictureReturns
    BY <1>10 DEF TakePictureReturns, TypeOK, Streams, Phases, camera_vars, demo_vars, history
<1>11. CASE TakeRequest
    BY <1>11 DEF TakeRequest, TypeOK, Streams, Phases, camera_vars, demo_vars, history
<1>12. CASE StartFails
    BY <1>12 DEF StartFails, TypeOK, Streams, Phases, camera_vars, demo_vars, history
<1>13. CASE StartStream
    BY <1>13 DEF StartStream, TypeOK, Streams, Phases, camera_vars, demo_vars, history
<1>14. ASSUME NEW n \in Sizes, SetMembers(n) PROVE Phases'
    BY <1>14 DEF SetMembers, TypeOK, Streams, Phases, camera_vars, demo_vars, history
<1>15. CASE FetchChunk
    BY <1>15 DEF FetchChunk, TypeOK, Streams, Phases, camera_vars, demo_vars, history
<1>16. CASE FetchFails
    BY <1>16 DEF FetchFails, TypeOK, Streams, Phases, camera_vars, demo_vars, history
<1>17. CASE QueueChunk
    BY <1>17 DEF QueueChunk, TypeOK, Streams, Phases, camera_vars, demo_vars, history
<1>18. CASE CountChunk
    BY <1>18 DEF CountChunk, TypeOK, Streams, Phases, camera_vars, demo_vars, history
<1>19. CASE FinishStream
    BY <1>19 DEF FinishStream, TypeOK, Streams, Phases, camera_vars, demo_vars, history
<1>20. CASE StopFinished
    BY <1>20 DEF StopFinished, TypeOK, Streams, Phases, camera_vars, demo_vars, history,
       RunningAtFree
<1>21. CASE StreamTimesOut
    BY <1>21 DEF StreamTimesOut, TypeOK, Streams, Phases, camera_vars, demo_vars, history,
       RunningAtFree
<1>22. CASE TakeMutex
    BY <1>22 DEF TakeMutex, TypeOK, Streams, Phases, camera_vars, demo_vars, history
<1>23. CASE GiveMutex
    BY <1>23 DEF GiveMutex, TypeOK, Streams, Phases, camera_vars, demo_vars, history
<1>24. CASE LeakStream
    BY <1>24 DEF LeakStream, TypeOK, Streams, Phases, camera_vars, demo_vars, history
<1>25. CASE UNCHANGED vars
    BY <1>25 DEF vars, TypeOK, Streams, Phases, camera_vars, demo_vars, history
<1> QED
    BY <1>1, <1>2, <1>3, <1>4, <1>5, <1>6, <1>7, <1>8, <1>9, <1>10, <1>11, <1>12, <1>13, <1>14,
       <1>15, <1>16, <1>17, <1>18, <1>19, <1>20, <1>21, <1>22, <1>23, <1>24, <1>25 DEF Next, DemoStep, CameraStep, Trouble

LEMMA FrameKept ==
    ASSUME TypeOK, Phases, OneFramePerPicture, [Next]_vars
    PROVE  OneFramePerPicture'
<1> USE SizesAssumption, BoundAssumption
<1>1. CASE SchedulePicture
    BY <1>1 DEF SchedulePicture, OneFramePerPicture, Phases, TypeOK, Streams, camera_vars,
       demo_vars, history
<1>2. CASE ScheduleTimesOut
    BY <1>2 DEF ScheduleTimesOut, OneFramePerPicture, Phases, TypeOK, Streams, camera_vars,
       demo_vars, history
<1>3. CASE ReadImageSize
    BY <1>3 DEF ReadImageSize, OneFramePerPicture, Phases, TypeOK, Streams, camera_vars,
       demo_vars, history
<1>4. CASE Connect
    BY <1>4 DEF Connect, OneFramePerPicture, Phases, TypeOK, Streams, camera_vars, demo_vars,
       history
<1>5. CASE LoopEnds
    BY <1>5 DEF LoopEnds, OneFramePerPicture, Phases, TypeOK, Streams, camera_vars, demo_vars,
       history
<1>6. CASE GetNextChunk
    BY <1>6 DEF GetNextChunk, OneFramePerPicture, Phases, TypeOK, Streams, camera_vars,
       demo_vars, history
<1>7. CASE GetFromUnsetQueue \/ ChunkOverwritesMemory
    BY <1>7, HaltChangesNothing DEF OneFramePerPicture
<1>8. CASE SendChunk
    BY <1>8 DEF SendChunk, OneFramePerPicture, Phases, TypeOK, Streams, camera_vars, demo_vars,
       history
<1>9. CASE AbandonPicture
    BY <1>9 DEF AbandonPicture, OneFramePerPicture, Phases, TypeOK, Streams, camera_vars,
       demo_vars, history
<1>10. CASE TakePictureReturns
    BY <1>10 DEF TakePictureReturns, OneFramePerPicture, Phases, TypeOK, Streams, camera_vars,
       demo_vars, history
<1>11. CASE TakeRequest
    BY <1>11 DEF TakeRequest, OneFramePerPicture, Phases, TypeOK, Streams, camera_vars,
       demo_vars, history
<1>12. CASE StartFails
    BY <1>12 DEF StartFails, OneFramePerPicture, Phases, TypeOK, Streams, camera_vars,
       demo_vars, history
<1>13. CASE StartStream
    BY <1>13 DEF StartStream, OneFramePerPicture, Phases, TypeOK, Streams, camera_vars,
       demo_vars, history
<1>14. ASSUME NEW n \in Sizes, SetMembers(n) PROVE OneFramePerPicture'
    BY <1>14 DEF SetMembers, OneFramePerPicture, Phases, TypeOK, Streams, camera_vars,
       demo_vars, history
<1>15. CASE FetchChunk
    BY <1>15 DEF FetchChunk, OneFramePerPicture, Phases, TypeOK, Streams, camera_vars,
       demo_vars, history
<1>16. CASE FetchFails
    BY <1>16 DEF FetchFails, OneFramePerPicture, Phases, TypeOK, Streams, camera_vars,
       demo_vars, history, FrozenAfterRead
<1>17. CASE QueueChunk
    BY <1>17 DEF QueueChunk, OneFramePerPicture, Phases, TypeOK, Streams, camera_vars,
       demo_vars, history
<1>18. CASE CountChunk
    BY <1>18 DEF CountChunk, OneFramePerPicture, Phases, TypeOK, Streams, camera_vars,
       demo_vars, history
<1>19. CASE FinishStream
    BY <1>19 DEF FinishStream, OneFramePerPicture, Phases, TypeOK, Streams, camera_vars,
       demo_vars, history
<1>20. CASE StopFinished
    BY <1>20 DEF StopFinished, OneFramePerPicture, Phases, TypeOK, Streams, camera_vars,
       demo_vars, history
<1>21. CASE StreamTimesOut
    BY <1>21 DEF StreamTimesOut, OneFramePerPicture, Phases, TypeOK, Streams, camera_vars,
       demo_vars, history
<1>22. CASE TakeMutex
    BY <1>22 DEF TakeMutex, OneFramePerPicture, Phases, TypeOK, Streams, camera_vars,
       demo_vars, history
<1>23. CASE GiveMutex
    BY <1>23 DEF GiveMutex, OneFramePerPicture, Phases, TypeOK, Streams, camera_vars,
       demo_vars, history
<1>24. CASE LeakStream
    BY <1>24 DEF LeakStream, OneFramePerPicture, Phases, TypeOK, Streams, camera_vars,
       demo_vars, history
<1>25. CASE UNCHANGED vars
    BY <1>25 DEF vars, OneFramePerPicture, Phases, TypeOK, Streams, camera_vars, demo_vars,
       history
<1> QED
    BY <1>1, <1>2, <1>3, <1>4, <1>5, <1>6, <1>7, <1>8, <1>9, <1>10, <1>11, <1>12, <1>13, <1>14,
       <1>15, <1>16, <1>17, <1>18, <1>19, <1>20, <1>21, <1>22, <1>23, <1>24, <1>25 DEF Next, DemoStep, CameraStep, Trouble

LEMMA PendingKept ==
    ASSUME TypeOK, Phases, Pending, [Next]_vars
    PROVE  Pending'
<1> USE SizesAssumption, BoundAssumption
<1>1. CASE SchedulePicture
    <2>1. CASE Len(in_q) < RequestQueueSize
        <3>1. next_gen \in Ids /\ in_q \in Seq(Ids) /\ in_q' = Append(in_q, next_gen)
            BY <1>1, <2>1 DEF SchedulePicture, TypeOK, Ids
        <3>2. /\ Len(in_q') = Len(in_q) + 1
              /\ \A k \in 1..Len(in_q) : in_q'[k] = in_q[k]
              /\ in_q'[Len(in_q) + 1] = next_gen
            BY <3>1, QueueFacts
        <3>3. next_gen' = next_gen + 1 /\ received[next_gen] = 0
            BY <1>1, <2>1, <3>1 DEF SchedulePicture, Pending, Ids
        <3>4. Len(in_q) \in Nat /\ \A k \in 1..Len(in_q) : in_q[k] \in Int
            BY <3>1 DEF Ids
        <3>5. UNCHANGED <<running, stream_running, cam, request, received>>
            BY <1>1 DEF SchedulePicture, history, camera_vars
        <3>6. /\ next_gen \in Int /\ running.id \in Int /\ request \in Int
              /\ \A j \in Ids : j \in Int
              /\ cam = "starting" => ~stream_running
            BY <3>1 DEF TypeOK, Streams, Ids, Phases
        <3>7. /\ running'.id <= next_gen' /\ (stream_running' => running'.id < next_gen')
              /\ \A j \in Ids : j > running'.id \/ j >= next_gen' => received'[j] = 0
              /\ cam' = "starting" =>
                   running'.id <= request' /\ request' < next_gen' /\ received'[request'] = 0
              /\ cam' = "unset" => received'[running'.id] = 0
            BY <3>3, <3>5, <3>6 DEF Pending
        <3>8. ASSUME NEW k \in 1..Len(in_q')
              PROVE  /\ running'.id <= in_q'[k] /\ in_q'[k] < next_gen' /\ received'[in_q'[k]] = 0
                     /\ stream_running' => running'.id < in_q'[k]
                     /\ cam' = "starting" => request' < in_q'[k]
            <4>1. CASE k \in 1..Len(in_q)
                BY <4>1, <3>2, <3>3, <3>4, <3>5, <3>6 DEF Pending
            <4>2. CASE k = Len(in_q) + 1
                BY <4>2, <3>2, <3>3, <3>5, <3>6 DEF Pending
            <4> QED BY <4>1, <4>2, <3>2, <3>4
        <3>9. ASSUME NEW k \in 1..Len(in_q'), NEW l \in 1..Len(in_q'), k < l
              PROVE  in_q'[k] < in_q'[l]
            <4>1. k \in 1..Len(in_q) /\ (l \in 1..Len(in_q) \/ l = Len(in_q) + 1)
                BY <3>2, <3>4, <3>9
            <4> QED BY <4>1, <3>2, <3>9 DEF Pending
        <3> QED BY <3>7, <3>8, <3>9 DEF Pending
    <2>2. CASE ~(Len(in_q) < RequestQueueSize)
        BY <1>1, <2>2 DEF SchedulePicture, Pending, camera_vars, history
    <2> QED BY <2>1, <2>2
<1>2. CASE ScheduleTimesOut
    BY <1>2 DEF ScheduleTimesOut, TypeOK, Streams, Ids, Phases, Pending, camera_vars,
       demo_vars, history
<1>3. CASE ReadImageSize
    BY <1>3 DEF ReadImageSize, TypeOK, Streams, Ids, Phases, Pending, camera_vars, demo_vars,
       history
<1>4. CASE Connect
    BY <1>4 DEF Connect, TypeOK, Streams, Ids, Phases, Pending, camera_vars, demo_vars, history
<1>5. CASE LoopEnds
    BY <1>5 DEF LoopEnds, TypeOK, Streams, Ids, Phases, Pending, camera_vars, demo_vars, history
<1>6. CASE GetNextChunk
    <2>1. running'.id = running.id /\ id = running.id /\ stream_running
        BY <1>6 DEF GetNextChunk, IsRunning, TypeOK, Streams
    <2>2. \A j \in Ids : j # running.id => received'[j] = received[j]
        BY <1>6, <2>1 DEF GetNextChunk, TypeOK
    <2>3. \A k \in 1..Len(in_q) : in_q[k] \in Ids
        BY DEF TypeOK
    <2>4. UNCHANGED <<in_q, next_gen, stream_running, cam, request>> /\ cam # "unset" /\ cam # "starting"
        BY <1>6, <2>1 DEF GetNextChunk, Phases
    <2>5. next_gen \in Int /\ running.id \in Int /\ \A j \in Ids : j \in Int
        BY DEF TypeOK, Streams, Ids
    <2>6. \A j \in Ids : j > running.id \/ j >= next_gen => received'[j] = 0
        BY <2>1, <2>2, <2>5 DEF Pending
    <2>7. \A k \in 1..Len(in_q) : running.id < in_q[k] /\ received'[in_q[k]] = 0
        BY <2>1, <2>3, <2>5, <2>6 DEF Pending
    <2> QED BY <2>1, <2>4, <2>6, <2>7 DEF Pending
<1>7. CASE GetFromUnsetQueue \/ ChunkOverwritesMemory
    <2>1. UNCHANGED <<in_q, next_gen, running, stream_running, cam, request, received>>
        BY <1>7, HaltChangesNothing
    <2> QED BY <2>1 DEF Pending
<1>8. CASE SendChunk
    BY <1>8 DEF SendChunk, TypeOK, Streams, Ids, Phases, Pending, camera_vars, demo_vars,
       history
<1>9. CASE AbandonPicture
    BY <1>9 DEF AbandonPicture, TypeOK, Streams, Ids, Phases, Pending, camera_vars, demo_vars,
       history
<1>10. CASE TakePictureReturns
    BY <1>10 DEF TakePictureReturns, TypeOK, Streams, Ids, Phases, Pending, camera_vars,
       demo_vars, history
<1>11. CASE TakeRequest
    <2>1. /\ Len(in_q) \in Nat \ {0} /\ request' = in_q[1] /\ Len(in_q') = Len(in_q) - 1
          /\ \A k \in 1..Len(in_q') : in_q'[k] = in_q[k + 1]
        BY <1>11, QueueFacts DEF TakeRequest, TypeOK
    <2>2. /\ UNCHANGED <<running, next_gen, stream_running, received>>
          /\ cam' = "starting" /\ ~stream_running
        BY <1>11 DEF TakeRequest, history
    <2>3. \A k \in 1..Len(in_q') : k + 1 \in 1..Len(in_q) /\ 1 < k + 1
        BY <2>1
    <2>4. 1 \in 1..Len(in_q)
        BY <2>1
    <2>5. running.id <= request' /\ request' < next_gen /\ received[request'] = 0
        BY <2>1, <2>4 DEF Pending
    <2>6. \A k \in 1..Len(in_q') :
             /\ running.id <= in_q'[k] /\ in_q'[k] < next_gen /\ received[in_q'[k]] = 0
             /\ request' < in_q'[k]
        BY <2>1, <2>3, <2>4 DEF Pending
    <2>7. \A k, l \in 1..Len(in_q') : k < l => in_q'[k] < in_q'[l]
        BY <2>1, <2>3 DEF Pending
    <2> QED BY <2>2, <2>5, <2>6, <2>7 DEF Pending
<1>12. CASE StartFails
    BY <1>12 DEF StartFails, TypeOK, Streams, Ids, Phases, Pending, camera_vars, demo_vars,
       history
<1>13. CASE StartStream
    <2>1. running'.id = request /\ stream_running' /\ cam = "starting" /\ cam' = "unset"
        BY <1>13 DEF StartStream, TypeOK, Streams
    <2>2. UNCHANGED <<in_q, next_gen, received>>
        BY <1>13 DEF StartStream, history
    <2>3. /\ \A k \in 1..Len(in_q) : in_q[k] \in Int
          /\ \A j \in Ids : j \in Int
          /\ running.id \in Int /\ request \in Int /\ next_gen \in Int
        <3>1. \A j \in Ids : j \in Int
            BY DEF Ids
        <3>2. /\ \A k \in 1..Len(in_q) : in_q[k] \in Ids
              /\ running.id \in Ids /\ request \in Ids /\ next_gen \in 0..(MaxId + 1)
            BY DEF TypeOK, Streams
        <3> QED BY <3>1, <3>2
    <2> QED BY <2>1, <2>2, <2>3 DEF Pending
<1>14. ASSUME NEW n \in Sizes, SetMembers(n) PROVE Pending'
    BY <1>14 DEF SetMembers, TypeOK, Streams, Ids, Phases, Pending, camera_vars, demo_vars,
       history
<1>15. CASE FetchChunk
    BY <1>15 DEF FetchChunk, TypeOK, Streams, Ids, Phases, Pending, camera_vars, demo_vars,
       history
<1>16. CASE FetchFails
    BY <1>16 DEF FetchFails, TypeOK, Streams, Ids, Phases, Pending, camera_vars, demo_vars,
       history
<1>17. CASE QueueChunk
    BY <1>17 DEF QueueChunk, TypeOK, Streams, Ids, Phases, Pending, camera_vars, demo_vars,
       history
<1>18. CASE CountChunk
    BY <1>18 DEF CountChunk, TypeOK, Streams, Ids, Phases, Pending, camera_vars, demo_vars,
       history
<1>19. CASE FinishStream
    BY <1>19 DEF FinishStream, TypeOK, Streams, Ids, Phases, Pending, camera_vars, demo_vars,
       history
<1>20. CASE StopFinished
    BY <1>20 DEF StopFinished, TypeOK, Streams, Ids, Phases, Pending, camera_vars, demo_vars,
       history, RunningAtFree
<1>21. CASE StreamTimesOut
    BY <1>21 DEF StreamTimesOut, TypeOK, Streams, Ids, Phases, Pending, camera_vars, demo_vars,
       history, RunningAtFree
<1>22. CASE TakeMutex
    BY <1>22 DEF TakeMutex, TypeOK, Streams, Ids, Phases, Pending, camera_vars, demo_vars,
       history
<1>23. CASE GiveMutex
    BY <1>23 DEF GiveMutex, TypeOK, Streams, Ids, Phases, Pending, camera_vars, demo_vars,
       history
<1>24. CASE LeakStream
    BY <1>24 DEF LeakStream, TypeOK, Streams, Ids, Phases, Pending, camera_vars, demo_vars,
       history
<1>25. CASE UNCHANGED vars
    BY <1>25 DEF vars, TypeOK, Streams, Ids, Phases, Pending, camera_vars, demo_vars, history
<1> QED
    BY <1>1, <1>2, <1>3, <1>4, <1>5, <1>6, <1>7, <1>8, <1>9, <1>10, <1>11, <1>12, <1>13, <1>14,
       <1>15, <1>16, <1>17, <1>18, <1>19, <1>20, <1>21, <1>22, <1>23, <1>24, <1>25 DEF Next, DemoStep, CameraStep, Trouble

LEMMA ConsecutiveKept ==
    ASSUME TypeOK, Phases, Pending, Consecutive, [Next]_vars
    PROVE  Consecutive'
<1> USE SizesAssumption, BoundAssumption
<1>1. CASE SchedulePicture
    BY <1>1 DEF SchedulePicture, TypeOK, Streams, Phases, Pending, Consecutive, camera_vars,
       demo_vars, history
<1>2. CASE ScheduleTimesOut
    BY <1>2 DEF ScheduleTimesOut, TypeOK, Streams, Phases, Pending, Consecutive, camera_vars,
       demo_vars, history
<1>3. CASE ReadImageSize
    BY <1>3 DEF ReadImageSize, TypeOK, Streams, Phases, Pending, Consecutive, camera_vars,
       demo_vars, history
<1>4. CASE Connect
    BY <1>4 DEF Connect, TypeOK, Streams, Phases, Pending, Consecutive, camera_vars, demo_vars,
       history
<1>5. CASE LoopEnds
    BY <1>5 DEF LoopEnds, TypeOK, Streams, Phases, Pending, Consecutive, camera_vars,
       demo_vars, history
<1>6. CASE GetNextChunk
    <2> DEFINE q == running.out_q
    <2>1. /\ Len(q) \in Nat \ {0} /\ Len(running'.out_q) = Len(q) - 1
          /\ \A k \in 1..(Len(q) - 1) : running'.out_q[k] = q[k + 1]
        BY <1>6, QueueFacts DEF GetNextChunk, TypeOK, Streams
    <2>2. /\ running'.id = running.id /\ running'.status = running.status
          /\ running'.completed_chunks = running.completed_chunks
          /\ running'.total_size = running.total_size
          /\ received'[running.id] = received[running.id] + 1
          /\ UNCHANGED <<stream_running, object, cam, size_of>>
        BY <1>6 DEF GetNextChunk, IsRunning, TypeOK, Streams
    <2>3. running.id \in Ids /\ received[running.id] \in Nat /\ running.completed_chunks \in Nat
        BY DEF TypeOK, Streams
    <2>4. stream_running /\ object = "live"
        BY <1>6 DEF GetNextChunk, IsRunning, Phases, TypeOK
    <2>5. \A k \in 1..(Len(q) - 1) : running'.out_q[k] = received[running.id] + (k + 1) - 1
        <3>1. \A k \in 1..(Len(q) - 1) : k + 1 \in 1..Len(q)
            BY <2>1
        <3>2. \A k \in 1..Len(q) : q[k] = received[running.id] + k - 1
            BY <2>4 DEF Consecutive
        <3> QED BY <2>1, <3>1, <3>2
    <2>6. received[running.id] + Len(q) = running.completed_chunks + (IF cam = "queued" THEN 1 ELSE 0)
        BY <2>4 DEF Consecutive
    <2>7. \A k \in 1..Len(running'.out_q) : running'.out_q[k] = received'[running'.id] + k - 1
        <3> HIDE DEF q
        <3>1. Len(running'.out_q) = Len(q) - 1 /\ Len(q) \in Nat
            BY <2>1
        <3>2. received'[running'.id] = received[running.id] + 1
            BY <2>2
        <3>3. SUFFICES ASSUME NEW k \in 1..Len(running'.out_q)
                       PROVE  running'.out_q[k] = (received[running.id] + 1) + k - 1
            BY <3>2
        <3>4. k \in 1..(Len(q) - 1) /\ k \in Int
            BY <3>1
        <3>5. running'.out_q[k] = received[running.id] + (k + 1) - 1
            BY <3>4, <2>5
        <3>6. received[running.id] \in Int
            BY <2>3
        <3> QED BY <3>4, <3>5, <3>6
    <2>8. received'[running'.id] + Len(running'.out_q)
             = running'.completed_chunks + (IF cam' = "queued" THEN 1 ELSE 0)
        <3> HIDE DEF q
        <3>1. received[running.id] + 1 + (Len(q) - 1) = received[running.id] + Len(q)
            <4>1. Len(q) \in Nat /\ received[running.id] \in Nat
                BY <2>1, <2>3
            <4> QED BY <4>1, SMT
        <3>2. cam' = cam
            BY <2>2
        <3> QED BY <2>1, <2>2, <2>6, <3>1, <3>2
    <2>9. Len(running'.out_q) < OutQueueSize \/ cam # "fetching"
        BY <2>1, <2>4 DEF Consecutive
    <2> QED BY <2>2, <2>4, <2>7, <2>8, <2>9 DEF Consecutive
<1>7. CASE GetFromUnsetQueue \/ ChunkOverwritesMemory
    BY <1>7, HaltChangesNothing DEF Consecutive
<1>8. CASE SendChunk
    BY <1>8 DEF SendChunk, TypeOK, Streams, Phases, Pending, Consecutive, camera_vars,
       demo_vars, history
<1>9. CASE AbandonPicture
    BY <1>9 DEF AbandonPicture, TypeOK, Streams, Phases, Pending, Consecutive, camera_vars,
       demo_vars, history
<1>10. CASE TakePictureReturns
    BY <1>10 DEF TakePictureReturns, TypeOK, Streams, Phases, Pending, Consecutive,
       camera_vars, demo_vars, history
<1>11. CASE TakeRequest
    BY <1>11 DEF TakeRequest, TypeOK, Streams, Phases, Pending, Consecutive, camera_vars,
       demo_vars, history
<1>12. CASE StartFails
    BY <1>12 DEF StartFails, TypeOK, Streams, Phases, Pending, Consecutive, camera_vars,
       demo_vars, history
<1>13. CASE StartStream
    <2>1. object' = "unset"
        BY <1>13 DEF StartStream
    <2> QED BY <2>1 DEF Consecutive
<1>14. ASSUME NEW n \in Sizes, SetMembers(n) PROVE Consecutive'
    <2>1. /\ running'.out_q = <<>> /\ running'.completed_chunks = 0 /\ running'.total_size = n
          /\ running'.id = running.id /\ running'.status = "RUNNING"
          /\ size_of'[running.id] = n /\ received' = received /\ cam' = "top"
        BY <1>14 DEF SetMembers, TypeOK, Streams, Phases
    <2>2. received[running.id] = 0
        BY <1>14 DEF SetMembers, Pending
    <2> QED BY <2>1, <2>2 DEF Consecutive, Sizes
<1>15. CASE FetchChunk
    BY <1>15 DEF FetchChunk, TypeOK, Streams, Phases, Pending, Consecutive, camera_vars,
       demo_vars, history, HasRoom
<1>16. CASE FetchFails
    BY <1>16 DEF FetchFails, TypeOK, Streams, Phases, Pending, Consecutive, camera_vars,
       demo_vars, history, FrozenAfterRead
<1>17. CASE QueueChunk
    <2> DEFINE q == running.out_q
                c == running.completed_chunks
    <2>1. stream_running /\ object = "live" /\ Len(q) < OutQueueSize /\ c = received[running.id] + Len(q)
        BY <1>17 DEF QueueChunk, Phases, Consecutive, TypeOK, Streams
    <2>2. /\ Len(q) \in Nat /\ c \in Nat
          /\ Len(running'.out_q) = Len(q) + 1
          /\ \A k \in 1..Len(q) : running'.out_q[k] = q[k]
          /\ running'.out_q[Len(q) + 1] = c
        <3>1. q \in Seq(Nat) /\ c \in Nat
            BY DEF TypeOK, Streams
        <3>2. running'.out_q = Append(q, c)
            BY <1>17, <2>1 DEF QueueChunk, QueueSend, TypeOK, Streams
        <3> QED BY <3>1, <3>2, QueueFacts
    <2>3. /\ running'.id = running.id /\ running'.status = running.status
          /\ running'.completed_chunks = c /\ running'.total_size = running.total_size
          /\ cam = "fetching" /\ cam' = "queued" /\ UNCHANGED <<received, size_of>>
        BY <1>17 DEF QueueChunk, TypeOK, Streams, history
    <2>4. received[running.id] \in Nat
        BY DEF TypeOK, Streams
    <2>5. ASSUME NEW k \in 1..Len(running'.out_q)
          PROVE  running'.out_q[k] = received[running.id] + k - 1
        <3>1. CASE k \in 1..Len(q)
            BY <3>1, <2>1, <2>2 DEF Consecutive
        <3>2. CASE k = Len(q) + 1
            BY <3>2, <2>1, <2>2, <2>4
        <3> QED BY <3>1, <3>2, <2>2
    <2>6. received[running.id] + Len(running'.out_q) = c + 1
        BY <2>1, <2>2, <2>4
    <2> QED BY <2>1, <2>3, <2>5, <2>6 DEF Consecutive
<1>18. CASE CountChunk
    <2>1. /\ running'.out_q = running.out_q /\ running'.id = running.id
          /\ running'.total_size = running.total_size
          /\ running'.completed_chunks = running.completed_chunks + 1
          /\ running'.status = StatusAfter(running.completed_chunks + 1, running.total_size)
          /\ cam = "queued" /\ cam' = "top" /\ UNCHANGED <<received, size_of, stream_running, object>>
        BY <1>18 DEF CountChunk, TypeOK, Streams, history
    <2>2. running.completed_chunks \in Nat /\ running.total_size \in Nat /\ Len(running.out_q) \in Nat
        BY DEF TypeOK, Streams, Sizes
    <2>3. running.status = "RUNNING"
        BY <1>18 DEF CountChunk, Phases
    <2>4. received[running.id] \in Nat
        BY DEF TypeOK, Streams
    <2> QED BY <2>1, <2>2, <2>3, <2>4 DEF Consecutive, StatusAfter
<1>19. CASE FinishStream
    BY <1>19 DEF FinishStream, TypeOK, Streams, Phases, Pending, Consecutive, camera_vars,
       demo_vars, history
<1>20. CASE StopFinished
    BY <1>20 DEF StopFinished, TypeOK, Streams, Phases, Pending, Consecutive, camera_vars,
       demo_vars, history, RunningAtFree
<1>21. CASE StreamTimesOut
    BY <1>21 DEF StreamTimesOut, TypeOK, Streams, Phases, Pending, Consecutive, camera_vars,
       demo_vars, history, RunningAtFree
<1>22. CASE TakeMutex
    BY <1>22 DEF TakeMutex, TypeOK, Streams, Phases, Pending, Consecutive, camera_vars,
       demo_vars, history
<1>23. CASE GiveMutex
    BY <1>23 DEF GiveMutex, TypeOK, Streams, Phases, Pending, Consecutive, camera_vars,
       demo_vars, history
<1>24. CASE LeakStream
    BY <1>24 DEF LeakStream, TypeOK, Streams, Phases, Pending, Consecutive, camera_vars,
       demo_vars, history
<1>25. CASE UNCHANGED vars
    BY <1>25 DEF vars, TypeOK, Streams, Phases, Pending, Consecutive, camera_vars, demo_vars,
       history
<1> QED
    BY <1>1, <1>2, <1>3, <1>4, <1>5, <1>6, <1>7, <1>8, <1>9, <1>10, <1>11, <1>12, <1>13, <1>14,
       <1>15, <1>16, <1>17, <1>18, <1>19, <1>20, <1>21, <1>22, <1>23, <1>24, <1>25 DEF Next, DemoStep, CameraStep, Trouble

LEMMA EndedKept ==
    ASSUME TypeOK, Phases, Pending, Consecutive, Ended, [Next]_vars
    PROVE  Ended'
<1> USE SizesAssumption, BoundAssumption
<1>1. CASE SchedulePicture
    BY <1>1 DEF SchedulePicture, TypeOK, Streams, Phases, Ended, WholeOrNone, IsRunning,
       camera_vars, demo_vars, history
<1>2. CASE ScheduleTimesOut
    BY <1>2 DEF ScheduleTimesOut, TypeOK, Streams, Phases, Ended, WholeOrNone, IsRunning,
       camera_vars, demo_vars, history
<1>3. CASE ReadImageSize
    BY <1>3 DEF ReadImageSize, TypeOK, Streams, Phases, Ended, WholeOrNone, IsRunning,
       camera_vars, demo_vars, history
<1>4. CASE Connect
    BY <1>4 DEF Connect, TypeOK, Streams, Phases, Ended, WholeOrNone, IsRunning, camera_vars,
       demo_vars, history
<1>5. CASE LoopEnds
    <2>1. ~IsRunning(id)
        BY <1>5 DEF LoopEnds, StreamStatus, TypeOK, Streams
    <2>2. WholeOrNone(id)
        BY <2>1 DEF Ended, TypeOK
    <2> QED BY <1>5, <2>2 DEF LoopEnds, Ended, WholeOrNone, IsRunning, camera_vars, history
<1>6. CASE GetNextChunk
    <2>1. /\ id \in Ids /\ UNCHANGED <<size_of, timed_out, stream_running, id>> /\ running'.id = running.id
          /\ stream_running /\ running.id = id /\ demo' # "ended"
        BY <1>6 DEF GetNextChunk, IsRunning, TypeOK, Streams
    <2>2. \A i \in Ids : i # id => received'[i] = received[i]
        BY <1>6 DEF GetNextChunk, TypeOK
    <2> QED BY <2>1, <2>2 DEF Ended, WholeOrNone, IsRunning
<1>7. CASE GetFromUnsetQueue \/ ChunkOverwritesMemory
    <2>1. UNCHANGED <<received, size_of, timed_out, demo, id, running, stream_running>>
        BY <1>7, HaltChangesNothing
    <2> QED BY <2>1 DEF Ended, WholeOrNone, IsRunning
<1>8. CASE SendChunk
    BY <1>8 DEF SendChunk, TypeOK, Streams, Phases, Ended, WholeOrNone, IsRunning, camera_vars,
       demo_vars, history
<1>9. CASE AbandonPicture
    BY <1>9 DEF AbandonPicture, TypeOK, Streams, Phases, Ended, WholeOrNone, IsRunning,
       camera_vars, demo_vars, history
<1>10. CASE TakePictureReturns
    BY <1>10 DEF TakePictureReturns, TypeOK, Streams, Phases, Ended, WholeOrNone, IsRunning,
       camera_vars, demo_vars, history
<1>11. CASE TakeRequest
    BY <1>11 DEF TakeRequest, TypeOK, Streams, Phases, Ended, WholeOrNone, IsRunning,
       camera_vars, demo_vars, history
<1>12. CASE StartFails
    BY <1>12 DEF StartFails, TypeOK, Streams, Phases, Ended, WholeOrNone, IsRunning,
       camera_vars, demo_vars, history
<1>13. CASE StartStream
    BY <1>13 DEF StartStream, TypeOK, Streams, Phases, Ended, WholeOrNone, IsRunning,
       camera_vars, demo_vars, history
<1>14. ASSUME NEW n \in Sizes, SetMembers(n) PROVE Ended'
    <2>1. IsRunning(running.id)' /\ received' = received /\ timed_out' = timed_out /\ received[running.id] = 0
        BY <1>14 DEF SetMembers, IsRunning, Phases, Pending, TypeOK, Streams
    <2>2. \A i \in Ids : i # running.id => size_of'[i] = size_of[i] /\ ~IsRunning(i)
        BY <1>14 DEF SetMembers, TypeOK, IsRunning
    <2>3. received'[running.id] = 0 /\ running.id \in Ids
        BY <2>1 DEF TypeOK, Streams
    <2>4. \A i \in Ids : i # running.id => WholeOrNone(i) /\ WholeOrNone(i)'
        BY <2>1, <2>2 DEF Ended, WholeOrNone
    <2>5. id \in Ids /\ id' = id /\ demo' = demo
        BY <1>14 DEF SetMembers, TypeOK, demo_vars
    <2>6. ASSUME NEW i \in Ids, WholeOrNone(i) PROVE WholeOrNone(i)'
        BY <2>3, <2>4, <2>6 DEF WholeOrNone
    <2>7. running'.id = running.id /\ stream_running'
        BY <2>1, <1>14 DEF SetMembers, TypeOK, Streams, IsRunning
    <2>8. \A i \in Ids : WholeOrNone(i)' \/ (stream_running' /\ running'.id = i)
        BY <2>4, <2>7
    <2> QED BY <2>5, <2>6, <2>8 DEF Ended, IsRunning, WholeOrNone
<1>15. CASE FetchChunk
    BY <1>15 DEF FetchChunk, TypeOK, Streams, Phases, Ended, WholeOrNone, IsRunning,
       camera_vars, demo_vars, history
<1>16. CASE FetchFails
    BY <1>16 DEF FetchFails, TypeOK, Streams, Phases, Ended, WholeOrNone, IsRunning,
       camera_vars, demo_vars, history, FrozenAfterRead
<1>17. CASE QueueChunk
    BY <1>17 DEF QueueChunk, TypeOK, Streams, Phases, Ended, WholeOrNone, IsRunning,
       camera_vars, demo_vars, history
<1>18. CASE CountChunk
    BY <1>18 DEF CountChunk, TypeOK, Streams, Phases, Ended, WholeOrNone, IsRunning,
       camera_vars, demo_vars, history
<1>19. CASE FinishStream
    BY <1>19 DEF FinishStream, TypeOK, Streams, Phases, Ended, WholeOrNone, IsRunning,
       camera_vars, demo_vars, history
<1>20. CASE StopFinished
    <2>1. /\ running.status = "DONE" /\ running.out_q = <<>> /\ stream_running /\ object = "live"
          /\ cam # "queued"
        BY <1>20 DEF StopFinished, Phases
    <2>2. received[running.id] = size_of[running.id]
        BY <2>1, EmptySeq DEF Consecutive, TypeOK, Streams
    <2>3. \A i \in Ids : WholeOrNone(i)
        BY <2>2 DEF Ended, WholeOrNone, IsRunning
    <2> QED BY <1>20, <2>3 DEF StopFinished, Ended, WholeOrNone, demo_vars, history, TypeOK
<1>21. CASE StreamTimesOut
    BY <1>21 DEF StreamTimesOut, TypeOK, Streams, Phases, Ended, WholeOrNone, IsRunning,
       camera_vars, demo_vars, history, RunningAtFree
<1>22. CASE TakeMutex
    BY <1>22 DEF TakeMutex, TypeOK, Streams, Phases, Ended, WholeOrNone, IsRunning,
       camera_vars, demo_vars, history
<1>23. CASE GiveMutex
    BY <1>23 DEF GiveMutex, TypeOK, Streams, Phases, Ended, WholeOrNone, IsRunning,
       camera_vars, demo_vars, history
<1>24. CASE LeakStream
    BY <1>24 DEF LeakStream, TypeOK, Streams, Phases, Ended, WholeOrNone, IsRunning,
       camera_vars, demo_vars, history
<1>25. CASE UNCHANGED vars
    BY <1>25 DEF vars, TypeOK, Streams, Phases, Ended, WholeOrNone, IsRunning, camera_vars,
       demo_vars, history
<1> QED
    BY <1>1, <1>2, <1>3, <1>4, <1>5, <1>6, <1>7, <1>8, <1>9, <1>10, <1>11, <1>12, <1>13, <1>14,
       <1>15, <1>16, <1>17, <1>18, <1>19, <1>20, <1>21, <1>22, <1>23, <1>24, <1>25 DEF Next, DemoStep, CameraStep, Trouble

LEMMA NextKeepsIInv == IInv /\ [Next]_vars => IInv'
<1> SUFFICES ASSUME IInv, [Next]_vars PROVE IInv'
    OBVIOUS
<1>1. TypeOK /\ Phases /\ OneFramePerPicture /\ Pending /\ Consecutive /\ Ended
    BY DEF IInv
<1>2. TypeOK' /\ Phases'
    BY <1>1, TypesKept, PhasesKept
<1>3. OneFramePerPicture' /\ Pending'
    BY <1>1, FrameKept, PendingKept
<1>4. Consecutive' /\ Ended'
    BY <1>1, ConsecutiveKept, EndedKept
<1> QED BY <1>2, <1>3, <1>4 DEF IInv

LEMMA SpecImpliesIInv == Spec => []IInv
BY InitIInv, NextKeepsIInv, PTL DEF Spec

(* Every variable of the camera task and its client keeps its type.        *)
THEOREM TypeCorrect == Spec => []TypeOK
<1>1. IInv => TypeOK
    BY DEF IInv
<1> QED BY <1>1, SpecImpliesIInv, PTL

(* The demo task never looks at a stream the camera task has freed.        *)
THEOREM StreamsOutliveTheirReaders == Spec => []NoUseAfterFree
<1>1. IInv => NoUseAfterFree
    BY DEF IInv, Phases, NoUseAfterFree
<1> QED BY <1>1, SpecImpliesIInv, PTL

(* The chunks of one picture come from one frame of the camera.            *)
THEOREM PicturesAreOneFrame == Spec => []OneFramePerPicture
<1>1. IInv => OneFramePerPicture
    BY DEF IInv
<1> QED BY <1>1, SpecImpliesIInv, PTL

(* A client whose loop ended has pulled the whole picture or nothing.      *)
THEOREM PicturesAreWhole == Spec => []WholePictureOrNone
<1>1. IInv => WholePictureOrNone
    BY DEF IInv, Ended, WholeOrNone, WholePictureOrNone
<1> QED BY <1>1, SpecImpliesIInv, PTL

(* A pull is a delivery of PictureStream, every other step a stutter.      *)
LEMMA StepIsDelivery ==
    ASSUME IInv, [Next]_vars
    PROVE  [Abstract!Next]_<<received, last>>
<1>1. CASE GetNextChunk
    <2>1. TypeOK /\ Phases /\ Pending /\ Consecutive
        BY DEF IInv
    <2>2. id \in Ids /\ running.id = id /\ stream_running /\ object = "live"
        BY <1>1, <2>1 DEF GetNextChunk, IsRunning, TypeOK, Phases
    <2>3. Len(running.out_q) \in Nat \ {0} /\ Head(running.out_q) = running.out_q[1]
        BY <1>1, <2>1, QueueFacts DEF GetNextChunk, TypeOK, Streams
    <2>4. Head(running.out_q) = received[id]
        <3>1. 1 \in 1..Len(running.out_q) /\ received[id] \in Nat
            BY <2>1, <2>2, <2>3 DEF TypeOK
        <3>2. running.out_q[1] = received[id] + 1 - 1
            BY <2>1, <2>2, <3>1 DEF Consecutive
        <3> QED BY <2>3, <3>1, <3>2
    <2>5. \A j \in Ids : j > id => received[j] = 0
        BY <2>1, <2>2 DEF Pending
    <2>6. Abstract!Deliver(id)
        BY <1>1, <2>4, <2>5 DEF GetNextChunk, Abstract!Deliver
    <2> QED BY <2>2, <2>6 DEF Abstract!Next
<1>2. CASE ~GetNextChunk /\ Next
    <2>1. UNCHANGED <<received, last>>
        BY <1>2 DEF Next, DemoStep, CameraStep, Trouble, history, demo_vars,
             SchedulePicture, ScheduleTimesOut, ReadImageSize, Connect, LoopEnds,
             GetFromUnsetQueue, ChunkOverwritesMemory, SendChunk, AbandonPicture, TakePictureReturns, TakeRequest,
             StartFails, StartStream, SetMembers, FetchChunk, FetchFails, QueueChunk,
             CountChunk, FinishStream, StopFinished, StreamTimesOut, TakeMutex, GiveMutex,
             LeakStream
    <2> QED BY <2>1
<1>3. CASE UNCHANGED vars
    BY <1>3 DEF vars, history
<1> QED BY <1>1, <1>2, <1>3

(* CameraStream implements PictureStream: chunks are handed out in order,  *)
(* none twice, none missing, none of an earlier picture after a later one. *)
THEOREM ChunksComeInOrder == Spec => InOrder
<1>1. Init => Abstract!Init
    BY DEF Init, Abstract!Init
<1>2. IInv /\ [Next]_vars => [Abstract!Next]_<<received, last>>
    BY StepIsDelivery
<1> QED BY <1>1, <1>2, SpecImpliesIInv, PTL DEF Spec, InOrder, Abstract!Spec
=============================================================================
