---------------------------- MODULE CameraStream ----------------------------
(***************************************************************************)
(* app_camera.c: the camera task, which runs one picture stream at a time, *)
(* and the functions through which the demo task schedules a picture and   *)
(* pulls its chunks, as app_demo_take_picture calls them.                  *)
(*                                                                         *)
(* The demo task has the higher priority (main.c: 5 against 3).  It can    *)
(* preempt the camera task between any two of its statements, and is never *)
(* preempted by it: a function of the demo task is one step unless it      *)
(* blocks, and the camera task is cut wherever the demo task could see the *)
(* difference.  Streams are counted in chunks, so the shorter last chunk   *)
(* is one chunk as well.                                                   *)
(*                                                                         *)
(* Three pieces of the code have no defined behaviour: the queue of a      *)
(* stream whose members are not assigned yet, freeing a stream whose queue *)
(* is not empty (it copies a chunk over a pointer and frees what the image *)
(* data points to), and pulling a chunk, whose address is written to where *)
(* an uninitialised local points.  The machine goes on, or halts.          *)
(***************************************************************************)
EXTENDS Naturals, Sequences

CONSTANTS
    RequestQueueSize,   \* APP_CAMERA_DEFAULT_REQUEST_QUEUE_SIZE
    OutQueueSize,       \* APP_CAMERA_DEFAULT_STREAM_OUT_QUEUE_SIZE
    MaxSize,            \* bound: chunks of a picture
    MaxId               \* bound: pictures scheduled, less one

ASSUME SizesAssumption ==
    /\ RequestQueueSize \in Nat \ {0} /\ OutQueueSize \in Nat \ {0}
    /\ MaxSize \in Nat \ {0}
ASSUME BoundAssumption == MaxId \in Nat

VARIABLES
    \* app_camera_state
    in_q, running, next_gen, last_finished, stream_running, mutex,
    \* the camera task: where it is, and the request it is starting
    cam, request,
    object,         \* what running points to: "none", "unset", or "live"
    frozen,         \* the camera holds its frame buffer (stop_frame)
    \* the demo task: where it is in app_demo_take_picture, and its locals
    demo, id, image_size,
    halted,         \* undefined behaviour took the machine down
    \* history
    received, last, size_of, timed_out

camera_vars == <<running, stream_running, cam, request, object, frozen>>
demo_vars == <<demo, id, image_size>>
history == <<received, last, size_of, timed_out>>
vars == <<in_q, next_gen, last_finished, mutex, camera_vars, demo_vars, halted, history>>

Ids == 0..MaxId
Sizes == 1..MaxSize

Init ==
    /\ in_q = <<>>
    /\ running = [id |-> 0, status |-> "RUNNING", completed_chunks |-> 0,
                  total_size |-> 1, out_q |-> <<>>]
    /\ next_gen = 0
    /\ last_finished = 0
    /\ stream_running = FALSE
    /\ mutex = "free"
    /\ cam = "top"
    /\ request = 0
    /\ object = "none"
    /\ frozen = FALSE
    /\ demo = "idle"
    /\ id = 0
    /\ image_size = 0
    /\ halted = FALSE
    /\ received = [i \in Ids |-> 0]
    /\ last = [id |-> 0, chunk |-> 0]
    /\ size_of = [i \in Ids |-> 0]
    /\ timed_out = {}

-----------------------------------------------------------------------------
(* The functions the demo task calls.                                      *)

IsRunning(i) == stream_running /\ running.id = i

(* app_camera_get_stream_status                                            *)
StreamStatus(i) ==
    IF IsRunning(i) THEN running.status
    ELSE IF last_finished < i /\ i < next_gen THEN "IN_QUEUE" ELSE "UNKNOWN"

(* Mutant: the size of whichever stream is there, in bytes.                *)
ImageSizesInBytes(i) == {48 * running.total_size}

(* app_camera_get_image_size: its possible results.  total_size of a       *)
(* stream that is being started is whatever the memory held.               *)
ImageSizes(i) ==
    IF ~IsRunning(i) THEN {0}
    ELSE IF object = "unset" THEN 0..MaxSize ELSE {running.total_size}

(* app_camera_schedule_picture with the mutex: without room in the queue   *)
(* it is not given back, and the caller's id stays uninitialised.          *)
SchedulePicture ==
    /\ demo = "idle"
    /\ mutex = "free"
    /\ next_gen <= MaxId
    /\ demo' = "scheduled"
    /\ IF Len(in_q) < RequestQueueSize
         THEN /\ in_q' = Append(in_q, next_gen)
              /\ id' = next_gen
              /\ next_gen' = next_gen + 1
              /\ UNCHANGED mutex
         ELSE /\ mutex' = "demo"
              /\ id' \in Ids
              /\ UNCHANGED <<in_q, next_gen>>
    /\ UNCHANGED <<last_finished, camera_vars, image_size, halted, history>>

(* app_camera_schedule_picture after 12 ms without the mutex.              *)
ScheduleTimesOut ==
    /\ demo = "idle"
    /\ mutex # "free"
    /\ demo' = "scheduled"
    /\ id' \in Ids
    /\ UNCHANGED <<in_q, next_gen, last_finished, mutex, camera_vars, image_size, halted,
                   history>>

ReadImageSize ==
    /\ demo = "scheduled"
    /\ image_size' \in ImageSizes(id)
    /\ demo' = "connecting"
    /\ UNCHANGED <<in_q, next_gen, last_finished, mutex, camera_vars, id, halted, history>>

(* app_demo_connect_to_server succeeds.                                    *)
Connect ==
    /\ demo = "connecting"
    /\ demo' = "loop"
    /\ UNCHANGED <<in_q, next_gen, last_finished, mutex, camera_vars, id, image_size, halted,
                   history>>

(* The loop ends when the stream is unknown.                               *)
LoopEnds ==
    /\ demo = "loop"
    /\ StreamStatus(id) = "UNKNOWN"
    /\ demo' = "ended"
    /\ UNCHANGED <<in_q, next_gen, last_finished, mutex, camera_vars, id, image_size, halted,
                   history>>

(* app_camera_get_next_stream_chunk finds a chunk for this id.             *)
GetNextChunk ==
    LET chunk == Head(running.out_q)
    IN  /\ demo = "loop"
        /\ IsRunning(id)
        /\ mutex = "free"
        /\ object # "unset"
        /\ running.out_q # <<>>
        /\ running' = [running EXCEPT !.out_q = Tail(@)]
        /\ received' = [received EXCEPT ![id] = @ + 1]
        /\ last' = [id |-> id, chunk |-> chunk]
        /\ demo' = "sending"
        /\ UNCHANGED <<in_q, next_gen, last_finished, mutex, stream_running, cam, request,
                       object, frozen, id, image_size, halted, size_of, timed_out>>

(* It looks for chunks in a queue that was not created yet.                *)
GetFromUnsetQueue ==
    /\ demo = "loop"
    /\ IsRunning(id)
    /\ mutex = "free"
    /\ object = "unset"
    /\ halted' = TRUE
    /\ UNCHANGED <<in_q, next_gen, last_finished, mutex, camera_vars, demo_vars, history>>

(* The chunk's address is written through data, a local of the demo task   *)
(* that was given no value, over memory the machine cannot do without.     *)
ChunkOverwritesMemory ==
    /\ demo = "loop"
    /\ IsRunning(id)
    /\ mutex = "free"
    /\ object # "unset"
    /\ running.out_q # <<>>
    /\ halted' = TRUE
    /\ UNCHANGED <<in_q, next_gen, last_finished, mutex, camera_vars, demo_vars, history>>

(* app_demo_send_camera_chunk succeeds.                                    *)
SendChunk ==
    /\ demo = "sending"
    /\ demo' = "loop"
    /\ UNCHANGED <<in_q, next_gen, last_finished, mutex, camera_vars, id, image_size, halted,
                   history>>

(* Either of them fails: the stream is left as it is.                      *)
AbandonPicture ==
    /\ demo \in {"connecting", "sending"}
    /\ demo' = "idle"
    /\ UNCHANGED <<in_q, next_gen, last_finished, mutex, camera_vars, id, image_size, halted,
                   history>>

TakePictureReturns ==
    /\ demo = "ended"
    /\ demo' = "idle"
    /\ UNCHANGED <<in_q, next_gen, last_finished, mutex, camera_vars, id, image_size, halted,
                   history>>

-----------------------------------------------------------------------------
(* The loop of app_camera_run.                                             *)

TakeRequest ==
    /\ cam = "top"
    /\ ~stream_running
    /\ in_q # <<>>
    /\ request' = Head(in_q)
    /\ in_q' = Tail(in_q)
    /\ cam' = "starting"
    /\ UNCHANGED <<next_gen, last_finished, mutex, running, stream_running, object, frozen,
                   demo_vars, halted, history>>

(* stop_frame or get_fbuf_len failed, or the picture is empty: the camera  *)
(* is reset, which may fail as well.                                       *)
StartFails ==
    /\ cam = "starting"
    /\ \E stopped \in BOOLEAN, reset \in BOOLEAN : frozen' = ((frozen \/ stopped) /\ ~reset)
    /\ cam' = "top"
    /\ UNCHANGED <<in_q, next_gen, last_finished, mutex, running, stream_running, request,
                   object, demo_vars, halted, history>>

(* running, its status and stream_running are assigned first ...           *)
StartStream ==
    /\ cam = "starting"
    /\ frozen' = TRUE
    /\ running' = [running EXCEPT !.id = request, !.status = "RUNNING"]
    /\ stream_running' = TRUE
    /\ object' = "unset"
    /\ cam' = "unset"
    /\ UNCHANGED <<in_q, next_gen, last_finished, mutex, request, demo_vars, halted, history>>

(* ... and the members a client reads after that.                          *)
SetMembers(n) ==
    /\ cam = "unset"
    /\ running' = [running EXCEPT !.completed_chunks = 0, !.total_size = n, !.out_q = <<>>]
    /\ size_of' = [size_of EXCEPT ![running.id] = n]
    /\ object' = "live"
    /\ cam' = "top"
    /\ UNCHANGED <<in_q, next_gen, last_finished, mutex, stream_running, request, frozen,
                   demo_vars, halted, received, last, timed_out>>

HasRoom(q) == Len(q) < OutQueueSize

(* Mutant: xQueueSendToFront.                                              *)
QueueSendToFront(q, chunk) == IF Len(q) < OutQueueSize THEN <<chunk>> \o q ELSE q

(* xQueueSend: with no room for 12 ms the chunk is lost.                   *)
QueueSend(q, chunk) == IF Len(q) < OutQueueSize THEN Append(q, chunk) ELSE q

(* Mutant: the camera is reset when a chunk cannot be read.                *)
FrozenAfterFailedRead == FALSE

(* The frame buffer after a chunk could not be read: the next pass simply  *)
(* asks again.                                                             *)
FrozenAfterRead == frozen

(* The chunk after those completed is asked from the camera.               *)
FetchChunk ==
    /\ cam = "top"
    /\ stream_running
    /\ HasRoom(running.out_q)
    /\ running.status = "RUNNING"
    /\ cam' = "fetching"
    /\ UNCHANGED <<in_q, next_gen, last_finished, mutex, running, stream_running, request,
                   object,
                   frozen, demo_vars, halted, history>>

FetchFails ==
    /\ cam = "fetching"
    /\ frozen' = FrozenAfterRead
    /\ cam' = "top"
    /\ UNCHANGED <<in_q, next_gen, last_finished, mutex, running, stream_running, request,
                   object,
                   demo_vars, halted, history>>

QueueChunk ==
    /\ cam = "fetching"
    /\ running' = [running EXCEPT !.out_q = QueueSend(@, running.completed_chunks)]
    /\ cam' = "queued"
    /\ UNCHANGED <<in_q, next_gen, last_finished, mutex, stream_running, request, object,
                   frozen,
                   demo_vars, halted, history>>

(* Mutant: the last chunk is not asked for.                                *)
StatusAfterOneLess(completed, total) ==
    IF completed + 1 >= total THEN "DONE" ELSE "RUNNING"

StatusAfter(completed, total) == IF completed >= total THEN "DONE" ELSE "RUNNING"

(* completed_chunks and the status, and for a last chunk start_frame or    *)
(* else a reset of the camera, which may fail.                             *)
CountChunk ==
    LET completed == running.completed_chunks + 1
        status == StatusAfter(completed, running.total_size)
    IN  /\ cam = "queued"
        /\ running' = [running EXCEPT !.completed_chunks = completed, !.status = status]
        /\ frozen' \in (IF status = "DONE" THEN {FALSE, frozen} ELSE {frozen})
        /\ cam' = "top"
        /\ UNCHANGED <<in_q, next_gen, last_finished, mutex, stream_running, request, object,
                       demo_vars, halted, history>>

(* Mutant: the stream is freed while it still counts as running.           *)
RunningWhileFreed == stream_running

(* stream_running when the free begins.                                    *)
RunningAtFree == FALSE

(* All chunks were read and pulled: the stream is over.                    *)
FinishStream ==
    /\ cam = "top"
    /\ stream_running
    /\ running.status = "DONE"
    /\ running.out_q = <<>>
    /\ last_finished' = running.id
    /\ cam' = "finished"
    /\ UNCHANGED <<in_q, next_gen, mutex, running, stream_running, request, object, frozen,
                   demo_vars, halted, history>>

StopFinished ==
    /\ cam = "finished"
    /\ stream_running' = RunningAtFree
    /\ cam' = "free_finished"
    /\ UNCHANGED <<in_q, next_gen, last_finished, mutex, running, request, object, frozen,
                   demo_vars, halted, history>>

(* APP_CAMERA_STREAM_TIMEOUT is over, whatever the stream was doing.       *)
StreamTimesOut ==
    /\ cam = "top"
    /\ stream_running
    /\ stream_running' = RunningAtFree
    /\ timed_out' = timed_out \cup {running.id}
    /\ cam' = "free_timed_out"
    /\ UNCHANGED <<in_q, next_gen, last_finished, mutex, running, request, object, frozen,
                   demo_vars, halted, received, last, size_of>>

(* app_camera_output_stream_free takes the mutex ...                       *)
TakeMutex ==
    /\ cam \in {"free_finished", "free_timed_out"}
    /\ mutex = "free"
    /\ mutex' = "camera"
    /\ object' = "none"
    /\ UNCHANGED <<in_q, next_gen, last_finished, running, stream_running, cam, request, frozen,
                   demo_vars, halted, history>>

(* ... and gives it back; a queue that was not empty has been freed        *)
(* through bad pointers.  After a timeout the frame buffer is released.    *)
GiveMutex ==
    /\ cam \in {"free_finished", "free_timed_out"}
    /\ mutex = "camera"
    /\ mutex' = "free"
    /\ frozen' \in (IF cam = "free_timed_out" THEN {FALSE, frozen} ELSE {frozen})
    /\ halted' \in (IF running.out_q = <<>> THEN {FALSE} ELSE BOOLEAN)
    /\ cam' = "top"
    /\ UNCHANGED <<in_q, next_gen, last_finished, running, stream_running, request, object,
                   demo_vars, history>>

(* The mutex could not be had: the stream is leaked.                       *)
LeakStream ==
    /\ cam \in {"free_finished", "free_timed_out"}
    /\ mutex = "demo"
    /\ frozen' \in (IF cam = "free_timed_out" THEN {FALSE, frozen} ELSE {frozen})
    /\ cam' = "top"
    /\ UNCHANGED <<in_q, next_gen, last_finished, mutex, running, stream_running, request,
                   object,
                   demo_vars, halted, history>>

-----------------------------------------------------------------------------
DemoStep ==
    \/ ReadImageSize
    \/ LoopEnds \/ GetNextChunk \/ GetFromUnsetQueue \/ SendChunk
    \/ TakePictureReturns

CameraStep ==
    \/ TakeRequest
    \/ StartStream
    \/ \E n \in Sizes : SetMembers(n)
    \/ FetchChunk \/ QueueChunk \/ CountChunk
    \/ FinishStream \/ StopFinished
    \/ TakeMutex \/ GiveMutex \/ LeakStream

Trouble == StartFails \/ StreamTimesOut \/ AbandonPicture \/ ChunkOverwritesMemory

Next ==
    /\ ~halted
    /\ SchedulePicture \/ ScheduleTimesOut \/ Connect \/ DemoStep \/ CameraStep \/ FetchFails \/ Trouble

Spec == Init /\ [][Next]_vars

(* A camera that takes every picture, a network that works, streams that   *)
(* stay within their two minutes and a data that happens to point to memory*)
(* nobody uses (none of Trouble).  Chunks may still have to be asked       *)
(* for again, but not for ever.  Connecting comes at least 700 ms after    *)
(* the request, by when an idle camera task has started the stream: both   *)
(* commands of a start answer within 100 ms.                               *)
ConnectLate ==
    /\ Connect
    /\ cam \notin {"starting", "unset"}
    /\ stream_running \/ in_q = <<>>

SmoothNext ==
    /\ ~halted
    /\ SchedulePicture \/ ScheduleTimesOut \/ ConnectLate \/ DemoStep \/ CameraStep \/ FetchFails

SmoothSpec ==
    /\ Init /\ [][SmoothNext]_vars
    /\ WF_vars(~halted /\ (ConnectLate \/ DemoStep))
    /\ WF_vars(~halted /\ CameraStep)
    /\ SF_vars(~halted /\ QueueChunk)

-----------------------------------------------------------------------------
Streams ==
    [id : Ids, status : {"RUNNING", "DONE"}, completed_chunks : Nat, total_size : Sizes,
     out_q : Seq(Nat)]

TypeOK ==
    /\ in_q \in Seq(Ids)
    /\ running \in Streams
    /\ next_gen \in 0..(MaxId + 1)
    /\ last_finished \in Ids
    /\ stream_running \in BOOLEAN
    /\ mutex \in {"free", "camera", "demo"}
    /\ cam \in {"top", "starting", "unset", "fetching", "queued", "finished",
                "free_finished", "free_timed_out"}
    /\ request \in Ids
    /\ object \in {"none", "unset", "live"}
    /\ frozen \in BOOLEAN
    /\ demo \in {"idle", "scheduled", "connecting", "loop", "sending", "ended"}
    /\ id \in Ids
    /\ image_size \in 0..MaxSize
    /\ halted \in BOOLEAN
    /\ received \in [Ids -> Nat]
    /\ last \in [id : Ids, chunk : Nat]
    /\ size_of \in [Ids -> 0..MaxSize]
    /\ timed_out \in SUBSET Ids

(* The demo task reads running without the mutex (l.225, l.241) and checks *)
(* stream_running before it takes it (l.198): that is sound only if the    *)
(* stream it then looks at is never one the camera task has freed.         *)
NoUseAfterFree == stream_running => object # "none"

(* All chunks of a picture come from one frame: from the first to the last *)
(* chunk, through failed reads and earlier failed starts, the camera keeps *)
(* its frame buffer stopped.                                               *)
OneFramePerPicture ==
    stream_running /\ running.status = "RUNNING" => frozen

(* What the client pulled when its loop ends: all chunks of the picture,   *)
(* or none, however pulls, reads and the end of the stream interleave,     *)
(* and whatever earlier pictures were abandoned.  Streams that ran out of  *)
(* time are the exception.                                                 *)
WholePictureOrNone ==
    demo = "ended" /\ id \notin timed_out => received[id] \in {0, size_of[id]}

(* The chunks handed out are those of PictureStream: in order, none twice, *)
(* none missing, none of an earlier picture after a later one.             *)
Abstract == INSTANCE PictureStream WITH Ids <- Ids, received <- received, last <- last
InOrder == Abstract!Spec

(* Under SmoothSpec app_demo_take_picture always returns.                  *)
PictureEnds == demo # "idle" ~> demo = "idle"
=============================================================================
