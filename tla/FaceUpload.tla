----------------------------- MODULE FaceUpload -----------------------------
(***************************************************************************)
(* The upload of a picture: app_demo_connect_to_server and                 *)
(* app_demo_send_camera_chunk of app_demo.c, the LTE module that keeps the *)
(* body of the next request, and the handler of /checkFace in server.js.   *)
(*                                                                         *)
(* Every stage of the device repeats one command of the module until it is *)
(* answered, and all stages of one function share one count of failures.   *)
(* A command whose answer is lost may or may not have had its effect: a    *)
(* field may be in the body twice and a request may reach the server twice.*)
(* The server's handler has no await: a request is one step, and the       *)
(* callbacks it starts are steps of their own.  The check-ins between the  *)
(* uploads use the same body and leave their keys in it.                   *)
(*                                                                         *)
(* One scooter.  A picture is counted in chunks, total_sent and so the key *)
(* of a chunk is the number of chunks sent, itself included.               *)
(***************************************************************************)
EXTENDS Integers, Sequences, FiniteSets, SequencesExt

CONSTANTS
    NumTries,       \* APP_DEMO_DEFAULT_ALLOWABLE_RETRIES
    MaxPayload,     \* APP_DEMO_MAX_HTTP_PAYLOAD, in chunks
    Sizes,          \* the numbers of chunks pictures can have
    MaxUploads,     \* bound: pictures
    MaxRestarts     \* bound: restarts of the server

ASSUME ParametersAssumption ==
    /\ NumTries \in Nat \ {0} /\ MaxPayload \in Nat \ {0}
    /\ Sizes \subseteq Nat \ {0}
    /\ MaxUploads \in Nat \ {0} /\ MaxRestarts \in Nat

VARIABLES
    \* device
    stage,          \* the command being tried, or where the function is
    tries,
    image_size,     \* as app_camera_get_image_size gave it, 0 if unknown
    picture,        \* the picture being uploaded: which one, and its chunks
    total_sent,
    current_payload,
    \* LTE module
    body,           \* the fields of the request body
    \* server, for this scooter
    size,
    oldKey,
    text,           \* the chunks in scooterFaces64/<scooterId>.txt
    jobs,           \* callbacks of final chunks, by the number of the final
    restarts,
    \* history
    finals,         \* recognitions started
    recognised,     \* this upload has started a recognition
    gave_up,        \* a stage of this picture was left without an answer
    clean           \* see StartsClean

device == <<stage, tries, image_size, picture, total_sent, current_payload>>
server == <<size, oldKey, text, jobs>>
history == <<finals, recognised, gave_up, clean>>
vars == <<device, body, server, restarts, history>>

(* Values of size.get(scooterId) that no picture's size equals.  A header  *)
(* of unknown size is the string "0" and a size that was written twice is  *)
(* an array of strings: neither equals the number 0 nor ends a key.        *)
Undefined == -1
Unmatched == -2

(* The keys of a check-in, lat, lon and valid: chunks for /checkFace.      *)
CheckInKey == -3

NoPicture == [number |-> 0, chunks |-> 0]
EmptyBody == [size |-> Undefined, ids |-> 0, data |-> <<>>]

Init ==
    /\ stage = "idle"
    /\ tries = 0
    /\ image_size = 0
    /\ picture = NoPicture
    /\ total_sent = 0
    /\ current_payload = 0
    /\ body = EmptyBody
    /\ size = Undefined
    /\ oldKey = {}
    /\ text = <<>>
    /\ jobs = {}
    /\ restarts = 0
    /\ finals = 0
    /\ recognised = FALSE
    /\ gave_up = FALSE
    /\ clean = FALSE

-----------------------------------------------------------------------------
(* The module's body.  A key written twice makes an array on the server,   *)
(* which uses the first element: for a chunk that is the chunk, for the    *)
(* size the array is all it has.                                           *)

WithSize(b) ==
    [b EXCEPT !.size = IF b.size = Undefined /\ image_size # 0
                         THEN image_size ELSE Unmatched]

(* Two ids or more are an array.                                           *)
WithId(b) == [b EXCEPT !.ids = IF b.ids = 0 THEN 1 ELSE 2]

KeysOf(data) == {chunk.key : chunk \in ToSet(data)}

WithChunk(b) ==
    LET chunk == [key |-> total_sent, picture |-> picture.number]
    IN  IF chunk.key \in KeysOf(b.data) THEN b ELSE [b EXCEPT !.data = Append(@, chunk)]

-----------------------------------------------------------------------------
(* The handler of /checkFace.                                              *)

(* A header counts when the body has one id: an array of ids is a key of   *)
(* the maps nobody looks up.                                               *)
HasHeader(b) == b.size # Undefined /\ b.ids = 1

SizeIn(b) == IF HasHeader(b) THEN b.size ELSE size

KeysIn(b) == IF HasHeader(b) THEN {} ELSE oldKey

(* No id, or a chunk before any header: the handler throws.                *)
Throws(b) == b.ids = 0 \/ (SizeIn(b) = Undefined /\ b.data # <<>>)

(* Mutant: every chunk is taken.                                           *)
NewChunksAll(data, keys) == data

(* The loop over the keys: the chunks that are not in the list of old keys.*)
NewChunks(data, keys) ==
    LET taken[i \in 0..Len(data)] ==
          IF i = 0 THEN <<>>
          ELSE IF data[i].key \in keys THEN taken[i - 1] ELSE Append(taken[i - 1], data[i])
    IN  taken[Len(data)]

(* Index of the final chunk in the body, 0 without one.                    *)
FinalIndex(b) ==
    LET final == {i \in DOMAIN b.data : b.data[i].key = SizeIn(b) /\ SizeIn(b) \notin KeysIn(b)}
    IN  IF final = {} THEN 0 ELSE CHOOSE i \in final : TRUE

(* What the loop over the keys appends: after the final chunk the list of  *)
(* old keys is empty.                                                      *)
Appended(b) ==
    LET f == FinalIndex(b)
    IN  IF f = 0
          THEN NewChunks(b.data, KeysIn(b))
          ELSE NewChunks(SubSeq(b.data, 1, f), KeysIn(b)) \o SubSeq(b.data, f + 1, Len(b.data))

KeysAfter(b) ==
    LET f == FinalIndex(b)
    IN  IF f = 0 THEN KeysIn(b) \cup KeysOf(b.data)
                 ELSE KeysOf(SubSeq(b.data, f + 1, Len(b.data)))

(* Mutant: the size is kept after the final chunk.                         *)
SizeAfterKept(b) == SizeIn(b)

SizeAfter(b) == IF FinalIndex(b) # 0 THEN 0 ELSE SizeIn(b)

(* The status the handler answers with.  A request that finds the size 0   *)
(* is not answered at all.                                                 *)
Status(b) ==
    IF Throws(b) THEN "400"
    ELSE IF FinalIndex(b) # 0 \/ SizeIn(b) # 0 THEN "200" ELSE "none"

(* The picture's first request found nothing left by earlier ones.         *)
StartsClean(b) ==
    /\ HasHeader(b) /\ b.size \in Sizes /\ b.data = <<>>
    /\ text = <<>> /\ jobs = {} /\ ~gave_up

CheckFacePost(b) ==
    /\ size' = IF Throws(b) THEN SizeIn(b) ELSE SizeAfter(b)
    /\ oldKey' = IF Throws(b) THEN KeysIn(b) ELSE KeysAfter(b)
    /\ text' = IF Throws(b) THEN text ELSE text \o Appended(b)
    /\ LET final == ~Throws(b) /\ FinalIndex(b) # 0
       IN  /\ finals' = IF final THEN finals + 1 ELSE finals
           /\ jobs' = IF final THEN jobs \cup {[number |-> finals, pc |-> "read"]} ELSE jobs
           /\ recognised' = (recognised \/ final)

-----------------------------------------------------------------------------
(* The device.  Every loop tries its command until it is answered, and is  *)
(* left when the failures of the whole function reach the limit; the next  *)
(* stage is then tried all the same.                                       *)

(* Mutant: one failure too many.                                           *)
SpentLate(n) == n > NumTries

Spent(n) == n >= NumTries

Fails(next) ==
    /\ tries' = tries + 1
    /\ stage' = IF Spent(tries') THEN next ELSE stage
    /\ gave_up' = (gave_up \/ Spent(tries'))

Succeeds(next) ==
    /\ stage' = next
    /\ UNCHANGED <<tries, gave_up>>

(* A command that leaves the module with the body after: it is answered,   *)
(* or it fails or its answer is lost, with or without its effect.          *)
Command(after, next) ==
    /\ \/ Succeeds(next) /\ body' = after
       \/ Fails(next) /\ body' \in {body, after}
    /\ clean' = (clean /\ ~gave_up')
    /\ UNCHANGED <<image_size, picture, total_sent, server, restarts, finals, recognised>>

(* A request: it is lost, or the server handles it and its answer is not   *)
(* 200, is lost, or arrives.                                               *)
Post(next) ==
    /\ \/ /\ Fails(next)
          /\ clean' = (clean /\ ~gave_up')
          /\ UNCHANGED <<server, finals, recognised>>
       \/ /\ CheckFacePost(body)
          /\ (Status(body) = "200" /\ Succeeds(next)) \/ Fails(next)
          /\ clean' = ((clean \/ StartsClean(body)) /\ ~gave_up')
    /\ UNCHANGED <<image_size, picture, total_sent, body, restarts>>

(* The check-ins since the last picture, the last of which was answered    *)
(* with "photo": one that has no id is answered with an error.  A check-in *)
(* clears the body only when the header could not be cleared, and writes   *)
(* what it does not give up.                                               *)
CheckIns ==
    \E base \in {body, EmptyBody}, n \in {1, 2} :
       /\ n >= base.ids
       /\ \/ body' = [base EXCEPT !.ids = n]
          \/ /\ CheckInKey \notin KeysOf(base.data)
             /\ body' = [base EXCEPT !.ids = n,
                                     !.data = Append(@, [key |-> CheckInKey, picture |-> 0])]

(* app_demo_take_picture calls app_demo_connect_to_server.                 *)
StartUpload ==
    /\ stage = "idle"
    /\ picture.number < MaxUploads
    /\ \E n \in Sizes :
          /\ picture' = [number |-> picture.number + 1, chunks |-> n]
          /\ image_size' \in {0, n}
    /\ stage' = "setup"
    /\ CheckIns
    /\ UNCHANGED <<tries, total_sent, current_payload, server, restarts, history>>

ConnectStep ==
    /\ \/ stage = "setup" /\ Command(body, "start")
       \/ stage = "start" /\ Command(body, "clear")
       \/ stage = "clear" /\ Command(EmptyBody, "size")
       \/ stage = "size" /\ Command(WithSize(body), "id")
       \/ stage = "id" /\ Command(WithId(body), "post")
       \/ stage = "post" /\ Post("returned")
    /\ UNCHANGED current_payload

(* Both functions return LTE_SUCCESS when tries <= num_tries.              *)
IsSuccess == tries <= NumTries

(* app_demo_take_picture returns and its locals are gone.                  *)
TakePictureReturns ==
    /\ stage' = "idle"
    /\ tries' = 0
    /\ image_size' = 0
    /\ total_sent' = 0
    /\ current_payload' = 0
    /\ clean' = FALSE
    /\ gave_up' = FALSE
    /\ recognised' = FALSE
    /\ UNCHANGED <<picture, body, server, restarts, finals>>

(* The function called returned: go on, or give the picture up.            *)
FunctionReturns ==
    /\ stage = "returned"
    /\ IF IsSuccess
         THEN /\ stage' = "streaming"
              /\ tries' = 0
              /\ UNCHANGED <<image_size, picture, total_sent, current_payload, body, server,
                             restarts, history>>
         ELSE TakePictureReturns

SendChunk ==
    /\ stage = "streaming"
    /\ total_sent < picture.chunks
    /\ total_sent' = total_sent + 1
    /\ stage' = "data"
    /\ UNCHANGED <<tries, image_size, picture, current_payload, body, server, restarts,
                   history>>

(* The stream ended, with the last chunk or before it.                     *)
StreamEnds == stage = "streaming" /\ TakePictureReturns

(* Mutant: only the end of the picture makes a request due.                *)
PostIsDueAtEnd(payload) == total_sent = image_size

PostIsDue(payload) == payload >= MaxPayload \/ total_sent = image_size

(* The chunk is written.  Every failure adds to the payload "to be safe".  *)
WriteChunk ==
    /\ stage = "data"
    /\ \E failed \in {0, 1} :
          LET payload == current_payload + failed
              next == IF PostIsDue(payload + 1) THEN "chunk_id" ELSE "returned"
          IN  /\ Command(WithChunk(body), next)
              /\ failed = tries' - tries
              /\ current_payload' = IF stage' = "data" THEN payload ELSE payload + 1

(* The id, the request, and the body is cleared.                           *)
SendPayload ==
    \/ /\ stage = "chunk_id"
       /\ Command(WithId(body), "chunk_post")
       /\ UNCHANGED current_payload
    \/ /\ stage = "chunk_post"
       /\ Post("chunk_clear")
       /\ current_payload' = IF stage' = stage THEN current_payload ELSE 0
    \/ /\ stage = "chunk_clear"
       /\ Command(EmptyBody, "returned")
       /\ UNCHANGED current_payload

-----------------------------------------------------------------------------
(* The callbacks of a final chunk: the text is read, the picture written,  *)
(* the text cleared.  What is done with the picture from then on is        *)
(* RentalServer's CheckFace.                                               *)
ReadText(job) ==
    /\ job \in jobs /\ job.pc = "read"
    /\ jobs' = (jobs \ {job}) \cup {[job EXCEPT !.pc = "write"]}
    /\ UNCHANGED <<device, body, size, oldKey, text, restarts, history>>

WritePicture(job) ==
    /\ job \in jobs /\ job.pc = "write"
    /\ jobs' = (jobs \ {job}) \cup {[job EXCEPT !.pc = "clear"]}
    /\ UNCHANGED <<device, body, size, oldKey, text, restarts, history>>

(* The file could not be written: the error is logged, the text stays.     *)
PictureNotWritten(job) ==
    /\ job \in jobs /\ job.pc = "write"
    /\ jobs' = jobs \ {job}
    /\ UNCHANGED <<device, body, size, oldKey, text, restarts, history>>

ClearText(job) ==
    /\ job \in jobs /\ job.pc = "clear"
    /\ text' = <<>>
    /\ jobs' = jobs \ {job}
    /\ UNCHANGED <<device, body, size, oldKey, restarts, history>>

(* The maps and the callbacks are lost, the file stays.  The server ends   *)
(* at any time, and when a callback throws: writeFile does without data,   *)
(* when the text could not be read, writeFileSync when the copy for tests  *)
(* could not be written, and the callback of unlink when the picture has   *)
(* been deleted by that of another final chunk.                            *)
ServerRestarts ==
    /\ restarts < MaxRestarts
    /\ restarts' = restarts + 1
    /\ size' = Undefined
    /\ oldKey' = {}
    /\ jobs' = {}
    /\ clean' = FALSE
    /\ UNCHANGED <<device, body, text, finals, recognised, gave_up>>

-----------------------------------------------------------------------------
DeviceStep ==
    ConnectStep \/ FunctionReturns \/ SendChunk \/ StreamEnds \/ WriteChunk \/ SendPayload

JobStep ==
    \E job \in jobs :
       ReadText(job) \/ WritePicture(job) \/ PictureNotWritten(job) \/ ClearText(job)

Next == StartUpload \/ DeviceStep \/ JobStep \/ ServerRestarts

Spec == Init /\ [][Next]_vars

-----------------------------------------------------------------------------
Stages ==
    {"idle", "setup", "start", "clear", "size", "id", "post", "returned", "streaming",
     "data", "chunk_id", "chunk_post", "chunk_clear"}

Keys == Nat \cup {CheckInKey}

Chunks == [key : Keys, picture : Nat]

(* Type invariant; the failures that are added to the payload keep it      *)
(* within NumTries of its limit.                                           *)
TypeOK ==
    /\ stage \in Stages
    /\ tries \in Nat
    /\ image_size \in Nat
    /\ picture \in [number : Nat, chunks : Nat]
    /\ total_sent \in 0..picture.chunks
    /\ current_payload \in 0..(MaxPayload + NumTries)
    /\ body \in [size : Int, ids : 0..2, data : Seq(Chunks)]
    /\ size \in Int
    /\ oldKey \subseteq Keys
    /\ text \in Seq(Chunks)
    /\ jobs \subseteq [number : Nat, pc : {"read", "write", "clear"}]
    /\ restarts \in 0..MaxRestarts
    /\ finals \in Nat
    /\ recognised \in BOOLEAN
    /\ gave_up \in BOOLEAN
    /\ clean \in BOOLEAN

(* An upload none of whose stages was given up starts at most one          *)
(* recognition, and with a chunk of its own picture, whichever answers are *)
(* lost and commands and requests repeated and whatever earlier uploads    *)
(* and check-ins left in the body and on the server.  (Once a stage was    *)
(* given up a body that was not cleared may be recognised again.)          *)
OneRecognitionPerUpload ==
    [][ finals' # finals /\ ~gave_up =>
          ~recognised /\ body.data[FinalIndex(body)].picture = picture.number ]_vars

(* Lost answers and repeated commands and requests do no harm: a picture   *)
(* that found the server clean and whose stages were all answered in the   *)
(* end is in the file whole, in order and once when its recognition starts.*)
WholePictureRecognised ==
    [][ finals' # finals /\ clean' =>
          text' = [i \in 1..picture.chunks |-> [key |-> i, picture |-> picture.number]]
      ]_vars

(* The stages of a function share one count, and each is tried at least    *)
(* once: whatever fails, a function ends after at most five failures more  *)
(* than the tries it was given, one for every stage after the first.       *)
FailuresAreBounded == tries <= NumTries + 5
=============================================================================
