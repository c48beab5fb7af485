------------------------------ MODULE PictureText ------------------------------
(***************************************************************************)
(* The way of a picture from the camera to its text: the commands          *)
(* app_camera_run gives the driver, and the text that                      *)
(* app_demo_take_picture makes of the chunks one after the other.          *)
(*                                                                         *)
(* The queue between the two tasks is CameraStream's: chunks come out of   *)
(* it in order.  The requests to the server, which puts the pieces of the  *)
(* text together again, are FaceUpload's.                                  *)
(***************************************************************************)
EXTENDS Vc0706, Base64

CONSTANT ChunkSize      \* APP_CAMERA_DEFAULT_STREAM_CHUNK_SIZE

ASSUME PicturesAssumption == Pictures \subseteq Seq(Byte)
ASSUME ChunkSizeAssumption == ChunkSize \in Nat \ {0} /\ ChunkSize % 3 = 0

VARIABLES
    stage,              \* of the camera task
    total_size,
    completed_chunks,
    finished,           \* all chunks were read (CAMERA_STREAM_DONE)
    text,               \* the texts of the chunks, one after the other
    high,               \* history: the most characters written to data_transfer_ptr
    halted              \* the encoder ran over the memory

stream == <<stage, total_size, completed_chunks, finished, text, high, halted>>
vars == <<vcvars, stream>>

Init ==
    /\ VcInit
    /\ stage = "idle"
    /\ total_size = 0
    /\ completed_chunks = 0
    /\ finished = FALSE
    /\ text = <<>>
    /\ high = 0
    /\ halted = FALSE

-----------------------------------------------------------------------------
StartAddr == completed_chunks * ChunkSize

NumberOfBytes ==
    LET left == total_size - StartAddr
    IN  IF left > ChunkSize THEN ChunkSize ELSE left

TakePicture ==
    /\ stage = "idle"
    /\ stage' = "stop"
    /\ finished' = FALSE
    /\ UNCHANGED <<vcvars, total_size, completed_chunks, text, high, halted>>

CommandOf(s) ==
    CASE s = "stop" -> Stop
      [] s = "length" -> GetLength
      [] s = "read" -> GetData(StartAddr, NumberOfBytes)
      [] s = "start" -> Start
      [] OTHER -> Reset

RunCommand ==
    /\ stage # "idle"
    /\ Execute(CommandOf(stage))
    /\ UNCHANGED stream

Return(s) ==
    /\ phase = "returned"
    /\ phase' = "idle"
    /\ stage' = s
    /\ UNCHANGED <<bus_busy, rxbuf, cmd, res, camera, witness>>

Stopped ==
    /\ stage = "stop"
    /\ Return(IF res = "success" THEN "length" ELSE "reset")
    /\ UNCHANGED <<total_size, completed_chunks, finished, text, high, halted>>

(* A picture without bytes is an error.                                    *)
LengthKnown ==
    LET size == IF "value" \in DOMAIN rxbuf.got[1] THEN rxbuf.got[1].value ELSE 0
        isTaken == res = "success" /\ size # 0
    IN  /\ stage = "length"
        /\ Return(IF isTaken THEN "read" ELSE "reset")
        /\ IF isTaken
             THEN total_size' = size /\ completed_chunks' = 0 /\ text' = <<>>
             ELSE UNCHANGED <<total_size, completed_chunks, text>>
        /\ UNCHANGED <<finished, high, halted>>

(* The data is copied from behind the head.                                *)
Data == IF rxbuf.got[2].part = "body" THEN rxbuf.got[2].bytes ELSE <<>>

(* Mutant: a picture that ends with a full chunk is asked for one more.     *)
IsLastBeyond(completed) == completed * ChunkSize > total_size

IsLast(completed) == completed * ChunkSize >= total_size

(* data_transfer_ptr is a block of one character more than the text of a   *)
(* chunk.  The allocator rounds it up (heap_4.c:164).                      *)
Usable(wanted) == (wanted + 4) - (wanted % 4)

Block == Usable(OutSize(ChunkSize) + 1)

(* A chunk was read, and its text is appended to that of the others.  With *)
(* fewer than three bytes size_in - 3 is a large unsigned number: the loop *)
(* of the encoder leaves the block, and nothing is modelled after that.    *)
ChunkRead ==
    LET completed == completed_chunks + 1
        isLast == IsLast(completed)
    IN  /\ stage = "read" /\ res = "success"
        /\ Return(IF isLast THEN "start" ELSE "read")
        /\ completed_chunks' = completed
        /\ finished' = isLast
        /\ IF NumberOfBytes < 3
             THEN halted' = TRUE /\ high' = Block + 1 /\ UNCHANGED text
             ELSE /\ text' = text \o Encode(Data)
                  /\ high' = IF Written(NumberOfBytes) > high THEN Written(NumberOfBytes) ELSE high
                  /\ UNCHANGED halted
        /\ UNCHANGED total_size

(* The chunk is asked for again.                                           *)
ChunkNotRead ==
    /\ stage = "read" /\ res # "success"
    /\ Return("read")
    /\ UNCHANGED <<total_size, completed_chunks, finished, text, high, halted>>

(* After the last chunk a camera that cannot be started again is reset.    *)
Started ==
    /\ stage = "start"
    /\ Return(IF res = "success" \/ ~finished THEN "idle" ELSE "reset")
    /\ UNCHANGED <<total_size, completed_chunks, finished, text, high, halted>>

WasReset ==
    /\ stage = "reset"
    /\ Return("idle")
    /\ UNCHANGED <<total_size, completed_chunks, finished, text, high, halted>>

(* APP_CAMERA_STREAM_TIMEOUT is over.                                      *)
StreamTimesOut ==
    /\ stage = "read" /\ phase = "idle"
    /\ stage' = "start"
    /\ UNCHANGED <<vcvars, total_size, completed_chunks, finished, text, high, halted>>

-----------------------------------------------------------------------------
Next ==
    /\ ~halted
    /\ \/ TakePicture \/ RunCommand
       \/ Stopped \/ LengthKnown \/ ChunkRead \/ ChunkNotRead \/ Started \/ WasReset
       \/ StreamTimesOut
       \/ (DriverStep \/ UartStep) /\ UNCHANGED stream

Spec == Init /\ [][Next]_vars

-----------------------------------------------------------------------------
(* Type invariant.                                                         *)
TypeOK ==
    /\ bus_busy \in BOOLEAN
    /\ DOMAIN rxbuf = {"got", "state"} /\ Len(rxbuf.got) <= PartsOf(cmd)
    /\ rxbuf.state \in {"receiving", "done", "error"}
    /\ phase \in {"idle", "sending", "waiting", "returned"}
    /\ res \in {"success", "error", "timeout"}
    /\ frame \in Pictures
    /\ \A i \in DOMAIN coming : coming[i].age \in 0..Late
    /\ stage \in {"idle", "stop", "length", "read", "start", "reset"}
    /\ total_size \in Nat /\ completed_chunks \in Nat
    /\ stage = "read" => StartAddr < total_size
    /\ text \in Seq(0..Pad)
    /\ {unsent, late, astray, finished, halted} \subseteq BOOLEAN

(* However often chunks were asked for again, the text the server puts     *)
(* together is that of the whole picture and of nothing else: the chunks'  *)
(* own texts make one text because only the last has a length that is not  *)
(* a multiple of three.  Nothing in an answer tells which chunk it has, so *)
(* this needs a camera that never answers a command after its time-out.    *)
TextIsPicture == finished /\ ~late /\ ~halted => Decode(text) = frame

(* The interrupt never writes to the stack of a function that has          *)
(* returned, unless some command could not be sent.                        *)
BytesGoToLiveBuffers == astray => unsent

(* The encoder leaves the block it writes to for one reason only: the      *)
(* chunk it was given, the last of the picture, has one or two bytes.  The *)
(* four characters a full chunk is written too far are in the block, for   *)
(* which the size it was allocated with would not do.                      *)
EncodeStaysInBlock ==
    high > Block => total_size - (completed_chunks - 1) * ChunkSize \in {1, 2}
=============================================================================
