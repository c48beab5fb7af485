# VisiRide in TLA+

VisiRide rents electric scooters. An on-board computer (FreeRTOS on a Nios II) checks in
with a Node.js server; the server compares positions of scooters and riders and runs face
recognition on a picture the scooter uploads, and answers `lock`, `photo` or `unlock`; a
phone application shows the scooters and ends trips. This directory holds TLA+ models of
the program's own code, TLC configurations that check them, and TLAPS proofs about them.

Line numbers below and in the modules are those of the file the text names.
`FW` stands for `src/embedded/software/on_board_computer`.

## 1. Inventory

| part | code | state it keeps | operations | model |
|---|---|---|---|---|
| scooter state machine | `FW/dev/app/app_demo.c`, `.h` | `current_state`, two counters of `app_demo_run` | initialisation, four passes of the loop, error handling | `ScooterDevice` |
| camera task | `FW/dev/app/app_camera.c`, `.h` | request queue, running stream with its chunk queue, ids, `stream_running`, mutex | schedule, next chunk, status, size, the task's loop | `CameraStream`, `PictureStream` |
| upload of a picture | `app_demo.c` l.128-258, `src/server.js` l.264-374 | tries, payload, sizes; the body in the LTE module; `size`, `oldKey`, the text file | connect, send chunk; `/checkFace` and its callbacks | `FaceUpload` |
| rental core of the server | `src/server.js` | documents of scooters and users, `scooter_users`, `faceRec_inProg`, image folders | `/gps`, `/update_user_location`, `/free_scooter`, `checkFace()`, start | `RentalServer` |
| check-in | `app_demo.c` l.270-386, 491-513 | tries, the announced size, a heap buffer | retry stages, parse the answer, end the connection | `CheckIn` |
| LTE driver (and GPS, its copy) | `FW/dev/lib/lib_lte*.c`, `lib_gps*.c` | pointer to the receive buffer of the command in progress | AT commands, receive interrupt | `AtCommand` |
| camera driver | `FW/dev/lib/lib_VC0706.c` | `bus_busy`, pointer to the receive buffer | stop, resume, size, read frame buffer, reset | `Vc0706` |
| UART | `FW/dev/lib/lib_uart.c` | registers | transmit with a limit, receive interrupt | in `AtCommand` and `Vc0706` |
| base64 | `FW/dev/lib/lib_base64.c` | none | encode a chunk | `Base64` |
| camera to text | `app_camera.c` l.98-133, 264-333, `app_demo.c` l.412-420 | size, completed chunks, the buffer of the text | the commands of a picture, the text of its chunks | `PictureText` |
| start, heartbeat | `FW/main.c` | task handles | create the tasks (priorities: demo 5, camera 3, heartbeat 2), blink | priorities used |
| accounts | `src/server.js` l.87-177, 681-697 | user documents, a folder and a picture per name | sign up, sign in | `SignUp` |
| scooter administration | `src/server.js` | scooter documents | insert, list, delete | not modelled |
| rider application, map | `src/dart/lib/pages/MapPage.dart` | `currScooter`, `currLoc`, a timer of 7 s | report position, show the scooter, end trip | `RiderApp` |
| rider application, other pages | `src/dart/lib/pages`, `api`, `model` | forms | sign up, sign in, profile | not modelled: no state beyond a request |
| FreeRTOS, BSP, Quartus project, PCB | `src/embedded` | | | not modelled: third-party, generated or hardware |
| face_recognition, MongoDB, sharp, LTE network | | | | external; modelled from how the code uses them |

How the parts interact:

- the demo task calls the camera task's API; both share `app_camera_state`, a queue of
  requests, a queue of chunks and a mutex that only some of the accesses take;
- the demo task drives the LTE and GPS modules through the drivers, synchronously, with
  time-outs and retries; an interrupt fills the buffer of the command in progress;
- the scooter posts `/gps` every ten seconds and `/checkFace` for each payload of a picture;
  it acts on the answer of `/gps` only;
- `/checkFace` ends in `checkFace()`, which writes the renter that the next `/gps` reads;
- the phone posts `/update_user_location` every seven seconds, which answers with the
  scooters of that user, and `/free_scooter` for END TRIP or a scooter that is far away.

What is hard in this code:

- *two tasks and a mutex used in part*: the demo task reads `running` without it;
- *awaits*: `/gps` answers from what it read three awaits ago, and from a global flag as it
  is now; recognitions overlap and share files and that flag;
- *retries without acknowledgement*: a command or a request whose answer is lost is sent
  again, and the module and the server may have both;
- *counters compared by equality* (`server_contact_count`, `unlocked_error_count`);
- *restarts*: the server loses maps and flags and keeps documents, images and text;
- *answers nobody asked for*: neither the LTE module nor the camera says which command it
  answers, so a late answer, or the end of one, lands in the buffer of a later command;
- *buffers on the stack* that an interrupt writes to through a global pointer;
- *overlapping callbacks of a timer* that all write the same fields of a page;
- *check, then insert*: a name is looked up and inserted in two steps, with a shared folder;
- *limits*: a queue of 64 chunks, four requests, 2048 bytes of payload, a block for the text.

What makes each part correct: the device is unlocked only when told, never stops checking in,
and tolerates failures up to its budget; a picture is pulled in order, from one frame, whole or
not at all, and its stream outlives its readers; an upload survives lost answers and is
recognised once, from its own picture; the recognition flag always comes down, and only somebody
who was close to a scooter becomes its renter; a check-in returns what the server said during it
and always ends; the interrupt writes only to live buffers; the text of a picture decodes to the
picture; an account can be signed in to; a page shows only scooters its rider had, and a bill
starts at a ride.

## 2. Modules

Each module's header says how the code is cut into steps.

**`ScooterDevice`** is `app_demo_run`. A step is one pass of its loop; a pass that blocks in
a call is two, the call and its return. Variables have the source's names; `call` is the
call the task is in. The calls return every value of their type. `StateOf` is the cast of
an answer to a state, `CountAfterImage` the value an upload leaves in the counter,
`GivesUp` the test of the error budget. `PowerCycle` and `FlipSwitch` are the environment.

**`CameraStream`** is the camera task and, as its only client, `app_demo_take_picture`. The
demo task has the higher priority, so its functions are one step each and the camera task
is cut wherever the demo task could see the difference: after `stream_running` is set and
before the members are, between a queued chunk and its count, between the flag and the
mutex when a stream is freed. `SchedulePicture`, `GetNextChunk`, `ReadImageSize`,
`StreamStatus` are the API; `TakeRequest` to `LeakStream` the loop of `app_camera_run`.
Sizes are in chunks. The three places of undefined behaviour (a queue that is not assigned
yet, freeing a queue that is not empty, and the chunk that is pulled through a pointer
nobody has set, `app_demo.c` l.413) continue or halt the machine; the last is
`ChunkOverwritesMemory`.

**`PictureStream`** is what that API promises: chunks in order, none twice, none missing,
none of an earlier picture after a later one.

**`FaceUpload`** is the two upload functions of the device, the module's body and the handler of
`/checkFace`, for one scooter (all state of the handler is kept per scooter). `Command` is one
attempt of any module command: answered, failed, or in effect without an answer. `Post` is one
attempt of a request, `CheckFacePost` the handler, which has no `await` and so is atomic.
`WithSize`, `WithId` and `WithChunk` say what a repeated write does: the server's parser makes
an array of a key that comes twice. The check-ins between two pictures use the same body:
`CheckIns` is what they leave in it, an id and their own keys (`lat`, `lon` and `valid`, taken
as one), which `/checkFace` would append to the text. The callbacks of a final chunk
(`ReadText`, `WritePicture`, `ClearText`) are steps of their own, up to the clearing of the
text; what is then done with the picture is `RentalServer`'s `CheckFace`. Those of them that
throw (a text that cannot be read, a picture deleted twice) end the server, which
`ServerRestarts` does at any time. The chunk's key counts the chunks sent where the code counts
bytes. `recognised` remembers that the upload in progress has started a recognition.

**`RentalServer`** cuts each handler at its awaits and callbacks; one action is the effect of
one database call with the code up to the next. A slot is an invocation of a handler, so several
overlap. What `checkFace()` begins on files goes on beside it: `pending` has, per recognition,
the images still to be written, the folder still to be listed and the images still to be
deleted, each a step (`DiskStep`) that may fail. A callback that throws, and a database call of
`checkFace()` that is rejected, which nobody handles, end the process (`Dies`); it may also be
killed (`Kill`). `Dies` empties the globals and drops the invocations, `Restart` starts the
process again, and `initiate_scooter_users` then runs beside the first requests. Positions are
metres on a line. **`MCRentalServer`** defines positions, the symmetry of the slots and two
constraints.

**`Rental`** is what the server promises: a recognition names somebody who was close to a
scooter (or nobody: the empty name of a failed one), a request asks for a scooter to be freed,
and a renter changes only when such a name or request, still standing, is carried out, each
once. A failure or a crash may drop them but leaves every renter. `RentalServer` implements it
(`ImplementsRental`): a name stands between the callback of the recognition and the update of the
scooter, a request between the two calls of `/free_scooter`.

**`RiderApp`** extends `RentalServer`: the page of every rider with the handlers it calls. The
page is cut at its awaits: a callback of the timer, a slot of `poll`, finds the position, which it
stores in the field all callbacks share, posts it, and gets an answer; posts overtake each
other. `sent` is a request for `/free_scooter` on its way, and a lost request or answer is an
action. The spinner (`isLoading`) is layout and left out. The handler of
`/free_scooter` and the two updates of a recognition are `RentalServer`'s own actions; the
recognition before them is any name (`Recognise`). **`MCRiderApp`** gives the positions.

**`AtCommand`** is `lib_lte_execute_cmd` with the interrupt. What arrives is in parts (OK,
ERROR, the line of a request, the text of a response), in order per command, each lost, damaged,
in time or late. The interrupt takes single bytes, so a text is delivered by the marks that
`strstr` looks for: `unlock*` is `un`, `lock` and the stop character, and a time-out may leave
the first to one buffer and the rest to the next (`Marks`, `Left`). A damaged byte, or one that
fills the buffer of 513, closes it (`ArrivesDamaged`). **`CheckIn`** extends it by the stages of
`app_demo_check_in_to_server`. `lib_lte_post_http_request` parses the first 63 bytes only and
`lib_lte_get_http_response_data` copies a limited number: with something late in the buffer the
line may be missed (`ReturnFromPost`) and the copy be cut (`Copies`). `Following`, `LoopOf` and
`LeftTo` are the order of the loops and where each begins and is left to, `Spent` their common
test, `WordFound` the search of the answer.

**`Vc0706`** is `lib_VC0706_execute_cmd` with its callbacks and the camera, **`Base64`** the
encoder, as a function of a sequence of bytes, with the number of characters it writes, which is
not the number of its result. **`PictureText`** extends both: `stage` is where `app_camera_run`
is between two commands, `text` what the demo task makes of the chunks, `high` how far the
encoder has written into its block (`Block`, what the allocator gives). A last chunk of one or
two bytes makes it leave the block, and the machine halts. The queue between the two tasks is
`CameraStream`'s and what happens to the text afterwards `FaceUpload`'s. **`MCPictureText`**
gives the pictures.

**`SignUp`** is `/sign_up`, cut at its awaits and callbacks (`CheckFails` is a failing query),
with the folder and the file that sign-ups for one name share. `overlapped` remembers the names
that had two sign-ups at a time, the case in which the code does not hold what it promises.

**`ScooterDeviceProofs`**, **`CameraStreamProofs`**, **`RentalServerProofs`**,
**`FaceUploadProofs`**, **`RiderAppProofs`**, **`CheckInProofs`**, **`SignUpProofs`** and
**`PictureTextProofs`** hold the theorems.

## 3. Runs

| run | question | bounds, and why they are enough |
|---|---|---|
| `scooter_device` | is the check-in never missed, the device unlocked only when told, relocked only for a reason, and does it keep checking in and taking pictures? | the program's own constants (200, 80, 10); one loss of power, as each one starts the task over |
| `scooter_device_relock` | does one failure after a good check-in leave the device unlocked, as l.558 says? *no* | small constants, the shape is the same |
| `camera_stream` | safety of the API and that it implements `PictureStream` | three pictures of up to three chunks with a queue of two and one pending request: a full queue, a full request queue, an abandoned picture before and after another all occur |
| `camera_stream_live` | does `app_demo_take_picture` return? | as above, `SmoothSpec` |
| `face_upload` | does an upload start one recognition at most, of its own picture, is a picture that starts clean recognised whole, and does a function give up in time? | two pictures of two or three chunks, two chunks per payload (one payload, or one in the middle and one at the end), two tries, one restart; check-ins before each picture |
| `rental_server` | who can own the flag and the scooter? | one scooter, one user near or far, one check-in beside two overlapping recognitions and their file operations, every crash the code causes (unbounded: `MaxRestarts` is of kills), two units of time. The scooter stays and the user moves, which is all that being close can tell (`ScootersStay`); while the server starts one recognition runs (`FewWhileStarting`). Scooters meet only in the flag and in the user's time, so two recognitions of one scooter show the sharing of files |
| `rental_server_flag` | does the flag always come down, and does the server implement `Rental`? | two recognitions, a free, a kill beside the crashes |
| `rental_server_lock` | does `lock` mean that nobody is close, as l.416 says? *no* | two scooters, one recognition |
| `rider_app` | does a page show only scooters its rider had, is a bill counted from a ride, and does a renter get to see a scooter? | one rider and one scooter, two positions too far apart for a trip; two overlapping callbacks of the timer, one request of `/free_scooter` and one recognition at a time, two units of time, one kill. A callback meets another and a trip's end in every order; the safety properties are proved for any number of each |
| `check_in` | does a check-in return what the server said, and does it end? | two tries, all four answers, an answer, or the end of one, during its command or the next: a stage fails, is given up, and the next one gets its answer |
| `sign_up` | who can sign in, with which picture, and when does the clean-up throw? | three sign-ups for two names, one crash: two overlap while the third follows, precedes or has another name |
| `picture_text` | does the text decode to the picture, and do the interrupt and the encoder stay in their buffers? | chunks of six bytes, pictures of one to three chunks whose last chunk has every length from one to six bytes, an answer during its command or the next |

The proofs cover the same safety properties for all values of the constants, so the bounds
matter for what is only checked (listed at the end of section 4).

`CHECK_DEADLOCK FALSE` stands where the system or its bound really stops: the camera models
halt after undefined behaviour or the last picture, the upload after the last picture, the
sign-ups after the last request, `PictureText` when the encoder runs over the memory.

The runs of `rental_server` and `rider_app` check deadlock: the server and the page never stop.

### Fairness

- `ScooterDevice!FairSpec`: weak fairness of the steps that end whatever the modem does, since
  every AT command has a time-out. None for the return of `app_demo_take_picture`, whose
  loop has no bound of its own.
- `CameraStream!SmoothSpec`: weak fairness of the two tasks (FreeRTOS runs the camera task
  whenever the demo task delays, which its loop does every 50 ms), strong fairness of a chunk
  read that succeeds: reads may fail again and again but not for ever. It leaves out failed
  starts, streams of more than two minutes, abandoned pictures and a chunk whose address is
  written over memory in use, which break the property (see Observations), and assumes that the
  client connects after the stream has started (`ConnectLate`: 700 ms against 100).
- `RentalServer!FairSpec`: continuations run, the recognition process ends, a process that
  threw is started again. No fairness of requests.
- `RiderApp!AppFairness`: a server that threw is started again; again and again the timer of a
  page fires while the server is up, a post arrives, its query is answered and an answer
  arrives. Callbacks may fail again and again, but a connection that never works shows nothing.
  No fairness of END TRIP, of recognitions or of `/free_scooter`.
- `CheckIn!FairSpec`: weak fairness of the scooter's own steps, since every wait of the driver
  has a time-out. The module and the server may never answer.
- `FaceUpload` needs none: that an upload ends follows from `FailuresAreBounded`, as every
  attempt is answered or times out. `SignUp` and `PictureText` have safety properties only.

### What is assumed of the parts outside the program

- The LTE module and the camera answer the commands they received in order, and an answer
  comes during its command or one of the next `Late` ones, or never. Nothing else comes between
  the bytes of a text. The camera holds the picture it took when it was told to stop.
- A lost answer, a lost request and a damaged byte are always possible.
- The server answers a check-in with one of its three words, or with an error page.
- The `writeFile` of `/sign_up` fails only when the folder is missing. A database call may fail
  where an action says so.
- heap_4 rounds a block up to a multiple of 4 bytes (`portBYTE_ALIGNMENT`), and by 4 when it is one.

### Findings

1. `unlocked_error_count` is never cleared by a good check-in: ten failures spread over rides
   relock the scooter at the first failure after a good answer (`scooter_device_relock`).
2. One recognition locks every scooter, rented ones included (`rental_server_lock`).

### Observations

Read from the code and modelled, without a run of their own.

The scooter:

- the picture's size is read before the camera task has assigned it (`app_camera.c` l.276);
- `app_demo_take_picture` passes a pointer it never set as the place for a chunk's address
  (`app_demo.c` l.413, written through at `app_camera.c` l.203): what it overwrites is chance;
- a picture that could not be started stays "in queue" for ever, and its client waits for
  ever (l.282); a full request queue keeps the camera's mutex (l.172);
- a stream whose queue is not empty is freed by receiving into a pointer that is too small
  (l.144), which `CameraStream` lets continue or halt;
- a function of the upload succeeds when it has spent all tries (`app_demo.c` l.253);
- the body of a request is cleared only when clearing the header fails (l.292, where the
  comment says both are cleared), so a key that is added again becomes an array unless the module
  forgets the body with the connection, and what a check-in could not send away is appended
  to the text of the next picture. `/gps` takes the first of several ids, and of several validities
  none, so that it then has no new position;
- when reading the answer fails at the last try, the buffer is freed, then searched, then
  freed again (l.366-383). `CheckIn` says what the search finds, as nothing is allocated between;
- a body whose clearing was given up after its final chunk goes with the next picture's first
  request, is recognised a second time, and grows past the module's 4096 bytes;
  `OneRecognitionPerUpload` is about uploads none of whose stages was given up;
- an answer that a time-out splits between two commands is read by its end alone: `un` | `lock*`
  is a lock where the server said unlock. `OutcomeWasTold` says that no other word is mistaken;
- the encoder writes up to three characters past the text and its end, which only the heap's
  rounding makes room for (`lib_base64.c` l.112), and with a last chunk of one or two bytes it
  runs over the memory (l.136, an unsigned difference). `EncodeStaysInBlock` says that it leaves
  the block with no other chunk;
- a camera command that could not be sent leaves the bus busy for ever and the interrupt a
  pointer to the stack of a function that returned (`lib_VC0706.c` l.174):
  `BytesGoToLiveBuffers` says that nothing else does;
- an answer of the camera that comes during the next command gives a picture with wrong
  bytes, and nothing notices. `TextIsPicture` leaves exactly those pictures out.

The server and the page:

- the second of two recognitions of one scooter does not find the picture and its callback
  ends the server (`server.js` l.660; the models restart);
- a failed `face_recognition` rents the scooter to the empty name (l.633, l.653): `Rental` and
  the type invariant have that name;
- a rejected update in `checkFace()` is an unhandled rejection, and an image that two recognitions
  delete throws in a callback (l.638-645): both end the server;
- `update_scooter_users_a` compares with fields that do not exist and changes nothing (l.581);
- a size or an id written twice in a header loses the header, and the picture is then mixed
  with what the previous one left; the final chunk forgets the keys the server had, so a
  repeated final request is stored again, in front of the next picture, and is not answered
  (l.319);
- a trip that is ended twice, or before its start is recorded, is billed since 1970:
  `BillsStartAtARide` has that 0;
- a page never takes a scooter off because the server no longer lists it, so a rider who keeps
  the card may end the trip of the next rider; `ShownScooterWasRidden` is what does hold;
- `isLoading` is one field that every callback of the timer clears, so the spinner of one request
  goes away with another; nothing depends on it, and it is not modelled;
- two sign-ups for one name at a time give two accounts with which nobody can sign in, or end
  the server in the clean-up. The properties of `SignUp` say that nothing else does.

## 4. Theorems

All are `Spec => []Inv`, `Spec => [][A]_vars` or a refinement, from an inductive invariant: it
holds initially, every action keeps it (one step of the proof per action), and it implies
the property. They assume only the named assumptions on the constants.

- **`ScooterDeviceProofs`**: `TypeCorrect`, `CheckInIsNeverMissed`, `UnlockComesFromServer`,
  `FailuresStayWithinBudget`, `RelockHasAReason`. The invariant ties the counter to the call
  in progress (a pass in which the check-in is due ends with the counter at 0).
- **`CameraStreamProofs`**: `TypeCorrect`, `StreamsOutliveTheirReaders`, `PicturesAreOneFrame`,
  `PicturesAreWhole`, `ChunksComeInOrder` (the refinement of `PictureStream`). `Phases` relates the
  camera task's place to `stream_running` and `object`; `Pending` says that requests wait in
  the order of their ids with nothing handed out; `Consecutive` that the queue holds the chunks
  after those handed out; `Ended` that streams that do not run were handed out whole or not at all.
- **`RentalServerProofs`**: `TypeCorrect`, `FlagIsOwned`, `RentersWereClose`. `NamesWereClose`
  follows a name from the lists through the images on disk and the recognition to the document;
  it is needed because images survive restarts and are shared. `ServerIsARental` is the
  refinement of `Rental`: `StepsAreRentals` maps the two updates of a renter to the carrying out
  of a name or a request that stands, what fails or throws to `Drop`, and `QuietSteps` leaves
  the rest alone; an image may be named because `NamesWereClose` holds.
- **`FaceUploadProofs`**: `TypeCorrect`, `UploadRecognisesOnce`, `UploadGivesUpInTime`,
  `PicturesAreWhole`. After the recognition of an upload the server's size is 0, or undefined
  after a restart, and no chunk has such a key; the header still in the body has two ids, so it
  is not accepted again before the upload ends (`RecognisedOnce`). By the stage a function has
  reached (`Excess`), the count of failures is at most so far past its limit, as each later
  stage is tried once and adds one; a payload exceeds its limit by no more, since only a failure
  keeps a full body from being sent (`PayloadBounded`). `PicturesAreWhole` is the longest
  argument: the body always ends in the chunks counted last, in order (`BodyShape`), and while
  an upload is clean the server has a first part of the picture, with no gap between it and the
  body (`Receiving`, `NoneMissing`). So a body that is sent again starts with chunks the server
  has and ends with new ones, of which the loop of the handler takes all and only the new
  (`NewChunksOfRun`). That loop is a recursive function; that it exists and what it computes is
  by induction on the length of the body. The library's induction theorems have an operator as a
  parameter, so `Induction` is stated for a set of numbers and derived from the well-founded
  order of the natural numbers (`WFMin`, `NatLessThanWellFounded`).
- **`RiderAppProofs`**: `AppTypeCorrect`, `RidersSeeTheirRides`, `BillsAreRides`. The invariant
  extends the server's types by what is on its way: every scooter in a document, an answer, a
  page or a request was recorded for that user before, and every start in a document or a
  handler is one that was recorded, or 0.
- **`CheckInProofs`**: `TypeCorrect`, `BuffersAreLive`, `FailuresHaveCauses`, for every `Late`
  and `NumTries`. While the tries are not spent, the stage before reading saw the server's line
  (`ResponseStored`), so a text that arrives is one of this check-in (`TextsTold`), and the stop
  character that ended the wait was copied (`EndIsRead`). The marks of a text come one after the
  other, from one text at a time (`InOrder`), so without anything late a word stands before that
  character (`WordOfEnd`), and a `lock` without its `un` is the end of an unlock that came late.
  `Excess` bounds the count as in the upload. `OutcomesWereTold` is for every `Late` up to
  `NumTries + 10`: a check-in that could read the word of an earlier one has spent all its tries
  on its own request, and by then so many commands have begun since the earlier text was asked
  for (`Since`) that it no longer comes (`OldTexts`). The bound is exact: with one more, TLC
  finds a check-in that returns the word of the one before (tried with one and with two tries).
- **`SignUpProofs`**: `TypeCorrect`, `EverybodyCanSignIn`, `AccountsShowAFace`, `CleanUpIsSafe`.
  For a name without an overlap, the only sign-up in flight (`OneAtATime`) finds no account, its
  folder and its own picture at every step (`Alone`). A crash leaves a folder and a picture
  behind, which the next sign-up writes over: that is why `Alone` says nothing of names nobody
  signs up.
- **`PictureTextProofs`**: `TypeCorrect`, `TextsArePictures`, `BuffersAreLive`,
  `EncoderStaysInBlock`, for all sizes and pictures. `RoundTrip` is the lemma that decoding
  undoes encoding, for a sequence of any length, by its quadruples; `TextsJoin` that the texts
  of two chunks, one after the other, are the text of both, when the length of the first is a
  multiple of three, as that of every chunk but the last is. `EncoderStaysInBlock` bounds what
  the encoder writes by the block (`BlockFits`, `HighInv`), for all last chunks but those of one
  or two bytes.

Only model-checked: liveness under fairness (`KeepsCheckingIn`, `HeldSwitchTakesPictures`,
`PictureEnds`, `FlagComesDown`, `RenterSeesAScooter`, `CheckInEnds`), which the prover's
backends do not cover. Every other property of a passing run is stated by a theorem.

## 5. Plan

Done: all modules of section 2, in the order of their weight in the system's behaviour: the
scooter, the server, the camera, the upload; then the page, the check-in with its driver,
the picture's text with the camera driver and the encoder, the accounts.

Left:

1. `VisiRide`: `ScooterDevice` with `RentalServer`, with answers that are delayed or lost: for how
   long a device is unlocked for a scooter whose renter has left or freed it.
2. The body of a request in `CheckIn`, which is not cleared: which of two positions of an array the
   server takes (`FaceUpload` has what it leaves for the next picture).
3. `CameraStream` with `FaceUpload`, so that a picture that is given up is one that was abandoned.

## 6. Not modelled

- *Scooter administration, account pages, profile*: single database calls and forms, with no
  state of the program's own between two of them.
- *Heartbeat, start of the firmware*: a task that blinks; the priorities main.c gives are used
  in `CameraStream`.
- *GPS*: its driver is a copy of the LTE driver (`AtCommand`), and the parsing of its line is
  formatting; a position is any position.
- *Passwords, folder names, image conversion, wording of pages.*
- *FreeRTOS, the board support package, the Quartus project and the PCB*: third-party,
  generated or hardware. FreeRTOS alone is nearly all of the C code in the repository; of it the
  models use what the program relies on (priorities, blocking queues, rounding of the heap).
- *face_recognition, MongoDB, sharp, the LTE network, the camera*: external, modelled by how
  the code uses them.
