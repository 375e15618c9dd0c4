# Verification of the camera interface

TLA+ models of `camerad`, the server that runs an Archon or an ARC (Leach)
detector controller: what its threads, its controllers, its clients and its FITS
files do together, checked with TLC on small instances and, as to nearly all of
what is safety, proved with TLAPS for all values of the constants.

## The system

`camerad` accepts clients on a blocking and a non-blocking port. Each worker
thread (`doit`, camerad.cpp) reads a command line and calls the method of that
name of one `Interface` object: `Archon::Interface` (archon.cpp) or
`AstroCam::Interface` (astrocam.cpp), whichever the server was built for. All
clients share the one object with its connection, its frame structure or device
list, its buffers and its FITS file; most of this is protected by no lock.

| component | state | operations | hard because |
|---|---|---|---|
| command link (`archon_cmd`, `fetchlog`, `fetch`, `read_frame`, `native`, connect, disconnect) | `archon_busy`, `archon_mutex`, `msgref`, the socket | send a command and wait for its reply; FETCH and read the blocks | several threads; late replies; a connection that breaks or is closed by another client; FETCH gives the mutex back before its answer is read |
| frame ring (`get_frame_status`, `wait_for_readout`, `expose`, `lock_buffer`) | `frame`, `lastframe`; in the controller the buffers, their numbers and the lock | trigger a sequence, poll FRAME, lock, fetch, unlock | the controller overwrites the ring while the host follows it; other clients update the same structure |
| FITS writer (`FITS_file`, `write_frame`, parts of `expose`) | `file_open`, `threadcount`, `framen`, `writing_file`, `error`; `datacube`, `cubeamps`, `extension`, the observing mode | open, write in a detached thread, join, close | detached threads, time limits, many early returns, settings read again and again |
| configuration (`load_acf`, `load_mode_settings`, `write_config_key`, `write_parameter`, `cds`, `inreg`, `bias`, `heater`) | `configmap`, `parammap`, `modemap` | load a file, write a key, apply | the maps mirror the controller's memory through a link that fails |
| exposure time (`ExposureTime`, `exptime`, `longexposure`, `wait_for_exposure`) | value, unit, two flags; the controller's parameters and timer | set, expose with defaults, wait | a command is several steps that may fail one by one; 32-bit ticks; a timer that is polled |
| server (`block_main`, `thread_main`, `doit`, the signal handler) | descriptors, `conn_mutex`, the commands' answers | accept, poll, read, answer, close, exit | threads, numbers of descriptors that are used again, time limits, closing twice |
| asynchronous messages (`Queue`, `async_main`) | the queue | enqueue, dequeue, send | many producers, one sender that sleeps |
| ARC exposure (`expose`, `dothread_expose`, `frameCallback`, `handle_frame`, `write_frame`) | `framethreadcount`, `frameinfo`, `workbuf`, `abortstate`, an error per controller, a FITS file per device | expose, abort | a thread per device and per frame, a buffer that is used again, frames that wait for their turn |
| ARC devices (`connect_controller`, `native`, `exptime`, `readout`, `geometry`, `buffer`, `access_nframes`, `load_firmware`, checks of `do_expose`) | `devlist`, a `Controller` per device, `bufsize`, `nframes`; the devices themselves | set a device and keep what was set | several devices any of which may throw or say ERR; values kept by one command and used by another |
| settings and file names (`Camera`) | names, numbers, directories, `abortstate` | set, make a unique name | stat, then create |
| triggered and autofetch exposures (`trigin`, `hexpose`, `hread_frame`) | trigger state | as above, for one instrument | frames come unasked |
| keyword database, logging, utilities, emulator, instrument files, command line tools | | | see "Not modelled" |

### What makes each part correct

* Link: one thread at a time uses the socket; a reply is accepted only by the
  command it answers; a frame consists of the blocks that were asked for;
  every command returns.
* Ring: the frames of a sequence are new, consecutive and whole.
* FITS: a file announced as COMPLETE is closed and holds every image handed over
  for it; an error in a thread reaches the client; the file is closed in the end; no
  exposure fails without a cause; the observing mode is switched back.
* Configuration: the maps equal the controller's memory between commands; what
  is reported as written is in effect; a failed load is not taken for a success.
* Exposure time: host and controller have the same time after success; a wait
  lasts the exposure, and ends.
* Server: every client is answered on its own connection, in order; no
  descriptor is lost; each message is sent once, in order.
* ARC exposure: frames reach their file in order; no failure of one device is
  lost among the others; nothing runs on after `expose`; `expose` returns.
* ARC devices: all requested are open or none is; they have one exposure time;
  what passes the checks of `expose` fits the buffers.

Not all of this holds. Where the code departs from it, the property names the
case it leaves out, by a variable that records the history, and the run has
the case: see "Departures".

## The modules

| module | models | state and actions |
|---|---|---|
| `ArchonLink` | the command link with any number of client threads | `pc[t]` is the place inside `archon_cmd`, `stage[t]` the call site of the operation; `Pass` (the test of `archon_busy`), `Acquire`, `Send`, `Receive`, `PollTimeout` and `ReadFails` are the steps of `archon_cmd`; `Header`, `Body`, `BlockTimeout`, `Release` and `ReturnFrame` those of `read_frame` |
| `ArchonLink_proofs` | theorems about it | |
| `FrameRing` | the ring and the host that follows it | `StartReadout` and `EndReadout` are the controller; `Expose`, `Trigger`, `Poll`, `Final`, `Lock`, `Fetch`, `StreamEnd` and `Unlock` the host; `Watch` another client's `printstatus` |
| `FrameRing_proofs` | theorems about it, its refinement of `ImageSequence` among them | |
| `ImageSequence` | what a sequence of exposures promises | refined by `FrameRing` |
| `FitsFile` | the FITS file, its threads and the part of `expose` that drives them | `OpenCube` ... `Last` are `expose`, `Write`, `Join` and `NextAmp` are `write_frame` and `write_image`, `Begin` ... `End` a writer thread |
| `FitsFile_proofs` | theorems about it | |
| `MCFits` | the scenarios of its run | |
| `ConfigMirror` | the configuration of the controller and its mirror in the host | `map` is `configmap` and `parammap`, `memory` the configuration lines in the controller, `applied` what is in effect; `StartLoad` ... `LoadApply` are `load_acf` and its callers, `SetCameraMode`, `ModeShutter`, `SelectMode` are `set_camera_mode`, `WriteItem` and `NoteItem` one `write_config_key` or `write_parameter`, `ApplyItems` an APPLY |
| `ConfigMirror_proofs` | theorems about it | |
| `MCConfig` | the ACF files and commands of its run | |
| `ExposureTime` | the exposure time of an Archon camera | a command is the list `todo[t]` of its steps: `SetUnit`, `Send`, `Check` are `longexposure`, `SendTime` and `Keep` are `exptime`; `Trigger` ... `PollTimeout` are `expose` and `wait_for_exposure`, `Tick` a millisecond |
| `ExposureTime_proofs` | theorems about it | |
| `MCExposureTime` | the ACF files of its runs | |
| `Server` | the threads of `camerad`, its descriptors and its message queue | `table` is the process's descriptor table, `fd[t]` and `copy[t]` the numbers in a thread's socket and in the copy of it that `doit` has; `Lock` and `Accept` are `thread_main` and `block_main`, `Poll` ... `Reply` are `doit`, `CloseCopy` and `Close` its two closes, `Dequeue` and `AsyncWait` are `async_main`, `Signal` and `Exit` the end |
| `Server_proofs` | theorems about it | |
| `MCServer` | what its clients send | |
| `ArcExposure` | an exposure of ARC controllers | `Start`, `Join`, `Finish` are `expose`; `frameCallback`, `ExposeEnds`, `KeysAdded` and `ExposeThrows` the thread of a device; `Claim`, `Deinterlace`, `Skip`, `Write` and `Erase` the thread of a frame in `handle_frame` |
| `ArcExposure_proofs` | theorems about it | |
| `MCArcExposure` | the scenarios of its run | |
| `ArcDevices` | what the host keeps of the ARC devices, and the devices | `con` is the vector `controller`, `dev` the devices; an action is a command of a client |
| `ArcDevices_proofs` | theorems about it | |
| `MCArcDevices` | the device lists of its run | |

Components interact through results: `ArchonLink` has the bytes of `read_frame`,
`FrameRing` its buffers, `FitsFile` its result; `ConfigMirror` and `ExposureTime`
see of `archon_cmd` only how it ends; `ArcExposure` uses of `FITS_file` that
`write_image` succeeds or fails, and assumes of the devices what `ArcDevices`
shows of the checks of `expose`. Composing two of them in one state space would
multiply models that meet in a single success or failure, which each of them
treats as a nondeterministic choice (`ReadFails`, `Outcomes`, the scenarios).

A scenario (`FitsFile`, `ArcExposure`, `Server`) is a record of settings and of
what may fail, chosen in `Init` and never changed. One run has all of them.

### Abstractions

* A message is a record with its reference. The controller answers a text
  command with one message and FETCH with one message per block. Each message
  carries the thread it is meant for, which only the properties read. A `Read`
  may take several messages or cut a block in two, and may find a newline in
  binary data.
* A frame in a buffer is its number, or `Torn` when it is not one whole frame.
* A file is a sequence of images; header keywords are left out. CCfits may fail
  when it writes an image, not when it writes a header.
* The controller of `FrameRing` is the emulator's frame thread with the lock of
  a buffer honoured, as the code in `read_frame` relies on; the emulator itself
  ignores LOCK. It stays at most `Lead` frames ahead of the host while the host
  acquires. The code does not ensure any pace.
* In `ConfigMirror` a configuration key and a parameter are both items; the
  command that applies an item is its `Scope`. CLEARCONFIG empties the memory and
  FASTLOADPARAM changes the parameter in effect only, as the comments in
  `archon.cpp` have it; the emulator ignores the first and, on the second,
  overwrites a line of the memory (`FastStored`). Modes are read after all
  other lines of the file. That a command finds fault with its arguments is a
  choice (`Accepted`): it then returns an error before it has sent anything.
* In `ExposureTime` a parameter may be refused, or take effect although the
  command reports an error (a reply that was lost). Time is counted while an
  exposure runs; a wait on the host's clock and the controller's timer run at
  the same rate.
* In `Server` what a command does is its kind: it succeeds and posts a message,
  fails, is answered at once, or ends the server. A descriptor is the lowest free
  number, as `accept` gives it. A line may come in two parts.
* The driver library of the ARC cards is not in the repository: `CArcDevice` may
  throw at any call, answers with ERR at will and, in an exposure, fills the
  slots of the buffer in turn and calls back for each frame. A size in
  `ArcDevices` stands for both registers of the geometry. The firmware of a
  device has a size of its own, which loading brings in.
* The ARC sources do not fit the present `camera.h` and need the driver to
  compile; they are modelled as they are written.

## Runs

All bounds are constants of the modules, named in their comments.

* `LinkCommands`: three threads that send text commands while the connection is
  opened, closed and lost. `OneTransaction`, `HeldThroughout` and `BusyExact`
  hold. Three threads are one that has the mutex, one that waits for it after
  its test, one that tests.
* `LinkSerial`: one client, all operations, replies that come late (`MaxLag` 1)
  and connections that break. References are taken modulo 2 instead of 256 and a
  frame has 3 blocks, so that, as in the program, there are fewer references than
  a frame has blocks, and more than commands that may be unanswered at once; were
  the controller late with 256 commands, a stale reply would be accepted. `OwnReply`
  and `CleanFrame` hold, except for what a readout that broke off has left on the
  connection (`debris`). `OperationReturns` holds under fairness.
* `RingSteady`: two active buffers (BIGBUF), a controller that numbers a frame
  when it ends (the emulator's order), sequences of images with a pre-exposure.
  `FrameRing` implements `ImageSequence` (`DeliversSequence`), and
  `SequenceCompletes`. `Lead` is 1: the host reads a frame before the next one
  is complete; with 2, frames are skipped. Seven frames go round the ring three
  times.
* `RingWatched`: three buffers, a controller that may be three frames ahead, which
  is once round the ring, another client's `printstatus` and a failure at every
  step. `WholeFrames` and `InOrder` hold for the images that are not `late`; a
  frame may be delivered twice.
* `ConfigWrites`: one client and four files: two with modes, with some of the
  same keys on the same lines, some on others and one of its own each; one with a
  malformed line; one that cannot be opened. Commands that write one key (`cds`,
  `heater`, `sensor`) or two (`shutter`), a parameter, and changes of mode. Any
  command to the controller, and any argument, may be refused. Whatever fails in
  between, the maps mirror the memory (`MirrorExact`), `firmwareloaded` and
  `modeselected` mean that the memory holds the whole file (`WholeFirmware`),
  `load_firmware` does not report success for a failed load (`LoadReported`), and
  keys reported as written are in effect (`SuccessApplied`). Two values of an item
  are enough for one that differs from the map; files of two layouts are needed
  for a map that names the lines of the file before.
* `FitsErrors`: six scenarios. `Errors`: images and cubes, with failures to
  create, read and write. `Amplifiers`: one extension per amplifier, nothing
  fails. `RawData`: image and raw data in one file. `Late` and `LateCubes`:
  threads slower than `FITS_WRITE_WAIT`, which live on when `write_image` has given
  up. `Failures`: amplifiers, raw data, cubes, the mode RAW, and every failure.
  Two or three files suffice for what one exposure leaves to the next (up to four
  for a thread left behind in one, that ends in another), two or three images for
  a first, a middle and a last one, two writer threads for one that is late and
  its successor. `CompleteFiles` and `SavedOrReported` exempt files in whose time
  a thread was left behind (`stray`), `ClosedAtRest` an expose that has returned
  between `open_file` and `close_file` (`abandoned`); `NoSpuriousError` speaks of
  the scenarios in which nothing fails, `ModeKept` of an expose that returns
  NO_ERROR. `ExposeReturns` holds under fairness in all of them.
* `ExposureTimes`: one client that sets times and one that exposes, any step of
  which may fail. The integers are scaled: a second is 2 ms, a tick half a
  millisecond, a word 12 (2^32), so that the ticks of the longest time (3 s)
  wrap and those of the others do not.
  `MaxClock` is later than every time limit.
* `ArcFrames`: four scenarios. `Ring`: one device that sends three frames into two
  slots, at any pace, and may fail or be aborted. `Pair`: two devices with two
  frames each, likewise. `BadDisk`: two frames, whose file may not be created or
  written. `NoNumbers`: three frames of firmware that does not number them, on
  such a disk. Two exposures, for what one leaves to the next; two devices, for
  one that fails while the other succeeds; three frames, so that the third finds
  the slot of the first. `FramesInOrder` exempts a device that outran its threads
  (`outpaced`), `SuccessIsComplete` one without a file (`unopened`), and
  `ExposeReturns` the two ways in which `expose` waits in vain (`Hangs`).
* `ArcDevices`: two devices; `open` for all, for one, for one that does not
  exist, and with a bad token after a good one; selections of all devices and of
  one followed by one that does not exist; two sizes and one buffer size, for a
  size that fits and one that does not when several frames come. `devlist`
  grows by at most one entry through bad tokens (`MaxList`). `FramesFit` speaks of
  devices whose size no load has changed since their last geometry (`sized`) and
  on which `buffer` last succeeded (`mapped`).
* `Server`: a thread of the blocking port and two of the other, in four
  scenarios: two workers at once; lines in two parts and a client that hangs up
  any time; the blocking port used twice in turn; the end by a command and by a
  signal. Two workers suffice for a descriptor that is closed by one thread
  after another has got its number.
* `LinkDoubleUnlock` and `ExposureDefault` end with a violation: see Findings.

A `TypeOK` is defined in every module with state; the runs check those of
`ArchonLink` and `ArcExposure`. The types of the other modules are part of the invariants
that are proved.

### Deadlock

The runs of `ArchonLink`, `ConfigMirror` and `ArcDevices` check it. Those of the
others stop when their bound on frames, files, exposures, commands or lines is
reached, or when the server has ended.

### Fairness

No strong fairness is used. Weak fairness is assumed of

* `ArchonLink`: the controller and each thread's steps: every wait of a thread is
  a `Poll` or a loop with a time limit that the operating system lets go on.
  Nothing is assumed of the time limits beyond that, of the start of operations,
  or of the loss of the connection;
* `FrameRing`: the controller and the polling host;
* `FitsFile`: `expose` and each writer thread, whose waits are counted down;
* `ExposureTime`: the steps of a command, of a wait, and of time. Not of a poll
  that succeeds: its limit ends the wait;
* `ArcExposure`: `expose`, each thread of a frame, and each device, which delivers
  its frames or throws, as its library promises (how fast it does, nothing says);
* `Server`: each thread's steps and `async_main`; and a client that has begun a
  line ends it or hangs up, and one that has sent its lines hangs up, because
  nothing else ends a poll on the blocking port.

## Findings

Each of these runs checks one property and finds it violated.

| run | what the code does |
|---|---|
| `LinkDoubleUnlock` | `read_frame` unlocks the mutex twice, the second time perhaps another thread's (archon.cpp:3171) |
| `ExposureDefault` | the exposure time of the ACF file is never taken over, because the constructor of `ExposureTime` marks the time as set (archon.cpp:3798) |

### Departures

The models show more departures of the code from its own comments or from what
one would expect. Those in the first table are behaviours of the runs, which a
property exempts by name. Without the exemption TLC finds the property violated
in the same run.

| run | property | exempt | what the code does |
|---|---|---|---|
| `LinkSerial` | `OwnReply`, `CleanFrame` | `debris` | the blocks that a broken-off readout leaves behind may be more than there are references, and are then taken for the answer to a later command, or for blocks of the next frame |
| `RingWatched` | `WholeFrames`, `InOrder` | `late` | a controller that is ahead rewrites the buffer before LOCK comes; or `printstatus` moves `frame.index` between LOCK and FETCH, and a buffer without a lock is read (archon.cpp:3032) |
| `ConfigWrites` | `WholeFirmware`, `SuccessApplied` | `astray` | `load_acf` returns from a malformed line without clearing `modeselected` and with background polling off; it never clears the maps, so that an item that only an earlier file has is written over another one's line |
| `ConfigWrites` | `SuccessApplied` | `failed` of `sensor` and `heater` | they return the code of reading the map back in place of that of their write or APPLYMOD |
| `FitsErrors` | `CompleteFiles`, `SavedOrReported` | `stray` | `write_image` gives up after `FITS_WRITE_WAIT` while its thread still uses its local array; the thread then writes garbage, or counts down the threads of the next file, whose `write_image` returns before its own thread ended (fits.h:323) |
| `FitsErrors` | `ClosedAtRest` | `abandoned` | a failed exposure delay (archon.cpp:4023) or, with data cubes, pre-exposure (archon.cpp:3972, 3979) returns with the file open, and so does a second `open_file` in mode RAW with datacube; all later exposures fail |
| `FitsErrors` | `ModeKept` | errors | an error during the raw frame leaves the mode RAW (archon.cpp:2717) |
| `ArcFrames` | `ThreadsCounted` (its term `lost`), `ExposeReturns` | `Hangs` | a frame that finds its slot taken returns without counting its thread off, and `expose` waits for ever (astrocam.cpp:2416); so it does for a frame whose predecessor was not written and not counted (astrocam.cpp:2029) |
| `ArcFrames` | `FramesInOrder` | `outpaced` | a device faster than its threads overwrites a slot that is not yet written and, without frame numbers, nothing orders the threads |
| `ArcFrames` | `FramesInOrder` | `ferror` without frame numbers | a frame that was not written is missing between those that were |
| `ArcFrames` | `SuccessIsComplete` | `unopened` | the error of `open_file` is overwritten (astrocam.cpp:1345, 1397) |
| `ArcFrames` | `SuccessIsComplete` | aborts | `abort` is no error: frames are missing and the result is NO_ERROR |
| `ArcDevices` | `FramesFit` | `sized` | a firmware of another size changes the device behind the host |
| `ArcDevices` | `FramesFit` | `mapped` | `bufsize` changes although `buffer` fails on one of the devices |
| `ExposureTimes` | `TimesAgree` | `trust`, after a failure | the host keeps the unit when the controller has refused it (the comment at archon.cpp:5601 says otherwise); a later `exptime` without a unit then succeeds with the wrong one |
| `ExposureTimes` | `WaitCovers` | times beyond a word of ticks | the number of ticks is a product of 32 bits: above 42949 ms a wait ends too early |
| `ExposureTimes` | `WaitCovers` | `start = NoTime` | a first `get_timer` that fails is ignored, and the wait is compared with an unset time |

Those in the second table take a property that no run has, because the code does
not have it, or a configuration of the run with these constants or with a scenario
changed as said.

| from | change | violated | what the code does |
|---|---|---|---|
| `LinkDoubleUnlock` | none | `OneTransaction`, `BusyExact`, `OwnReply`, `CleanFrame` | `archon_busy` is tested before the mutex is taken and FETCH releases it: a waiting thread uses the socket during a readout |
| `LinkSerial` | none | `BusyClears`, `BusyExact` | FETCH by the native command leaves `archon_busy` set |
| `LinkDoubleUnlock` | `Closers = {t2}`, `FairSpec` | `BusyClears` | closing the connection during a readout leaves `read_frame` in an endless loop |
| `LinkSerial` | `MaxLag = 2`, `MaxQueue = 4` | `OwnReply` | a controller that is late with as many commands as there are references (256) has an old answer taken for a new one |
| `RingWatched` | none | `FetchedIsLocked` | `printstatus` between LOCK and FETCH: the buffer fetched is not the one locked |
| `RingWatched` | none | `FreshFrames` | frames left over from an expose that gave up are taken for those of the next |
| `RingSteady` | `Lead = 2` | `LastframeIsRead`, `DeliversSequence` | a FRAME report after the wait may move `frame.index` to a newer frame than `lastframe` |
| `RingSteady` | `MayFail = TRUE` | `DeliversSequence` | a failed read leaves its buffer locked (archon.cpp:3185), and the controller is left with one of two |
| `RingSteady` | `Watched = TRUE` | `DeliversSequence` | another client's `printstatus` moves `frame.index` while a frame is awaited or read |
| `FitsErrors` | `RawData` with the command `mode_raw` | `NoSpuriousError` | mode RAW with datacube opens the file twice |
| `FitsErrors` | `Amplifiers` with the command `datacube_false` | `CompleteFiles` | cubeamps without datacube overwrites the amplifiers |
| `FitsErrors` | `Amplifiers` with `rawtoo` | `NoSpuriousError` | cubeamps with raw data counts an extension too many |
| `FitsErrors` | `during = TRUE` | `CompleteFiles`, `SavedOrReported`, `ClosedAtRest` | datacube changed during an exposure loses images |
| `ConfigWrites` | two clients | `MirrorExact`, `WholeFirmware`, `SuccessApplied`, `LoadReported` | two clients write the same key; the controller and the map take the values in different orders; a load of one ends in the middle of a command of the other |
| `ConfigWrites` | a file with a second line for `Gain` | `MirrorExact`, `SuccessApplied` | both lines are written to the controller, the map has the last one |
| `ConfigWrites` | `MayLose = TRUE` | `MirrorExact`, `WholeFirmware`, `SuccessApplied` | a reply that is lost leaves the map with the old value |
| `ConfigWrites` | `FastStored = TRUE`, the parameter set to "1" | `MirrorExact` | with the emulator, `set_parameter` changes the memory and not `parammap` |
| `ConfigWrites` | `Commands <- MCRetry` | `ModeApplied` | a mode whose settings were written but not applied is taken for unchanged when the command is repeated: success is reported, the old settings stay in effect (archon.cpp:2073) |
| `ExposureTimes` | two setters, `TimesAgree` without its exception for overlapping commands | `TimesAgree` | two clients' `exptime` interleave: the parameters of one, the value and unit of the other |

Departures that the models have as behaviour, or that were found while
reading and lie outside of what a property says:

* `ArcDevices`: `exptime` is kept although SET was answered ERR
  (astrocam.cpp:2097); without controllers it reads the front of an empty
  vector. A list that names a missing device after an existing one destroys
  joinable threads, which ends the process (`Abandons`). `shutter` looks a stale
  `devlist` up without a `try`, and asking for its state disables the shutter. A
  bad token in `open` leaves the numbers before it in `devlist`. `bufsize`
  survives a disconnect, and changes although `buffer` failed on the second
  device. The name of a readout is kept though SOS was refused. `access_nframes`
  always reports an error and keeps the number. `load` of the defaults is
  NO_ERROR when no device has one. `expose` with an empty `devlist` returns a
  variable nobody assigned. Header keywords are added to the file of a device
  while threads of its frames write to it (astrocam.cpp:875).
* `Server`: `doit` and its caller both close the socket, so that the second close
  may hit a new connection with the same number (such a connection is in
  `hurt`, and `OwnAnswers` exempts it). `Read` tests its time limit only after
  a byte: a late line is cut in two commands, and half a line holds a worker
  without limit. With ASYNCGROUP none `async_main` announces its end and
  goes on draining. `exit` may come before the last messages are sent.
  `lasterrorstring` is shared by all clients. SIGTERM is not registered, and
  SIGHUP configures the controller inside the handler.
* `ExposureTime`: LOADPARAMS resets the controller and the host keeps its time; a
  time changed during a wait changes its end; `abort` sets a flag that no loop
  tests; with `longexposure` false a value beyond `MAX_EXPTIME` may be sent. Were
  the branch for the defaults reached, 5 s would be converted to 0.

## Proofs

The theorems hold for all values of the constants that satisfy the module's
assumption and, where one is named, a hypothesis. A hypothesis stands in the
theorem (`ASSUME ... PROVE Spec => []...`) and is a definition of the module. What
the properties exempt (see Departures) is not excluded by a hypothesis: there the
theorem is about the behaviours that have it too. For each hypothesis there is a
changed configuration in the second table above that does not satisfy it and in
which TLC finds a property of the theorems violated, but not all of them:
`FramesAreClean` assumes `RefMod > MaxLag`, `FirmwareIsWhole` `DistinctLines` and
`ErrorsAreReported` that `cubeamps` goes with `datacube` because their proofs need
it, and TLC found no violation without.

| module | theorem | property | hypothesis |
|---|---|---|---|
| `ArchonLink_proofs` | `TypeCorrect` | `TypeOK` | |
| | `MutexHeld`, `Exclusion` | `HeldThroughout`, `OneTransaction` | `Readers = {}` |
| | `BusyIsExact` | `BusyExact` | `Readers = {}`, `Natives = {}` |
| | `RepliesAreOwn` | `OwnReply` | `TextOnly` or `OneThread`, `RefMod > MaxLag` |
| | `FramesAreClean` | `CleanFrame` | `OneThread`, `RefMod > MaxLag` |
| `FrameRing_proofs` | `ImagesAreWhole`, `ImagesComeInOrder` | `WholeFrames`, `InOrder` | |
| | `SequenceDelivered` | `DeliversSequence` | `Steady`, `~Watched` |
| `FitsFile_proofs` | `FilesAreComplete`, `ErrorsAreReported` | `CompleteFiles`, `SavedOrReported` | every scenario is `Settled` |
| | `FileIsClosed` | `ClosedAtRest` | no settings change during an expose (`~during`) |
| | `NoErrorWithoutCause` | `NoSpuriousError` | every scenario is `Quiet`, or something may fail |
| | `ModeIsKept` | `ModeKept` | |
| `ConfigMirror_proofs` | `LoadsAreReported` | `LoadReported` | `OneClient` |
| | `MapsMirrorMemory`, `FirmwareIsWhole`, `WritesAreApplied` | `MirrorExact`, `WholeFirmware`, `SuccessApplied` | `OneClient`, `Reliable`, `DistinctLines` |
| `ExposureTime_proofs` | `HostAndControllerAgree`, `WaitCoversExposure` | `TimesAgree`, `WaitCovers` | |
| `Server_proofs` | `NoDescriptorLost`, `MessagesKeepOrder`, `AnswersAreTheirOwn` | `NoLeak`, `MessagesInOrder`, `OwnAnswers` | |
| `ArcExposure_proofs` | `ThreadsAreCounted`, `FileHasFramesInOrder`, `NothingLeftAtRest`, `SuccessMeansComplete` | `ThreadsCounted`, `FramesInOrder`, `QuietAtRest`, `SuccessIsComplete` | |
| `ArcDevices_proofs` | `OpenIsAllOrNothing`, `ExposureTimesAgree`, `ExposedFramesFit`, `LoadedIsLoaded`, `FirmwareAsReported` | `AllOrNothing`, `TimesAgree`, `FramesFit`, `LoadedRuns`, `LoadReported` | |

The invariants they follow from, none of which the properties imply:

* `ArchonLink`: that `block[t]` stays within `Blocks` needs `BlocksLeft` (a thread
  that reads blocks has not read them all), with `TypeOK` the `TypeInv`. `Excl`
  adds where the threads are (`PlaceTyped`), that none reads a frame (`NoFrames`),
  and `HeldThroughout`: who waits for a reply holds the mutex, which has one
  owner. `BusyInv` adds `IdleIsOut`: an idle thread is outside `archon_cmd`. The
  double unlock of `read_frame` refutes `HeldThroughout`, and a readout
  `OneTransaction`, with readers.
* `ArchonLink`, replies: `LinkInv`. A reference in flight has an age, the number of
  commands sent since it was given out. `QueueInv` says that a message is as old as
  the messages and commands behind it are many at most. Between readouts these are
  no more than `MaxLag` (`Few`), because a command that returns has taken at least
  one message and added one; so with fewer than `RefMod` commands late an age tells
  replies apart, and `ReplyInv` says that what is of age 0 in front of a waiting
  thread answers its command. During a readout no more blocks are on their way than
  are still to be read (`Counted`), however many a frame has. `FetchInv`: a `FETCH` of
  `read_frame` is sent only when nothing is on its way, so that all that comes while
  blocks are read is the reader's own (`Framed`). After a native `FETCH`
  `archon_busy` stays set, all commands are refused (`Dead`) and nothing else need
  hold; nor does it while there is `debris`, whose references say nothing. It ends
  when a command is sent with nothing on its way, which makes `Live` hold anew.
* `FrameRing`: `RingSafe`, at any pace of the controller. `RingInv` says what the
  buffers hold, `StatusInv` that the host's copy of it is old but not wrong,
  `ReadInv` that a buffer that was whole when the lock came, and is the one
  fetched, stays as it is, `ImageInv` what has been read: the last image may be as
  new as the one to come, no earlier one is. The refinement needs `RingOrder`: with
  the newest frame in the ring (`NewestInv`), a controller that does not write the
  buffer the host goes by (`PaceInv`), and no lock left behind (`LockInv`,
  `LockedInv`), no image is late. `Steady` is that the controller is at most one
  frame ahead, and that three buffers are active or no command fails: a buffer
  that stays locked would leave the other of two to the controller. It also needs
  `CountInv` (what is left of a sequence) and `NextInv` (the frame noticed after an
  image is the next one), which only hold while no other client asks for the
  frame status.
* `FitsFile`: `Inv`. `OpenInv` and `ClosedInv` say at each step of `expose` whether
  the file is open, `PartsInv` and `BoundInv` bound the extensions and counters,
  `ThreadInv` that while `write_image` waits there is one writer thread, its own,
  and else none, unless the file is `stray`, `PlaceInv` what file and counters have
  at each step, `FileInv` and `KeptInv` what the files hold and which frames are in
  one, `ModeInv` that the mode is another than the one found only while a raw frame
  is written, `ErrorInv` and `StepInv` that without a cause there is no error and the
  count keeps up with the extension. The conjuncts say of which scenarios they
  speak: `Settled` is that nobody changes `datacube` or `cubeamps` during an expose
  and that `cubeamps` goes with `datacube`; `Quiet` that besides nothing fails or is
  late, `cubeamps` is used without raw data, and the mode RAW without either.
* `ConfigMirror`: an invariant for each theorem, on those before it. `KindInv` and
  `ReportInv` say which commands are in which stage; `LoadInv` what of its file a
  load has put into maps and memory, up to an error, after which the maps go on
  alone; `MirrorInv` that the maps say what the memory holds, but for the item of a
  write that is not yet noted; `WholeInv` that, until something goes astray, the
  memory has the items of the file loaded last on its lines; `StepsInv` that of
  the steps a command has done those that wrote are in the map, and those that
  applied have brought what was written before them into effect. The values
  themselves come into effect by `ApplyIs`, and `PlanApplies` says of the list of
  steps that it applies whatever it writes. `OneClient` is one client; `Reliable` that a command whose reply is
  lost had no effect (it may still be refused) and FASTLOADPARAM does not change
  the memory; `DistinctLines` that no file names an item twice, of which
  `load_acf` would keep the last line. Files may name different items: an item of
  an earlier file stays in the maps, as `load_acf` does not clear them, and
  `MirrorInv` speaks of what is in the memory only.
* `ExposureTime`: `TimeInv`. `InItsUnit` is what `exptime` and `longexposure` have
  left to do; `TrustInv` that after each of their steps host and controller agree
  as far as the rest of the command will bring them; `KeptInv` that the exposure
  that runs has the host's time.
* `Server`: `Typed`, `NoLeak` and `AnswerInv`. A connection is in one place
  (`OnePlace`), the number of a connection that no second close hit is no other
  thread's (`Alone`), and what a thread read and has not answered yet is the next
  line of its client (`InStep`).
* `ArcExposure`: `ThreadInv`. `SlotInv` gives each thread of a device that is not
  `outpaced` a slot of its own with its frame; `CountInv` and `TurnInv` say that no
  frame is counted that is not done with, and that a thread writes when all before
  it are through; `FileInv` that the file has the frames that are done with, in
  order; `MainInv` that the counter is the number of the threads that live or were
  lost. Without frame numbers the order follows because a device that is not
  `outpaced` sends a frame when the thread of the last one has ended.
* `ArcDevices`: `Inv`. `FramesFit` speaks of the devices, the checks of `expose` of
  what the host believes; what connects them is `SizeIsRead` (a device whose size
  no load has changed since its `geometry` has the host's size, or the host has 0)
  and `BufferKept` (a device for which `buffer` last succeeded has `bufsize`). `Known0`
  (devices of `devlist` have a controller; without controllers the history is
  empty) is needed for `TimesAgree` and `AllOrNothing`.

An invariant is proved by one lemma per action or per conjunct; TLC checked each
of them first, on the runs' instances.

Model-checked only: everything that is liveness (`OperationReturns`,
`SequenceCompletes`, `ExposeReturns`, `AllAnswered` and the like), which with
`ENABLED` is beyond the prover; and the safety properties of the runs outside the
hypotheses above.

## Plan

Done: every module of the table, with proofs of what the runs check of safety. To
follow, in this order:

1. Two clients in `expose` at once: the modules have one, because with two
   nothing they promise can hold (`camera_info` and `image_data` are one); which
   promises are left is worth a module.
2. `hexpose`, `trigin` and autofetch as an extension of `ArchonLink` and
   `FrameRing`.
3. File names: stat and create of two exposures.

### Not modelled

* Triggered and autofetch exposures (`trigin`, `hexpose`, `hsetup`, `hroi`,
  `hwindow`, `hread_frame`): for one instrument; planned.
* The keyword database (`FitsKeys`): parsing of text into a map.
* File names and directories: they come from the clock and the file system.
* `test` of both interfaces, logging, MD5, daemonising, the configuration
  file, string utilities, the command line tools, the deinterlacing of pixels:
  formatting, I/O or data permutations without protocol.
* The ARC driver, CCfits and the operating system are external: they appear as
  choices of their callers.
* The emulator's own server and pixels; what it answers is in the environment
  of `ArchonLink`, `FrameRing` and `ConfigMirror`.
