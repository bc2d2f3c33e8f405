# droidmirror in TLA+

A specification of droidmirror: an Android screen mirror made of a server that
runs on the phone (`crates/server`), a desktop host (`crates/native`,
`crates/client`) and an ADB transport written from scratch
(`crates/transport`). The modules below are translated from the Rust source;
TLC checks them on small instances and TLAPS proves theorems about them.

## The system

| Component | State it keeps | Operations | Source |
|---|---|---|---|
| ADB connection | local ids, open streams with a remote id and a channel of 128 payloads each, one waiter per stream, a reader task | `open_stream`, `read`, `write`, `close_stream`, `reader_loop`, `write_packet` | `transport/src/adb/client.rs` |
| Back end and device | the back end in use, its device | `connect`, `connect_usb`, `connect_tcp`, `open_usb`, `pick_serial` | `native/src/main.rs`, `transport/src/lib.rs`, `usb.rs`, `server.rs` |
| ADB handshake | a deadline, whether a signature was sent, negotiated payload size | `handshake` | `client.rs`, `auth.rs`, `protocol.rs` |
| Sync push, shell | an open stream, the status so far | `push`, `shell`, `deploy` | `client.rs`, `server.rs`, `native/src/main.rs` |
| adb server back end | a socket, a pump task and a channel of 128 chunks per stream | `open_stream`, `read`, `write`, `close_stream`, `pump` | `transport/src/adb/server.rs` |
| Links | USB endpoints or a TCP socket, a write lock, unread bytes | `read_exact`, `write_all` | `usb.rs`, `tcp.rs`, `io.rs` |
| Wire protocol | none (encode and decode) | `try_decode_handshake`, `try_decode_frame`, `encode` | `proto/src/lib.rs` |
| Coordinates | the window's size, the client's frame size, the injector's two sizes | `quad`, `view`, `map_to_device`, `fit_max_size`, `to_display` | `render.rs`, `native/src/main.rs`, `client/src/lib.rs`, `control.rs`, `inject_sdk.rs` |
| Client | undecoded bytes, handshake seen, size, keyframe skip, fatal | `on_bytes`, `request_keyframe_skip`, `touch`, `key`, ... | `client/src/lib.rs` |
| Desktop session | two std channels of 8, an unbounded command channel, recorder | `session`, `enqueue`, `decode_thread`, `main` | `native/src/main.rs`, `decode.rs` |
| Window | cursor, buttons, modifiers, latest frame, GIF recorder | `window_event`, `about_to_wait` | `native/src/main.rs`, `toolbar.rs` |
| Recording | MP4 track, GIF thread | `Mp4Rec`, GIF writer | `native/src/capture.rs` |
| Server session | the client socket, the display size last seen | `serve`, `serve_session`, `reconfigure` | `server/src/android/run.rs`, `net.rs` |
| Capture | codec, virtual display, parameter sets, pause, bitrate | `start`, `poll`, `wait_csd`, `release`, `apply_params` | `server/src/android/capture.rs` |
| Control demux | undecoded bytes | `push`, `apply_message` | `server/src/control.rs` |
| Injection | touch slots, pressed state | `touch`, `key`, `text`, `scroll` | `inject.rs`, `uinput.rs`, `inject_sdk.rs`, `keys.rs` |
| Display power | wake lock, previous setting | `acquire`, `release` | `power.rs` |
| Startup | the current attempt | `prepare`, `open_retry`; on the device `bind`, `accept` | `native/src/main.rs`, `net.rs` |

How they interact. The host connects over ADB, to the phone itself or, when
another adb has its USB interface, through the local adb server; it pushes the
server, starts it with a `shell:` stream and opens `localabstract:droidmirror`. The session task
reads video from that stream and writes control messages to it, while another
task drains the shell; both share one ADB connection, whose single reader task
routes every incoming packet by its local id and also answers each payload on
the same link the owners write to. The session hands frames to a decode thread
over a bounded channel, and that thread hands pictures to the window thread
over another. On the device one thread polls the socket, applies control
messages to the encoder and the injector, drains the encoder into the socket,
and rebuilds the encoder when the display changes.

What is hard. In the connection: three kinds of task interleave at every await;
timers give up on answers that still come; a payload is acknowledged before it
is known whether there is room for it. Over the adb server nothing has a timer,
and back pressure goes from a full channel through two sockets to the service.
Connecting, a pipe holds what an earlier process left, and the device is chosen
twice from different lists. In the host: a blocking send inside an
async task, three threads that end in a fixed order, and a frame skip decided
after the rest of its chunk was decoded. In the server: many early returns, a
resource replaced in the middle of a loop, and a socket that fills up. Between
the two, four computations with sizes that learn of a rotation one after the
other. The hazards are listed, each at its line, in `PROJECT.json`.

What makes each part correct. *Connection*: a request that returned Ok was
accepted by the device; nobody waits for an answer that has come and gone;
payloads arrive in order and are all read before `Closed`; sockets are closed;
calls return; packets are not cut. *adb server back end*: the same promise to
the owner, and a write that waits only for a service that waits too.
*Connecting and deploying*: the device that was meant; no prompt on a phone
that trusts the key; a server launched only from files that are whole; an end
to `prepare`. *Session*: no delta reaches the decoder
without its reference (as far as the code promises), no `Configure` is lost or
overtaken, closing the window ends the process, commands are served. *Server*:
frames have the size last announced and start with a key frame; codec and
display are released once, and only failures leave any behind; a vanished host
ends the server. *Input*: no finger and no key stays down on the device after
its release, but for the cases the code leaves open; messages are
dispatched once and in order however the stream is cut into reads; a touch
lands where the picture showed it, or nearest to it. *Recording*: every
sample can be decoded and fits the file's header, a saved file is complete, the
session's flag and recorder agree, joining the GIF thread returns. *Startup*:
`prepare` comes to a result; a host that gets
its stream is served or sees it closed, although the server accepts once and an
earlier run's server may still be there; the borrowed setting is put back.

## Modules

### ByteStream — `Transport` of `transport/src/lib.rs`

The abstract specification of a stream, whichever back end carries it: requests
(the open and every write) are accepted once and in order; `Ok` to the open
means accepted, and `Ok` to a write means accepted if `Confirmed`; payloads are
read in order, each once, singly or (`Chunked`) several to a read; `Closed` is
told when nothing is left to read. Payloads may get lost, but only visibly. It
has nothing but the history variables of the two back ends, and both implement
it with their variables of the same names: `AdbClient` with `Confirmed = TRUE,
Chunked = FALSE`, `AdbServer` the other way round. What may be lost is said by
the back ends: `AdbClient` puts into `lost` what a full channel refuses,
`AdbServer` only what a broken connection held.

### AdbClient — `transport/src/adb/client.rs`

State: `streams`, `waiters` and `next_local` are the fields of `Shared`;
`remotes`, `tx` and `rx` are the `remote_id`, `tx` and `rx` of the
`StreamSlot`s; `ack` is what the oneshot of the call in progress holds;
`phase[l]` and `left[l]` say where the owner of stream `l` is in its call;
`reader` is the reader task. `toDevice` carries *transfers* (a header, or the
payload that follows it), because `write_packet` takes the link's lock once for
each; `toHost` carries whole packets, because only one task reads.

An async call is cut at its awaits. `OpenStream` / `Write` / `CloseStream` do
what the call does up to its first transfer, `SendHeader` and `SendPayload` are
the two `write_all`s, `SendFails` their `?`, and `OpenOk`, `OpenRefused`,
`OpenTimeout`, `WriteAcked`, `WriteClosed`, `WriteTimeout`, `CloseReturns` the
ways to wake up. A timer may fire whenever the answer is not there yet.
`ReadOkay`, `ReadWrte`, `SendOkay`, `Deliver`, `ReadClse`, `ReaderEnds` are
`reader_loop`. Two `tokio` mutexes guard the maps; lookups that no other task
can tell apart are one action.

adbd is external: it reads transfers in order, accepts or refuses an OPEN,
answers each accepted request once, sends a payload only after the last one was
acknowledged, may close a stream at any time, and drops a connection whose
framing is broken. The link may fail at any time. A transfer that fails means
the link is down. The history variables (`got`, `requests`, `acked`, `sent`,
`taken`, `lost`, `eof`, `gaveUp`) record what the properties compare.

As in `native/src/main.rs`, a stream has one owner, which makes one call at a
time (`select!` drops a pending read before it writes, and `recv` loses nothing
then).

### AdbServer — `transport/src/adb/server.rs`

Every stream has a socket of its own to the adb server (`up`, `down`, `conn`),
a pump task (`pump`, with the chunk it has read in `hand`) and a channel
(`chan`). `OpenStream`, `TransportOkay`, `ServiceOkay`, `OpenFails` are
`open_stream` cut at its two answers; `Write`, `WritePiece`, `WriteFails` are
`write`, whose `write_all` puts pieces into the socket as it has room; `Read`,
`ReadClosed`, `CloseStream` (which aborts the pump), `DropServer` are the rest.
`PumpReads`, `PumpSends`, `PumpEnds` are `pump`. A read of the socket may be cut
anywhere between payloads. External: the adb server (`AdbAnswers`), the service
behind it, which like the mirror server does not read while it writes
(`ServiceBegins`, `ServiceSends`, `ServiceReads`, `ServiceEnds`), and `Break`.

### Connect — `connect` of `native/src/main.rs`, `connect_usb`, `handshake`

`usb` and `listed` are what the bus and the adb server show at the moment each
is looked at; they need not agree. `OpenUsb` is `open_usb` with its three ways
out (an io, an error that makes `connect_usb` ask the adb server, another
error), `AskServer` is `AdbServer::connect` with `pick_serial`. `at` is the
point of `handshake` the host is at, `clock` its one deadline. A leftover packet
is marked `old`; adbd's side (tokens, trust, the prompt) is external.

### Deploy — `deploy`, `push`, `shell`

Extends Connect with what `prepare` does next: five steps, each a stream with
`Open`, `Opened`, `OpenFails` and then, for a push, `WriteRequest`, `WriteFails`,
`ReadStatus`, `Quit`, for a command `Drain`, `ShellReturns`. The stream below is
taken as ByteStream gives it: requests arrive in order, Ok to a write is not
more than "on its way". External: commands, and the sync service, which may
fail at any request and then skips to DONE, and which leaves a torn file.

### View, MCView — `render.rs`, `client/src/lib.rs`, `control.rs`, `inject_sdk.rs`

The arithmetic of `quad`, `map_to_device`, `fit_max_size` and `to_display`, in
exact fractions in place of f32, around a display that rotates: `captured` is
the size of the running capture, `client` the one `Client` has from the last
`Configure`, `shown` that of the picture in the window, `opened` that of the
injector, which never changes. A touch carries the window as it was when it was
made (`SendTouch`), is mapped with the frame size the client has by then
(`ClientTouch`) and injected into the display as it is at last (`InjectTouch`).
The cursor may be anywhere: only a press over the toolbar is no touch, while a
drag and its end are sent from there, from the bars and from beyond the edge of
the window, and `MapToDevice` clamps them into the picture as `map_to_device`
does. `PictureAt` is the inverse of what `quad` draws: the reference that says
what is under the cursor, and `Nearest` the place of the picture closest to it.
The display sizes of the run are 27x40 and 32x42, whose scaled and evened sides
are not quite in proportion, and none is raised to 2 (`InProportion`). The
tolerance after a rotation (`Tolerance`) is 5 pixels of the frame there, whose
short side has between 20 and 32.

### HostSession — `native/src/main.rs`, with parts of `client/src/lib.rs` and `decode.rs`

`main` is the winit thread and then the end of `main()`; `session` is the tokio
task, with `events` the rest of the `on_bytes` result it is handling; `decoder`
is the decode thread, `nals` and `frames` are the two channels, `skip` is
`skip_until_key`, `wait_idr` the decoder's. `Enqueue` and `SendReturns` are
`enqueue`, the latter when it blocks in `tx.send`; `Lost` is its `false`, with
`request_keyframe_skip`. `ReadChunk` decodes a whole chunk at once
(`on_bytes`), which is what makes the skip late. `SessionWaited` and
`DropRuntime` are the end of `main`: 3 s for the session, then the `App` (and
its `frame_rx`) is dropped, then the runtime, which waits until the task
reaches an await. Nothing is counted: a frame carries the version of its
configuration modulo 2 and whether its reference was dropped.

### MirrorServer — `server/src/android/run.rs`, `capture.rs`, `net.rs`, `control.rs`, `power.rs`

`at` is the point of `serve` / `serve_session` the one thread is at; `capture`
is the `Capture`; `codecs` and `displays` count the MediaCodecs and virtual
displays that exist, `failed` the starts that failed; `seen` is
the display size the loop last saw. One action per step of the code: setup
(`Acquire`, `Start`, `Bind`, `Accept`, `HandshakeCsd`, `SendHandshake`), one turn
of the loop (`TakeControl` / `PollTimesOut` / `ClientClosed`, `ApplyParams`,
`NoVideo` / `SendVideo`, `DisplaySame` / `DisplayChanged`, `ConfigureCsd`,
`SendConfigure`), the end (`Release`, `Restore`). `?` is the disjunct that goes
to `restore`. A start may fail at any of its JNI calls (`StartFails`): before the
codec is there, with the codec, or with codec and display; what it has made by
then belongs to no `Capture` and stays until the process ends, at a rotation
(`Restart`) as at the beginning. `Acquire` and `Restore` may fail as well. The
calls of `Capture::release` are taken to work. Environment: `Rotate`, `HostConnects`, `HostSends`, `HostReads`
(the socket has room again), `HostLeaves`. Assumed of MediaCodec: it reports the
parameter sets, then a key frame, and after that any frames; and a frame fits in
a message (the 8 MiB cap of `proto`).

### Control — window input, client, wire, `control.rs` and the injectors

The way of an input event: `cursor`, `buttons` and `mods` are the fields of
`App`, `held` is what the user really holds, `visible` whether the window has a
width (a minimised one may have none, and a touch then maps to nothing);
`cmds` is the command channel;
`stream` the bytes in the socket, one *cell* for a frame's length and one or two
for its body; `buf` is `ControlDemux.buf`; `touching` and `pressed` are what the
device sees. Two history variables name what the code leaves down: `lost_up`, the
last Up the session took was dropped for want of a width, and `stays`, the keys
nothing is sent to release, Recents after Ctrl-S and a modifier that changed
while a key was held, until a key is released with it. The actions of `User` are the arms of `window_event`
(`MousePressed` with `toolbar_click`, `KeyPressed` with `capture_shortcut` and
`on_key`), `Write` is the session's command arm with `encode_cmd`,
`ServerReads` one `read_some` of any length, with which `ControlDemux.push` is
entered. A turn of its loop is `DispatchFrame`: `try_decode_frame` has a message
(`Complete`), its bytes are drained and `Apply`, which is `apply_message` on the
injector the server chose, changes what the device sees; `PushEnds` is the
return, with the rest of a frame kept for the next read, or, after an error
(`Malformed`), with nothing kept. The three injectors differ: UInput turns a move
into a press and presses modifiers itself; SdkInject and ShellInput pass a touch
on if it presses or moves a finger that is down (`PassedOn`); SdkInject passes
the other messages on as they are, ShellInput types keys when they go down.
Coordinates, Alt,
Super, several fingers and the clipboard are left out, and calls to JNI and to
the kernel succeed.

### Startup — `prepare`, `open_retry`, the socket, `serve`, `StayAwake`

Run `r` of the host launches server process `r`; `<<r, a>>` is its `a`-th
open. `Open` ... `OpenTimeout` are `open_retry` over either back end: only
`AdbClient` has a timer (10 s, client.rs:100), and it sends no CLSE when it
fires. adbd connects to the abstract socket if a process has bound it and its
backlog of one has room. A server process goes through `StayAwake::acquire`
(`SettingsGet`, `SettingsPut`), `bind`, a single `accept`, the handshake, the
session, and `release`; any step that can fail goes to `restore`. Processes of
different runs overlap, since `HostExits` may come at any time and a server
notices only afterwards. `Killed` ends a process without `release`. What goes on
inside a session is MirrorServer's subject, what becomes of an open that of
AdbClient.

### Recording — `native/src/main.rs` (toggles, session), `native/src/capture.rs`

`mp4`, `pending`, `samples` and `header` are the `Mp4Rec` with its `wait_idr` and
the file it writes; `on` and `window_on` are the flags `mp4_on` of session and
window; `gif_tx`, `worker` and `pictures` are the `GifRec`, its thread and its
channel. `Configure` and `Configured` are the two halves of `Out::Configure`
(finish on a change, open again), `Frame` is `Out::Frame` with `Mp4Rec::push`
(`Takes`, `Push`) and the skip that `enqueue` may ask for, `FrameSkipped` what
`Client` then leaves out. A sample carries what the properties compare: its kind,
its size, and whether a frame since its key frame is missing (`missing`). Opening,
writing and finishing may fail at any time. `StopGif` and `Joined` are
`stop_gif`, before and after the join. HostSession has the threads and channels
of the session itself; here the decode queue is a choice (it has room or not),
and Size messages, which take room in the channel to the window as pictures do,
are left out.

### Proof modules

`AdbClientProofs`, `AdbServerProofs`, `DeployProofs` (which includes Connect),
`StartupProofs`, `HostSessionProofs`, `MirrorServerProofs`,
`RecordingProofs`: the theorems about the modules they are named after.
`InputProofs`: those about Control (which input arrives) and View (where a touch
lands), which it extends both; this is why View's specification is called
`ViewSpec` and its type invariant `ViewTypes`. See *Proofs*.

## Runs

| Run | Bounds | Result |
|---|---|---|
| `stream` (AdbClientStream) | 1 stream, 4 requests, writes of up to 2 chunks, 4 payloads, channel of 2, link of 2 | `TypeOK`, `KeepsPromise` (implements ByteStream), `CallsReturn`, `CloseReachesOwner` hold |
| `shared` (AdbClientShared) | 2 streams, 2 requests each, 1 payload each, channel and link of 1 | `IdleMeansSettled`, `NoAnswerMissed`, `NoOrphanSocket` hold |
| `framing` (AdbClientFraming) | 1 stream | `WholePackets` is violated |
| `adb_server` (AdbServer) | 1 stream, 4 requests of up to 2 pieces, 6 payloads, channel and sockets of 2 | `TypeOK`, `KeepsPromise` (implements ByteStream), `EndReachesOwner`, `WaitsOnlyWhenFull` hold |
| `deploy` (Deploy) | 2 phones, 1 emulator, 2 leftover packets, 2 packets on their way, files of up to 2 chunks | `TypeOK`, `RightDevice`, `NoNeedlessPrompt`, `LaunchHasFiles`, `PrepareEnds` hold |
| `startup` (Startup) | 2 runs of the host, 2 opens each | `TypeOK`, `SettingRestored`, `LiveMirrorIsServed`, `PrepareEnds`, `NoSilentMirror` hold |
| `session` (HostSession) | channels of 2 and 1, chunks of up to 3 messages, 1 waiting command | `TypeOK`, `GapEndsWithChunk`, `FrameMeetsItsConfigure`, `ProcessExits`, `InputServed` hold |
| `server` (MirrorServer) | 2 display sizes, 1 rate, 2 control messages waiting, 2 starts that fail | `TypeOK`, `FramesAreAnnounced`, `OnlyFailuresLeave`, `DisconnectEnds` hold |
| `requests` (MirrorServerRequests) | 2 display sizes, 2 rates, 2 control messages waiting, 1 start that fails | `RequestsHold` is violated |
| `control` (Control) | 2 keys, 5 things the user does, socket of 2 cells, each injector, with and without `--no-control` | `TypeOK`, `NothingStuck`, `InputInOrder` hold |
| `view` (MCView) | 2 displays and their rotations, 2 windows with every point in and next to them, frames as they are and limited to 30, 2 messages on their way | `ViewTypes`, `LandsWhereShown` hold |
| `recording` (Recording) | 2 picture sizes, both codecs, 3 frames per file, channels of 2 and 1, 1 waiting command | `TypeOK`, `SamplesPlay`, `SavedComplete`, `SessionRecords`, `JoinReturns` hold |

Why the bounds are enough. A channel behaves differently when it is empty, has
room, or is full, and the order of its items matters from two on; depth 2 (or 1
where only fullness matters) has all of these. A late answer needs two requests
of one stream, a chunked write in the middle of it a third, a fourth gives the
answer to the third the chance to be late as well. Interference between
streams is pairwise, since streams share only the link, the reader and the
maps. Over the adb server streams share nothing but `Drop`, so one is enough
there; that any number behave so is proved. Six payloads fill a channel and a
socket of two, a chunk in the pump's hand and one on the service's side. In
Deploy two phones make a choice ambiguous, an emulator next to them tells
hardware from the rest, and two leftover packets can be a token and a CNXN.
HostSession and MirrorServer have no counters apart from their channels and the
starts that failed, so their runs go on for ever: rotations, chunks and commands
are not bounded. Two starts that fail are one at the beginning, or two at
rotations, the second with a Capture already released; any number is proved.
The depths 128 and 8 of the code are CONSTANTS of the modules. In Control a press, two changes of the cursor, the window or the modifiers, a
release and one event more make every pairing of a press with its release; "s"
has a shortcut with and one without Shift and is text otherwise, "enter" is
always a key; two cells of socket let a write begin before an earlier frame was
read to its end. In Startup two runs
are enough for a server of an earlier run to hold the socket, to be accepted
from, or to have changed the setting, and two opens for a retry. In Recording
three frames are a key frame, one whose predecessor may be missing and one that
waits for its duration; the number of files, rotations and skips is not bounded.

`CHECK_DEADLOCK FALSE` in every configuration: each of these systems may stop
(the owners have closed their streams and the bounds are used up, the process
has exited, the server is over), and that something waits for ever when it
should not is a liveness property instead.

### Fairness

- AdbClient: weak fairness of every step of a call that has begun (the runtime
  polls woken tasks, timers fire), of the reader task, and of adbd reading the
  link, on which the host relies since no transfer has a timeout. None for
  beginning a call, for adbd's answers, payloads and closes, or for failures.
- AdbServer: weak fairness of write pieces, of the owner's reads (an owner
  between calls is in its read loop, as `drain` and `session` are), of the pump,
  and of the service finishing a write it has begun; strong fairness of the
  service's reads, to which it comes back between its writes as `serve_session`
  does. None for the adb server's answers, for what the service sends, or for
  failures.
- Deploy: weak fairness of the host's steps, of its timers, and of adbd reading
  the link, on direct connections also of opens and writes, which have timers
  there. None for the user, the sync service, the commands or the adb server.
- HostSession: weak fairness of the three threads; winit redraws continually
  because `about_to_wait` requests the next redraw, awaited stream calls return
  (`CallsReturn`), and the 3 s timer fires. None for the user or the device.
- MirrorServer: weak fairness of the server's thread. None for the host.
- Recording: weak fairness of the GIF thread and of the return of a join whose
  thread has ended. None for the window, the session or the device.
- Startup: weak fairness of `open_retry` (its timer included), of reading the
  handshake, of adbd, and of each server process. None for starting or ending a
  host, nor for `Killed`. On the adb server back end the host has no timer, so
  `PrepareEnds` rests on adbd's answer: a backlog that stays full for ever does
  not occur, because every listener is accepted from or closed.

## What the violated properties show

- `framing`. `write_packet` takes the write lock once for the header and once
  for the payload, so the reader's OKAY, or another owner's packet, can come
  between the two; adbd then finds a header where a payload is due and drops
  the connection. The comment at client.rs:347 says what adbd expects.
- `requests`. A rotation starts a new `Capture` with `paused = false` and the
  command line's bitrate and fps.

Seen while reading, not the subject of a run: `request_keyframe_skip` concerns
the next `on_bytes`, so that deltas of the same chunk that follow a dropped frame
still reach the decoder, against client/src/lib.rs:139 (`GapEndsWithChunk` shows
that the damage ends with the chunk); every `?` between `Capture::start` and the
loop leaves without `capture.release`, so that a host that disconnects before the
handshake is written leaves codec and display to the end of the process, against
README.md:122 (MirrorServer has it, and `OnlyFailuresLeave` says that it takes a
session that never wrote its handshake to leave a started Capture); a start that fails after
`createEncoderByType` leaves its codec, and perhaps its display, at a rotation as
well (the same property bounds them); with `--no-control`, view-only by
README.md:261, the window sends a Key Up for every release (main.rs:325) and the
toolbar its navigation keys (main.rs:293), which Control has; README.md:154 and
:202 say that a point in the black bars is dropped, while `map_to_device` clamps
it to the edge (`LandsWhereShown` says that it lands there); README.md:128 and :160 give the
decode channel depth 2 and say the ADB read is never blocked, while the code
uses depth 8 and blocks for key frames and configurations; `read` has no timer
and the reader task leaves the senders in place when it ends on an error; a
timed-out OPEN sends no CLSE, and the server accepts only once, so that a late
answer to an open the host has given up uses up the accept and the retry waits
in a backlog for as long as the process of the host lives (`NoSilentMirror` is
about hosts none of whose opens timed out); a server process that is killed
leaves `stay_on_while_plugged_in` changed (`SettingRestored` is about the others);
UInput lifts at a release the
modifiers held then, not those its press put down, and Ctrl-H and Ctrl-S send
Home and Recents without a release (Control has Ctrl-S; `NothingStuck` says that
just these may stay down); a touch's Up is dropped like any other touch while the
window has no width, so that the finger stays down until the next Up; the
injector keeps the sizes it was opened with when the display rotates (run.rs:78),
so that an axis is scaled by the other's factor (`LandsWhereShown` bounds the difference); UInput, the
fallback, writes frame pixels on axes that span max(width, height, 4096)
(uinput.rs:33, README.md:120), so that Android, if it scales an axis to the
display, puts every touch too far to the left and the top; a packet of an
earlier process's stream in the USB pipe ends the handshake, although the
connection would work (client.rs:282); the window clears its own
`mp4_on` on every status that begins with `mp4:`, also on one about the file that
a rotation ended, so that it may show no recording while the session records,
and its next click starts instead of stopping; a failed read leaves the session
by `?` and the MP4 file without its trailer (main.rs:771).

## Proofs

`AdbClientProofs` proves, for every number of streams, requests, chunks and
payloads and every depth, from `BoundsAssumption` and `DepthAssumption` alone:

- `TypeCorrect`: `Spec => []TypeOK`.
- `OkIsAccepted`: `Spec => []OkMeansAccepted`.
- `IdleIsSettled`: `Spec => []IdleMeansSettled`.

Neither of the last two is inductive: that an answer in the link belongs to the
current request depends on there being at most one request of the stream under
way and at most one answer to it. `AnswerInv` says so, stage by stage. Of a
stream's latest request either nothing is under way (`Settled`), or it is issued
and not yet written (`Prepared`), or it is in the link, once, and not accepted
(`Asked`), or adbd has accepted it and its only answer is owed, in the link, or
held by the call (`Granted`); `phase` says which may be the case. After a
failure or a timeout a stream promises nothing but `acked <= got`: what keeps
a late answer from being taken for a new one is that the owner then makes no
call but `close_stream`, whose result does not depend on the answer. `Frame`
carries the invariant over steps that are about something else; `WritesToDevice`,
`DeviceReads`, `DevicePosts` and `HostReads` say what a queue operation does to
"none under way" and "at most one under way"; `CallerOwn`, `CallerOthers`,
`ReaderKeeps` and `DeviceKeeps` have one case per action; `AnswersMatch`
combines them.

On this rests a second layer, about what `AnswerInv` leaves open: who still has
to answer, and where the payloads are.

- `NoAnswerIsMissed`: `Spec => []NoAnswerMissed`.
- `NoSocketIsOrphaned`: `Spec => []NoOrphanSocket`.
- `ImplementsStream`: `Spec => KeepsPromise`, that is, every stream of AdbClient
  implements ByteStream.

Its invariant (`LinkInv`) has four parts for each stream. `RequestInv`: the
request in the link is one adbd has not counted, and the OPEN is the first of
them, so that a socket is opened once, and writes follow an open that was granted.
`EndInv`: whatever tells the host of a CLSE comes after the end of the socket,
and a stream its owner has closed leaves no socket behind unless its own CLSE is
on its way or the open was given up; this is `NoOrphanSocket` before the queues
are empty. `WaitInv`: a call that waits has its waiter in the map, and, while the
link is up, its request or an answer is under way or adbd has closed the
socket; this is what the lock around "register, then write" is for, and
`NoAnswerMissed` is the case of it in which nothing is under way any more.
`DataInv`: as long as the host has the stream, the payloads in adbd's packets, in
the reader's hand and in the channel are, in this order and rising, those sent
that are neither taken nor lost; what a dying reader held is later than all that
can still be read. One lemma for each action shows that it keeps the four parts
of the stream it is about, and `Aside` carries them over the steps of another
stream, with which it shares only the reader, the maps and the link. ByteStream's
variables are those of the same names here, `Streams` is `Local`;
`CallerRefines`, `ReaderRefines` and `DeviceRefines` show each action to be a
step of it or a stutter.

TLC checked `AnswerInv` and `LinkInv` on the instances of `stream` and `shared`
before they were proved.

`AdbServerProofs` proves, for every number of streams, requests, pieces and
payloads and every depth, from `BoundsAssumption` and `DepthAssumption` alone:

- `TypeCorrect`: `Spec => []TypeOK`, the depths of channel and sockets included.
- `ImplementsStream`: `Spec => KeepsPromise`, that is, AdbServer implements
  ByteStream.

The invariant (`ServerInv`) has four parts for each stream. `OpenInv` says what
an open has in the socket at each of its stages: at most one of its two
requests and at most one answer, so that a status is never taken for another's,
and that before the service is attached nothing has been sent or accepted.
`LineInv` says that the requests in `up` are, in order, those the device has not
accepted, which makes it accept them once and in order. `DataInv` says that
the payloads in the channel, in the pump's hand and in the socket are, in this
order and rising, exactly those sent that are neither taken nor lost, as long as
the stream is open; from it follow the order of reads and that `Closed` comes
last. `DepthInv` bounds channel and sockets. One lemma for each action shows that
it keeps the parts it can disturb (`Quiet` carries them over the others); then
each action is a step of ByteStream or a stutter: `OpenStream` and `Write` are
`Request`, `ServiceOkay` and the last `WritePiece` are `ReturnOk`, `Read` is
`Take`, `ReadClosed` is `TellClosed`, `AdbAnswers` and `ServiceReads` are
`Accept`, `ServiceSends` is `Send`, `Break` is `Lose`. TLC checked the
invariant on the instance of `adb_server` before it was proved.

`DeployProofs` proves, for all finite sets of phones and emulators, every number
of leftover packets, every depth and every size of the files, from
`ConnectAssumption` and `DeployAssumption`:

- `TypeCorrect`: `Spec => []TypeOK`.
- `DeviceIsRight`: `Spec => []RightDevice`.
- `PromptIsNeeded`: `Spec => []NoNeedlessPrompt`.
- `LaunchFindsFiles`: `Spec => []LaunchHasFiles`.

`TargetInv` keeps with the target the list it was chosen from; that the adb
server's only hardware device is the one phone on USB is then a fact about sets
(`PhonePicked`). `PromptInv` says, for a phone that trusts the key and as long
as no leftover token was taken, what may be on its way: the CNXN, or the one
token adbd waits for, or the signature of just that token; leftovers in front of
it change nothing. `SyncInv` is about a push whose writes return before the phone
has seen them: the requests in the stream and those not yet written are one
queue (`Queue`) with SEND first and DONE last, and an OKAY, on its way or read,
means that the queue is empty and the file is good. `DoneInv` carries that over
the steps that follow.

`StartupProofs` proves, for every number of runs and of opens, from
`BoundsAssumption` alone:

- `TypeCorrect`: `Spec => []TypeOK`.
- `SettingIsRestored`: `Spec => []SettingRestored`.
- `MirrorIsServed`: `Spec => []LiveMirrorIsServed`.
- `StartupCorrect`: the invariant `StartupInv` they follow from.

`SettingRestored` speaks of the moment when all processes are over, so the
invariant says for every moment who will put the setting back: if it is not as
it was, a process that has changed it has still to pass `restore` (`Borrowed`);
and if it was on from the start, no process changes it. That a greeted host
keeps its server rests on `OneListener` (the processes between `bind` and the
end of their session are exactly the one that has bound), on `Greeted` (the
handshake comes after `prepare`), and on leaving `serve_session` closing what
the server holds (`ClosedGrows`). `HostKeeps`, `LaunchKeeps` and `ServerKeeps`
have one case per action.

`HostSessionProofs` proves, for all depths of the channels, all lengths of a
chunk and every number of commands, from `DepthAssumption` and
`BoundsAssumption`:

- `TypeCorrect`: `Spec => []TypeOK`.
- `GapsEnd`: `Spec => []GapEndsWithChunk`.
- `FrameMeetsConfigure`: `Spec => []FrameMeetsItsConfigure`.

`GapInv` says where a gap is being repaired: a gap of the current chunk has asked
for `skip_until_key`, and one of an earlier chunk still has it, or the key frame
is among the events that are left and no delta is before it; `KeptBegins` shows
that `apply_message` makes it so. `ChainInv` follows the versions from the
decoder through the queue to the session: each frame has the version of the job
before it, so that a Configure lost on the way would break the chain.

`MirrorServerProofs` proves, for all sizes and rates and every number of waiting
messages, and of starts that fail, from `RatesAssumption` and `BoundsAssumption`:

- `TypeCorrect`: `Spec => []TypeOK`.
- `Announced`: `Spec => []FramesAreAnnounced`.
- `CapturesReleased`: `Spec => []OnlyFailuresLeave`.

`HeldInv` ties codecs and displays to the one `Capture` at each point of
`serve_session`: there are never more than it has and the starts that failed
have left, and none of its own once it is released;
`StreamInv` says that between the turns of the loop the announcement is that of
the running encoder, and that an encoder past its parameter sets has sent the key
frame.

`InputProofs` proves about Control, for every set of keys, every number of things
the user does and every size of the socket, from `KeysAssumption` and `BoundsAssumption`:

- `TypeCorrect`: `Spec => []TypeOK`.
- `NothingStaysDown`: `Spec => []NothingStuck`.
- `DispatchedInOrder`: `Spec => InputInOrder`.
- `ControlHolds`: the invariant `ControlInv` they follow from.

`NothingStuck` speaks of the moment when everything has arrived; the invariant
says for every moment what is still to arrive. With `pending \o cmds`, the
messages on their way, `Paired` says of a press that every one among them, and the
one the device sees, is followed by a message that lifts it, unless it is still
held. `TouchInv` says it of the finger, unless the last Up was dropped (`lost_up`);
`KeysInv` says it of every key the device can see down, keyboard's, modifier,
Back or Recents, that nothing holds and that is not in `stays` (`Loose`). That a release may be left out on the way (a view-only
window, a session that does not know the size yet, a button the window takes for
released) breaks neither, since the press it belongs to was left out as well:
`OriginInv`. `FrameInv` is the state part of
`InputInOrder`: the cells in the buffer and in the socket are the frames of the
messages not yet dispatched. `FramesAppend` and `FramesDrop` show what a write
and a dispatch do to it; a read moves cells from one side of `buf \o stream` to
the other. From it follows that the buffer is never `Malformed`, and that the
frame taken from it is that of the oldest message (`DispatchOldest`).

And about View, for all sizes of displays, windows and frames and every toolbar,
from `ViewAssumption`:

- `ViewTyped`: `ViewSpec => []ViewTypes`.
- `TouchesLand`: `ViewSpec => []LandsWhereShown`.
- `FramesFit`: `fit_max_size` returns even sides, none shorter than 2 and, if
  `--max-size` is at least 2, none longer than it. (For 1 it is: `control.rs:98`
  does not say so.)

The invariant (`ViewInv`) is short: the display is as at the start or rotated
(`DisplayInv`), and a touch carries the pixel computed for it (`PathInv`). The
work is in the arithmetic, all of it in integers. `RoundNear`, `EvenNear` and
`WithinBounds` say what the conversions do to a number; `MappedNear`, that the pixel
of `map_to_device` is within one of the place of the picture nearest to the
point, because renderer and client compute the same fraction and the client
clamps it as `Nearest` does. `FitScales` says that
`fit_max_size` scales both sides by one fraction but for one and a half pixel,
`Skewed` what remains of that when each axis is scaled by the other's factor,
and `Displaced` adds the two errors.

`LandsWhereShown` needs `InProportion` for a rotated display, and a display shows
why: a side that `fit_max_size` raises to 2 may be far longer, measured by the
other, than in the display. With `--max-size 10` and a display of 1000 by 1,
rotated, the frames are 2 by 10, and a touch on the second column goes 100 pixels
to the right of a display that is one pixel wide.

`RecordingProofs` proves, for all picture sizes, depths and lengths of a
recording, from `SizesAssumption`, `DepthAssumption` and `BoundsAssumption`:

- `TypeCorrect`: `Spec => []TypeOK`.
- `SamplesCanPlay`: `Spec => []SamplesPlay`.
- `SavedIsComplete`: `Spec => []SavedComplete`.
- `FlagMeansFile`: `Spec => []SessionRecords`.

`SamplesInv` extends the property to the sample that still waits for its
duration. `FileInv` counts: while writes work, the samples and the pending one
are the frames given to the file; the header has the current size; and a frame
is missing only while the next one taken must be a key frame. `FlagInv` covers
the state between the two halves of a `Configure`.

TLC checked each of these invariants on the instance of its module's run before
it was proved.

Only model-checked: all liveness, which this prover does not do. Every
invariant and every action property of the passing runs is a theorem, and so are
the two refinements.

## Not modelled

- The video direction of the wire: `Client.on_bytes` appears in HostSession as
  the messages of a chunk. Reassembly is the same code (`try_decode_frame`) as
  in the control direction, which Control has; the handshake's encoding and the
  fields of messages are conversions of bytes without state.
- JNI calls that fail in a running `Capture`: the code ignores their results.
- Several fingers, pressure, Alt and Super, the clipboard: they take the same way
  as what Control has, and the desktop host sends one finger.
- UInput's coordinates: Android scales an axis to the display in a way the code
  does not show. SdkInject, which the server prefers, scales itself, and is what
  View has.
- File names, `--record` and `--dump-nals`: plain output.
- RSA, base64 and key files, Annex-B conversion, GIF and MP4 encoding, decoding,
  GPU calls and the drawing of the toolbar: computation without protocol state.
- The web bindings, which forward to `Client`, and USB detail below whole
  transfers (endpoints, 16 KiB pieces, zero-length packets).
