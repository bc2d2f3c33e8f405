----------------------------- MODULE MirrorServer -----------------------------
(***************************************************************************)
(* The server the host pushes to the device: serve and serve_session of    *)
(* crates/server/src/android/run.rs, with the Capture of capture.rs, the   *)
(* socket calls of net.rs and the encoder control of control.rs. One       *)
(* thread; around it, as environment: the display that rotates, the        *)
(* encoder, and the host that connects, sends control messages, stops      *)
(* reading and disconnects.                                                *)
(*                                                                         *)
(* A display size stands for width, height and rotation together, and for  *)
(* what fit_max_size makes of them. MediaCodec (external) reports the      *)
(* parameter sets, then a key frame, then any frames, as capture.rs uses   *)
(* it. JNI failures after the start of a Capture are ignored by the code   *)
(* and left out. A start that fails returns by `?` with what it has        *)
(* created; nothing but the end of the process gives that back.            *)
(***************************************************************************)
EXTENDS Naturals, Sequences

CONSTANTS
  Sizes,      \* sizes the display can have
  Rates,      \* bitrate and fps pairs a SetEncoding can ask for
  ArgRate,    \* the pair of the command line
  MaxControl, \* bound: control messages waiting in the socket
  MaxFailed   \* bound: starts of a Capture that fail

ASSUME SizesAssumption == Sizes # {}
ASSUME RatesAssumption == ArgRate \in Rates
ASSUME BoundsAssumption == MaxControl \in Nat \ {0} /\ MaxFailed \in Nat

Control == {"pause", "resume", "input"} \cup Rates

\* A Capture: the encoder and the virtual display behind it. stage is how far the encoder's
\* output got; rate is the object's bitrate and max_fps, applied what the codec runs at.
Captures == [live: BOOLEAN, size: Sizes, stage: {"new", "csd", "running"}, csd: BOOLEAN,
             paused: BOOLEAN, rate: Rates, applied: Rates, dirty: BOOLEAN]

VARIABLES
  at,        \* where the server's thread is
  display,   \* the display's size now
  seen,      \* seen_w, seen_h and rotation
  capture,   \* the Capture
  codecs,    \* MediaCodecs created and not released
  displays,  \* virtual displays created and not destroyed
  failed,    \* history: starts of a Capture that failed
  awake,     \* StayAwake is in force
  kept,      \* history: StayAwake could not be taken back
  host,      \* the host's end of the socket
  room,      \* the socket takes more bytes
  control,   \* control messages sent by the host and not yet read
  announced, \* history: size of the last handshake or Configure written
  last,      \* history: the last message written
  keyed,     \* history: a key frame was written after it
  wanted,    \* history: whether the last Pause the server read was on
  asked      \* history: the rate last asked for

held    == <<codecs, displays, failed>>
power   == <<awake, kept>>
socket  == <<host, room, control>>
written == <<announced, last, keyed>>
requested == <<wanted, asked>>
vars == <<at, display, seen, capture, held, power, socket, written, requested>>

Setup   == {"acquire", "start", "bind", "accept", "csd", "handshake"}
Serving == {"poll", "params", "video", "display", "csd_again", "configure"}
Ending  == {"release", "restore", "over"}

NewCapture(size) ==
  [live |-> TRUE, size |-> size, stage |-> "new", csd |-> FALSE, paused |-> FALSE,
   rate |-> ArgRate, applied |-> ArgRate, dirty |-> FALSE]

Init ==
  /\ at = "acquire"
  /\ display \in Sizes /\ seen = display
  /\ capture = [NewCapture(display) EXCEPT !.live = FALSE]
  /\ codecs = 0 /\ displays = 0 /\ failed = 0
  /\ awake = FALSE /\ kept = FALSE
  /\ host = "absent" /\ room = TRUE /\ control = <<>>
  /\ announced = display /\ last = "none" /\ keyed = FALSE
  /\ wanted = FALSE /\ asked = ArgRate

------------------------------------------------------------------------------
(* serve: StayAwake around the session. *)

\* Wake lock and setting may both be refused.
Acquire ==
  /\ at = "acquire"
  /\ awake' \in BOOLEAN
  /\ seen' = display
  /\ at' = "start"
  /\ UNCHANGED <<display, capture, held, kept, socket, written, requested>>

\* A failure is logged and leaves things as they are.
Restore ==
  /\ at = "restore"
  /\ \/ awake' = FALSE /\ UNCHANGED kept
     \/ awake /\ kept' = TRUE /\ UNCHANGED awake
  /\ at' = "over"
  /\ UNCHANGED <<display, seen, capture, held, socket, written, requested>>

(* serve_session up to its loop. `?` returns from it at once. *)

\* Capture::start, where c codecs and d displays are there already.
Started(size, c, d) ==
  /\ codecs' = c + 1 /\ displays' = d + 1
  /\ capture' = NewCapture(size)
  /\ UNCHANGED failed

\* It may fail before createEncoderByType returns, before createDisplay does, or after both.
StartFails(c, d) ==
  /\ failed < MaxFailed /\ failed' = failed + 1
  /\ \/ codecs' = c /\ displays' = d
     \/ codecs' = c + 1 /\ displays' \in {d, d + 1}

Start ==
  /\ at = "start"
  /\ \/ Started(seen, codecs, displays) /\ at' = "bind"
     \/ StartFails(codecs, displays) /\ at' = "restore" /\ UNCHANGED capture
  /\ UNCHANGED <<display, seen, power, socket, written, requested>>

Bind ==
  /\ at = "bind"
  /\ at' \in {"accept", "restore"}
  /\ UNCHANGED <<display, seen, capture, held, power, socket, written, requested>>

Accept ==
  /\ at = "accept"
  /\ \/ host # "absent" /\ at' = "csd"
     \/ host = "absent" /\ at' = "restore"
  /\ UNCHANGED <<display, seen, capture, held, power, socket, written, requested>>

\* wait_csd: polls until the parameter sets are there, for at most 2 s.
WaitCsd(next) ==
  /\ \/ capture' = [capture EXCEPT !.stage = "csd", !.csd = TRUE]
     \/ UNCHANGED capture
  /\ at' = next

HandshakeCsd ==
  /\ at = "csd"
  /\ WaitCsd("handshake")
  /\ UNCHANGED <<display, seen, held, power, socket, written, requested>>

\* net::write_all: waits for room in the socket; fails once the host is gone.
WriteAll == host = "connected" /\ room /\ room' \in BOOLEAN /\ UNCHANGED <<host, control>>
WriteFails == host = "gone" /\ UNCHANGED <<socket, written>>

Announce(kind) ==
  /\ announced' = capture.size
  /\ last' = kind
  /\ keyed' = FALSE

SendHandshake ==
  /\ at = "handshake"
  /\ \/ WriteAll /\ Announce("handshake") /\ at' = "poll"
     \/ WriteFails /\ at' = "restore"
  /\ UNCHANGED <<display, seen, capture, held, power, requested>>

------------------------------------------------------------------------------
(* The loop of serve_session: one turn is poll, params, video, display. *)

\* EncoderCtrl for Capture.
Applied(c, m) ==
  CASE m = "pause"  -> [c EXCEPT !.paused = TRUE]
    [] m = "resume" -> [c EXCEPT !.paused = FALSE]
    [] m \in Rates  -> [c EXCEPT !.rate = m, !.dirty = TRUE]
    [] OTHER        -> c

\* ControlDemux.push with the next message; a read of several is several of these.
TakeControl ==
  /\ at = "poll"
  /\ control # <<>>
  /\ control' = Tail(control)
  /\ LET m == Head(control) IN
       /\ capture' = Applied(capture, m)
       /\ wanted' = IF m \in {"pause", "resume"} THEN m = "pause" ELSE wanted
       /\ asked' = IF m \in Rates THEN m ELSE asked
  /\ at' = "params" \/ (Tail(control) # <<>> /\ at' = "poll")
  /\ UNCHANGED <<display, seen, held, power, host, room, written>>

\* Nothing to read within 5 ms.
PollTimesOut ==
  /\ at = "poll"
  /\ control = <<>> /\ host = "connected"
  /\ at' = "params"
  /\ UNCHANGED <<display, seen, capture, held, power, socket, written, requested>>

\* Mutant: an empty read is taken for nothing to read yet.
ClientStays ==
  /\ at = "poll"
  /\ control = <<>> /\ host = "gone"
  /\ at' = "params"
  /\ UNCHANGED <<display, seen, capture, held, power, socket, written, requested>>

\* read_some returned 0 or an error.
ClientClosed ==
  /\ at = "poll"
  /\ control = <<>> /\ host = "gone"
  /\ at' = "release"
  /\ UNCHANGED <<display, seen, capture, held, power, socket, written, requested>>

ApplyParams ==
  /\ at = "params"
  /\ capture' = IF capture.dirty
                THEN [capture EXCEPT !.dirty = FALSE,
                                     !.applied = IF capture.live THEN capture.rate ELSE @]
                ELSE capture
  /\ at' = "video"
  /\ UNCHANGED <<display, seen, held, power, socket, written, requested>>

\* Capture.poll has nothing: paused, no output yet, a released codec, or csd only.
NoVideo ==
  /\ at = "video"
  /\ \/ UNCHANGED capture
     \/ /\ capture.live /\ ~capture.paused /\ capture.stage = "new"
        /\ capture' = [capture EXCEPT !.stage = "csd", !.csd = TRUE]
  /\ at' = "display"
  /\ UNCHANGED <<display, seen, held, power, socket, written, requested>>

\* Mutant: a failed write returns from serve_session like those before the loop.
SendVideoOrReturn ==
  /\ at = "video"
  /\ capture.live /\ ~capture.paused /\ capture.stage # "new"
  /\ WriteFails
  /\ at' = "restore"
  /\ UNCHANGED <<display, seen, capture, held, power, requested>>

\* The first picture of an encoder is a key frame.
SendVideo ==
  /\ at = "video"
  /\ capture.live /\ ~capture.paused /\ capture.stage # "new"
  /\ capture' = [capture EXCEPT !.stage = "running"]
  /\ \/ /\ WriteAll
        /\ \/ last' = "key" /\ keyed' = TRUE
           \/ capture.stage = "running" /\ last' = "delta" /\ UNCHANGED keyed
        /\ at' = "display"
        /\ UNCHANGED announced
     \/ WriteFails /\ at' = "release"
  /\ UNCHANGED <<display, seen, held, power, requested>>

\* Less than 500 ms since the last look, or nothing changed.
DisplaySame ==
  /\ at = "display"
  /\ at' = "poll"
  /\ UNCHANGED <<display, seen, capture, held, power, socket, written, requested>>

\* Mutant: the running encoder is kept and only given the new size.
RestartInPlace ==
  /\ at' = "csd_again"
  /\ capture' = [capture EXCEPT !.size = display]
  /\ UNCHANGED held

\* Mutant: every release counts, that of a Capture already released too.
ReleasedAgain(n) == n - 1

\* Of n codecs or displays, those left by release, which gives back those of the Capture once,
\* however often it is called.
Released(n) == IF capture.live THEN n - 1 ELSE n

\* reconfigure: release, then start; a failed start leaves the released Capture in place.
Restart ==
  \/ Started(display, Released(codecs), Released(displays)) /\ at' = "csd_again"
  \/ /\ StartFails(Released(codecs), Released(displays)) /\ at' = "poll"
     /\ capture' = [capture EXCEPT !.live = FALSE]

DisplayChanged ==
  /\ at = "display"
  /\ display # seen
  /\ seen' = display
  /\ Restart
  /\ UNCHANGED <<display, power, socket, written, requested>>

ConfigureCsd ==
  /\ at = "csd_again"
  /\ WaitCsd("configure")
  /\ UNCHANGED <<display, seen, held, power, socket, written, requested>>

\* An error is logged and the loop goes on.
SendConfigure ==
  /\ at = "configure"
  /\ \/ WriteAll /\ Announce("configure")
     \/ WriteFails
  /\ at' = "poll"
  /\ UNCHANGED <<display, seen, capture, held, power, requested>>

\* After the loop: release the Capture and close the socket.
Release ==
  /\ at = "release"
  /\ codecs' = Released(codecs) /\ displays' = Released(displays)
  /\ capture' = [capture EXCEPT !.live = FALSE]
  /\ at' = "restore"
  /\ UNCHANGED <<display, seen, failed, power, socket, written, requested>>

Server ==
  \/ Acquire \/ Start \/ Bind \/ Accept \/ HandshakeCsd \/ SendHandshake
  \/ TakeControl \/ PollTimesOut \/ ClientClosed \/ ApplyParams
  \/ NoVideo \/ SendVideo \/ DisplaySame \/ DisplayChanged \/ ConfigureCsd \/ SendConfigure
  \/ Release \/ Restore

------------------------------------------------------------------------------
(* Environment. *)

Rotate ==
  /\ at # "over"
  /\ display' \in Sizes \ {display}
  /\ UNCHANGED <<at, seen, capture, held, power, socket, written, requested>>

HostConnects ==
  /\ host = "absent" /\ at = "accept"
  /\ host' = "connected"
  /\ UNCHANGED <<at, display, seen, capture, held, power, room, control, written, requested>>

HostSends ==
  /\ host = "connected" /\ at # "over"
  /\ Len(control) < MaxControl
  /\ \E m \in Control : control' = Append(control, m)
  /\ UNCHANGED <<at, display, seen, capture, held, power, host, room, written, requested>>

HostReads ==
  /\ host = "connected" /\ ~room
  /\ room' = TRUE
  /\ UNCHANGED <<at, display, seen, capture, held, power, host, control, written, requested>>

HostLeaves ==
  /\ host = "connected"
  /\ host' = "gone"
  /\ UNCHANGED <<at, display, seen, capture, held, power, room, control, written, requested>>

Next == Server \/ Rotate \/ HostConnects \/ HostSends \/ HostReads \/ HostLeaves

Spec == Init /\ [][Next]_vars

\* The server's thread runs. Nothing obliges a host to connect, to read or to leave.
FairSpec == Spec /\ WF_vars(Server)

------------------------------------------------------------------------------
(* Properties. *)

\* Every variable holds a value of its type.
TypeOK ==
  /\ at \in Setup \cup Serving \cup Ending
  /\ display \in Sizes /\ seen \in Sizes /\ capture \in Captures
  /\ codecs \in Nat /\ displays \in Nat /\ failed \in 0..MaxFailed
  /\ awake \in BOOLEAN /\ kept \in BOOLEAN
  /\ host \in {"absent", "connected", "gone"} /\ room \in BOOLEAN
  /\ control \in Seq(Control)
  /\ announced \in Sizes /\ last \in {"none", "handshake", "configure", "key", "delta"}
  /\ keyed \in BOOLEAN /\ wanted \in BOOLEAN /\ asked \in Rates

\* The host can decode what it gets. A display change is announced before the first frame of
\* the new size and nothing of the old size follows; and after a handshake or a Configure the
\* host's new decoder gets a key frame before any delta.
FramesAreAnnounced ==
  /\ at = "video" /\ capture.live /\ host = "connected" => capture.size = announced
  /\ last = "delta" => keyed

\* What Capture::start hands over is released, at every rotation and however a session ends
\* that got as far as its handshake: all that is there besides the running Capture's is what
\* starts that failed have left, a codec each at most and no display without its codec. And
\* the display timeout is back as it was, unless taking it back failed.
OnlyFailuresLeave ==
  /\ codecs <= failed + 1 /\ displays <= codecs
  /\ at = "over" /\ last # "none" => codecs <= failed
  /\ at = "over" /\ ~kept => ~awake

\* README.md:122 "Pause makes poll return nothing" and README.md:118 "If SetEncoding dirtied
\* the bitrate or fps, setParameters is applied on the live codec": when a frame may go out,
\* the encoder is paused as the host last asked and runs at the rate it last asked for.
RequestsHold == at = "video" /\ capture.live => capture.paused = wanted /\ capture.applied = asked

\* Once the host is gone the server ends, even while it waits for room in the socket or the
\* display keeps turning.
DisconnectEnds == host = "gone" ~> at = "over"

=============================================================================
