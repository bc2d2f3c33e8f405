--------------------------- MODULE MirrorServerProofs ---------------------------
(***************************************************************************)
(* The safety properties of MirrorServer, for every set of sizes and rates *)
(* and any number of waiting control messages.                             *)
(***************************************************************************)
EXTENDS MirrorServer, TLAPS

Before == {"acquire", "start"}
Looping == {"poll", "params", "video", "display"}

\* Besides the one Capture's codec and display there is what failed starts have left.
HeldInv ==
  /\ capture.live => displays >= 1 /\ codecs <= failed + 1
  /\ ~capture.live => codecs <= failed
  /\ displays <= codecs
  /\ at \in Before => ~capture.live
  /\ at \in {"bind", "accept", "csd", "handshake"} => capture.live
  /\ at \in {"restore", "over"} /\ last # "none" => ~capture.live

\* Before the handshake nothing is written, after it the host is or was there.
HandshakeInv ==
  /\ at \in Setup => last = "none"
  /\ at = "over" /\ ~kept => ~awake
  /\ at \in {"csd", "handshake"} \cup Serving => host # "absent"

\* The stream's last announcement is of the running encoder, and no picture came before the
\* key frame the host waits for.
StreamInv ==
  /\ at \in Looping /\ capture.live /\ host = "connected" =>
       /\ capture.size = announced
       /\ capture.stage = "running" => keyed
  /\ at \notin Looping \cup {"release", "restore", "over"} => capture.stage # "running"
  /\ last = "delta" => keyed

SessionInv == TypeOK /\ HeldInv /\ HandshakeInv /\ StreamInv

------------------------------------------------------------------------------
(* Captures. *)

Polled     == [capture EXCEPT !.stage = "csd", !.csd = TRUE]
Running    == [capture EXCEPT !.stage = "running"]
Dead       == [capture EXCEPT !.live = FALSE]
WithParams == [capture EXCEPT !.dirty = FALSE,
                              !.applied = IF capture.live THEN capture.rate ELSE @]

\* What is done to a Capture makes a Capture.
LEMMA CaptureTyped ==
  ASSUME TypeOK
  PROVE  /\ \A s \in Sizes : NewCapture(s) \in Captures /\ NewCapture(s).live
                             /\ NewCapture(s).size = s /\ NewCapture(s).stage = "new"
         /\ Polled \in Captures /\ Polled.live = capture.live
         /\ Polled.size = capture.size /\ Polled.stage = "csd"
         /\ Running \in Captures /\ Running.live = capture.live
         /\ Running.size = capture.size /\ Running.stage = "running"
         /\ Dead \in Captures /\ ~Dead.live /\ Dead.size = capture.size /\ Dead.stage = capture.stage
         /\ WithParams \in Captures /\ WithParams.live = capture.live
         /\ WithParams.size = capture.size /\ WithParams.stage = capture.stage
  <1> USE RatesAssumption DEF TypeOK, Captures
  <1>1. \A s \in Sizes : NewCapture(s) \in Captures /\ NewCapture(s).live
                         /\ NewCapture(s).size = s /\ NewCapture(s).stage = "new"
    BY DEF NewCapture
  <1>2. Polled \in Captures /\ Polled.live = capture.live
        /\ Polled.size = capture.size /\ Polled.stage = "csd"
    BY DEF Polled
  <1>3. Running \in Captures /\ Running.live = capture.live
        /\ Running.size = capture.size /\ Running.stage = "running"
    BY DEF Running
  <1>4. Dead \in Captures /\ ~Dead.live /\ Dead.size = capture.size /\ Dead.stage = capture.stage
    BY DEF Dead
  <1>5. WithParams \in Captures /\ WithParams.live = capture.live
        /\ WithParams.size = capture.size /\ WithParams.stage = capture.stage
    BY DEF WithParams
  <1> QED BY <1>1, <1>2, <1>3, <1>4, <1>5

\* A control message changes neither whether the encoder lives nor its size and stage.
LEMMA AppliedKeeps ==
  ASSUME TypeOK, NEW m \in Control
  PROVE  /\ Applied(capture, m) \in Captures
         /\ Applied(capture, m).live = capture.live
         /\ Applied(capture, m).size = capture.size
         /\ Applied(capture, m).stage = capture.stage
  <1>1. CASE m = "pause"
    BY <1>1 DEF TypeOK, Captures, Applied
  <1>2. CASE m = "resume"
    BY <1>2 DEF TypeOK, Captures, Applied
  <1>3. CASE m \in Rates /\ m # "pause" /\ m # "resume"
    BY <1>3 DEF TypeOK, Captures, Applied
  <1>4. CASE m \notin Rates /\ m # "pause" /\ m # "resume"
    BY <1>4 DEF TypeOK, Captures, Applied
  <1> QED BY <1>1, <1>2, <1>3, <1>4

------------------------------------------------------------------------------
(* Codecs and displays. *)

\* A release leaves what failed starts have left.
LEMMA ReleaseLeaves ==
  ASSUME TypeOK, HeldInv
  PROVE  /\ Released(codecs) \in Nat /\ Released(displays) \in Nat
         /\ Released(codecs) <= failed /\ Released(displays) <= Released(codecs)
  <1>1. CASE capture.live BY <1>1 DEF TypeOK, HeldInv, Released
  <1>2. CASE ~capture.live BY <1>2 DEF TypeOK, HeldInv, Released
  <1> QED BY <1>1, <1>2

\* Without a running Capture there is nothing to release.
LEMMA NothingReleased == ~capture.live => Released(codecs) = codecs /\ Released(displays) = displays
  BY DEF Released

\* A start that succeeds adds one of each to what the release before it left.
LEMMA StartedKeeps ==
  ASSUME TypeOK, HeldInv, NEW s \in Sizes, Started(s, Released(codecs), Released(displays)),
         capture'.live, at' \notin Before \cup {"restore", "over"}
  PROVE  HeldInv' /\ codecs' \in Nat /\ displays' \in Nat /\ failed' \in 0..MaxFailed
  <1>1. failed' = failed /\ failed \in 0..MaxFailed
    BY DEF Started, TypeOK
  <1>2. /\ codecs' \in Nat /\ displays' \in Nat
        /\ displays' >= 1 /\ codecs' <= failed' + 1 /\ displays' <= codecs'
    BY <1>1, ReleaseLeaves, BoundsAssumption DEF Started
  <1> QED BY <1>1, <1>2 DEF HeldInv

\* A start that fails adds a codec at most, and a display only with it.
LEMMA FailureKeeps ==
  ASSUME TypeOK, HeldInv, StartFails(Released(codecs), Released(displays)), ~capture'.live,
         at' \notin {"bind", "accept", "csd", "handshake"}
  PROVE  HeldInv' /\ codecs' \in Nat /\ displays' \in Nat /\ failed' \in 0..MaxFailed
  <1>1. failed \in 0..MaxFailed /\ failed' = failed + 1 /\ failed' \in 0..MaxFailed
    BY BoundsAssumption DEF StartFails, TypeOK
  <1>2. /\ codecs' \in Nat /\ displays' \in Nat
        /\ codecs' <= failed' /\ displays' <= codecs'
    BY <1>1, ReleaseLeaves, BoundsAssumption DEF StartFails
  <1> QED BY <1>1, <1>2 DEF HeldInv

------------------------------------------------------------------------------
\* It holds before serve begins.
LEMMA InitInv == Init => SessionInv
  <1> SUFFICES ASSUME Init PROVE SessionInv
    OBVIOUS
  <1>1. capture \in Captures /\ ~capture.live /\ capture.stage = "new"
    BY RatesAssumption DEF Init, Captures, NewCapture
  <1>2. TypeOK
    <2>1. control \in Seq(Control)
      BY DEF Init
    <2>2. at \in Setup /\ codecs \in Nat /\ displays \in Nat /\ failed \in 0..MaxFailed /\ display \in Sizes /\ seen \in Sizes /\ announced \in Sizes
      BY BoundsAssumption DEF Init, Setup
    <2>3. wanted \in BOOLEAN /\ asked \in Rates /\ awake \in BOOLEAN /\ kept \in BOOLEAN /\ room \in BOOLEAN /\ keyed \in BOOLEAN
      BY RatesAssumption DEF Init
    <2>4. host \in {"absent", "connected", "gone"} /\ last \in {"none", "handshake", "configure", "key", "delta"}
      BY DEF Init
    <2> QED BY <1>1, <2>1, <2>2, <2>3, <2>4 DEF TypeOK
  <1>3. HeldInv
    BY <1>1 DEF Init, HeldInv
  <1>4. HandshakeInv
    BY DEF Init, HandshakeInv, Serving
  <1>5. StreamInv
    BY <1>1 DEF Init, StreamInv, Looping
  <1> QED BY <1>2, <1>3, <1>4, <1>5 DEF SessionInv

\* serve and serve_session up to the loop, and the end of serve.
LEMMA SetupKeeps ==
  ASSUME SessionInv,
         Acquire \/ Start \/ Bind \/ Accept \/ HandshakeCsd \/ SendHandshake \/ Restore
  PROVE  SessionInv'
  <1> USE DEF SessionInv, TypeOK, HeldInv, HandshakeInv, StreamInv, Setup, Serving, Ending, Before,
              Looping, socket, written, requested, held, power
  <1>1. CASE Acquire BY <1>1 DEF Acquire
  <1>2. CASE Start
    <2>1. /\ at = "start" /\ at' \in {"bind", "restore"} /\ last = "none" /\ ~capture.live
          /\ UNCHANGED <<display, seen, power, socket, written, requested>>
      BY <1>2 DEF Start
    <2>2. CASE Started(seen, codecs, displays) /\ at' = "bind"
      <3>1. capture' \in Captures /\ capture'.live /\ capture'.stage = "new"
        BY <2>2, CaptureTyped DEF Started
      <3>2. HeldInv' /\ codecs' \in Nat /\ displays' \in Nat /\ failed' \in 0..MaxFailed
        BY <2>1, <2>2, <3>1, StartedKeeps, NothingReleased
      <3> QED BY <2>1, <2>2, <3>1, <3>2
    <2>3. CASE StartFails(codecs, displays) /\ at' = "restore" /\ UNCHANGED capture
      <3>1. HeldInv' /\ codecs' \in Nat /\ displays' \in Nat /\ failed' \in 0..MaxFailed
        BY <2>1, <2>3, FailureKeeps, NothingReleased
      <3> QED BY <2>1, <2>3, <3>1
    <2> QED BY <1>2, <2>2, <2>3 DEF Start
  <1>3. CASE Bind BY <1>3 DEF Bind
  <1>4. CASE Accept BY <1>4 DEF Accept
  <1>5. CASE HandshakeCsd
    <2>1. capture' = Polled \/ capture' = capture
      BY <1>5 DEF HandshakeCsd, WaitCsd, Polled
    <2> QED BY <1>5, <2>1, CaptureTyped DEF HandshakeCsd, WaitCsd
  <1>6. CASE SendHandshake
    <2>1. capture.size \in Sizes
      BY DEF Captures
    <2> QED BY <1>6, <2>1 DEF SendHandshake, WriteAll, WriteFails, Announce
  <1>7. CASE Restore BY <1>7 DEF Restore
  <1> QED BY <1>1, <1>2, <1>3, <1>4, <1>5, <1>6, <1>7

\* The loop of serve_session and what follows it.
LEMMA LoopKeeps ==
  ASSUME SessionInv,
         \/ TakeControl \/ PollTimesOut \/ ClientClosed \/ ApplyParams \/ NoVideo \/ SendVideo
         \/ DisplaySame \/ DisplayChanged \/ ConfigureCsd \/ SendConfigure \/ Release
  PROVE  SessionInv'
  <1> USE DEF SessionInv, TypeOK, HeldInv, HandshakeInv, StreamInv, Setup, Serving, Ending, Before,
              Looping, socket, written, requested, held, power
  <1>1. CASE TakeControl
    <2> DEFINE m == Head(control)
    <2>1. m \in Control /\ Tail(control) \in Seq(Control)
      BY <1>1 DEF TakeControl
    <2>2. capture' = Applied(capture, m)
      BY <1>1 DEF TakeControl
    <2>3. wanted' \in BOOLEAN /\ asked' \in Rates
      BY <1>1, <2>1 DEF TakeControl
    <2>4. /\ capture' \in Captures /\ capture'.live = capture.live
          /\ capture'.size = capture.size /\ capture'.stage = capture.stage
      BY <2>1, <2>2, AppliedKeeps
    <2>5. at' \in {"poll", "params"}
      BY <1>1 DEF TakeControl
    <2>6. /\ at = "poll" /\ control' = Tail(control)
          /\ UNCHANGED <<display, seen, held, power, host, room, announced, last, keyed>>
      BY <1>1 DEF TakeControl
    <2> HIDE DEF m
    <2> QED BY <2>1, <2>3, <2>4, <2>5, <2>6
  <1>2. CASE PollTimesOut BY <1>2 DEF PollTimesOut
  <1>3. CASE ClientClosed BY <1>3 DEF ClientClosed
  <1>4. CASE ApplyParams
    <2>1. capture' = WithParams \/ capture' = capture
      BY <1>4 DEF ApplyParams, WithParams
    <2> QED BY <1>4, <2>1, CaptureTyped DEF ApplyParams
  <1>5. CASE NoVideo
    <2>1. capture' = Polled \/ capture' = capture
      BY <1>5 DEF NoVideo, Polled
    <2> QED BY <1>5, <2>1, CaptureTyped DEF NoVideo
  <1>6. CASE SendVideo
    <2>1. capture' = Running /\ capture.live
      BY <1>6 DEF SendVideo, Running
    <2>2. /\ capture' \in Captures /\ capture'.live
          /\ capture'.size = capture.size /\ capture'.stage = "running"
      BY <2>1, CaptureTyped
    <2>3. CASE WriteFails
      <3>1. at' = "release" /\ host = "gone"
        BY <1>6, <2>3 DEF SendVideo, WriteAll, WriteFails
      <3> QED BY <1>6, <2>2, <2>3, <3>1 DEF SendVideo, WriteFails
    <2>4. CASE WriteAll
      <3>1. \/ last' = "key" /\ keyed' = TRUE
            \/ capture.stage = "running" /\ last' = "delta" /\ keyed' = keyed
        BY <1>6, <2>1, <2>4 DEF SendVideo, WriteAll, WriteFails
      <3>2. at = "video" /\ at' = "display" /\ UNCHANGED announced
        BY <1>6, <2>4 DEF SendVideo, WriteAll, WriteFails
      <3>3. capture.stage = "running" => keyed
        BY <2>1, <2>4, <3>2 DEF WriteAll
      <3>4. keyed' = TRUE
        BY <3>1, <3>3
      <3> QED BY <1>6, <2>1, <2>2, <2>4, <3>1, <3>2, <3>4 DEF SendVideo, WriteAll
    <2> QED BY <1>6, <2>3, <2>4 DEF SendVideo
  <1>7. CASE DisplaySame BY <1>7 DEF DisplaySame
  <1>8. CASE DisplayChanged
    <2>1. /\ at = "display" /\ seen' = display
          /\ UNCHANGED <<display, power, socket, written, requested>>
      BY <1>8 DEF DisplayChanged
    <2>2. CASE Started(display, Released(codecs), Released(displays)) /\ at' = "csd_again"
      <3>1. capture' \in Captures /\ capture'.live /\ capture'.stage = "new"
        BY <2>2, CaptureTyped DEF Started
      <3>2. HeldInv' /\ codecs' \in Nat /\ displays' \in Nat /\ failed' \in 0..MaxFailed
        BY <2>1, <2>2, <3>1, StartedKeeps
      <3> QED BY <2>1, <2>2, <3>1, <3>2
    <2>3. CASE /\ StartFails(Released(codecs), Released(displays)) /\ at' = "poll"
               /\ capture' = Dead
      <3>1. capture' \in Captures /\ ~capture'.live /\ capture'.size = capture.size
            /\ capture'.stage = capture.stage
        BY <2>3, CaptureTyped
      <3>2. HeldInv' /\ codecs' \in Nat /\ displays' \in Nat /\ failed' \in 0..MaxFailed
        BY <2>1, <2>3, <3>1, FailureKeeps
      <3> QED BY <2>1, <2>3, <3>1, <3>2
    <2> QED BY <1>8, <2>2, <2>3 DEF DisplayChanged, Restart, Dead
  <1>9. CASE ConfigureCsd
    <2>1. capture' = Polled \/ capture' = capture
      BY <1>9 DEF ConfigureCsd, WaitCsd, Polled
    <2> QED BY <1>9, <2>1, CaptureTyped DEF ConfigureCsd, WaitCsd
  <1>10. CASE SendConfigure
    <2>1. capture.size \in Sizes
      BY DEF Captures
    <2> QED BY <1>10, <2>1 DEF SendConfigure, WriteAll, WriteFails, Announce
  <1>11. CASE Release
    <2>1. codecs' = Released(codecs) /\ displays' = Released(displays) /\ capture' = Dead
      BY <1>11 DEF Release, Dead
    <2>2. capture' \in Captures /\ ~capture'.live
      BY <2>1, CaptureTyped
    <2>3. /\ at' = "restore"
          /\ UNCHANGED <<display, seen, failed, power, socket, written, requested>>
      BY <1>11 DEF Release
    <2>4. HeldInv' /\ codecs' \in Nat /\ displays' \in Nat
      BY <2>1, <2>2, <2>3, ReleaseLeaves
    <2> QED BY <2>2, <2>3, <2>4
  <1> QED BY <1>1, <1>2, <1>3, <1>4, <1>5, <1>6, <1>7, <1>8, <1>9, <1>10, <1>11

\* The display and the host.
LEMMA EnvironmentKeeps ==
  ASSUME SessionInv, Rotate \/ HostConnects \/ HostSends \/ HostReads \/ HostLeaves
  PROVE  SessionInv'
  <1> USE DEF SessionInv, TypeOK, HeldInv, HandshakeInv, StreamInv, Setup, Serving, Ending, Before,
              Looping, socket, written, requested, held, power
  <1>1. CASE Rotate BY <1>1 DEF Rotate
  <1>2. CASE HostConnects BY <1>2 DEF HostConnects
  <1>3. CASE HostSends BY <1>3 DEF HostSends
  <1>4. CASE HostReads BY <1>4 DEF HostReads
  <1>5. CASE HostLeaves BY <1>5 DEF HostLeaves
  <1> QED BY <1>1, <1>2, <1>3, <1>4, <1>5

\* The invariant is inductive.
LEMMA Kept == SessionInv /\ [Next]_vars => SessionInv'
  <1> SUFFICES ASSUME SessionInv, [Next]_vars PROVE SessionInv'
    OBVIOUS
  <1>1. CASE UNCHANGED vars
    BY <1>1 DEF vars, socket, written, requested, held, power, SessionInv, TypeOK, HeldInv,
                HandshakeInv, StreamInv
  <1>2. CASE Server
    BY <1>2, SetupKeeps, LoopKeeps DEF Server
  <1>3. CASE Rotate \/ HostConnects \/ HostSends \/ HostReads \/ HostLeaves
    BY <1>3, EnvironmentKeeps
  <1> QED BY <1>1, <1>2, <1>3 DEF Next

LEMMA Invariant == Spec => []SessionInv
  BY InitInv, Kept, PTL DEF Spec

------------------------------------------------------------------------------
\* The types of run.rs and capture.rs, whatever the display, the host and the encoder do.
THEOREM TypeCorrect == Spec => []TypeOK
  <1>1. SessionInv => TypeOK BY DEF SessionInv
  <1> QED BY <1>1, Invariant, PTL

\* The host can decode what serve_session writes: every frame has the size announced last, and
\* no delta comes before a key frame of the running encoder.
THEOREM Announced == Spec => []FramesAreAnnounced
  <1>1. SessionInv => FramesAreAnnounced
    BY DEF SessionInv, StreamInv, FramesAreAnnounced, Looping
  <1> QED BY <1>1, Invariant, PTL

\* A session that got as far as its handshake releases every Capture it was given, whatever the
\* display, the host and the encoder do: what is left of codecs and displays is of starts that
\* failed, one codec for each at most.
THEOREM CapturesReleased == Spec => []OnlyFailuresLeave
  <1> SUFFICES ASSUME SessionInv PROVE OnlyFailuresLeave
    BY Invariant, PTL
  <1>1. codecs \in Nat /\ failed \in 0..MaxFailed
    BY DEF SessionInv, TypeOK
  <1>2. codecs <= failed + 1 /\ displays <= codecs
    BY <1>1, BoundsAssumption DEF SessionInv, HeldInv
  <1>3. at = "over" /\ last # "none" => codecs <= failed
    BY DEF SessionInv, HeldInv
  <1>4. at = "over" /\ ~kept => ~awake
    BY DEF SessionInv, HandshakeInv
  <1> QED BY <1>2, <1>3, <1>4 DEF OnlyFailuresLeave

=================================================================================
