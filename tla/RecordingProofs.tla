-------------------------- MODULE RecordingProofs --------------------------
(***************************************************************************)
(* Proofs about Recording: that a player can show every sample, that a     *)
(* saved file is complete, and that the session records exactly when its   *)
(* flag is on, for all sizes, depths and lengths of a recording.           *)
(***************************************************************************)
EXTENDS Recording, TLAPS

\* Only the closing of the window adds commands above the bound, once.
QueueInv ==
  main \in {"running", "joining", "closing"} => Len(cmds) <= MaxCmds

\* A sample fits the file: its size is the header's, and no frame it depends on is missing
\* unless a write failed.
Fits(s) == s.size = header /\ (s.broken => write_failed)

\* All samples fit, the one that waits for its duration included.
SamplesInv ==
  /\ \A i \in DOMAIN samples : Fits(samples[i])
  /\ \A i \in DOMAIN pending : Fits(pending[i])

\* The open file is of the current size and is not yet saved. Before its first key frame it is
\* empty; from then on its samples are the frames given to it, as long as writes work, and a
\* frame is missing only where the next one taken is a key frame.
FileInv ==
  /\ mp4 = "none" => pending = <<>>
  /\ mp4 # "none" => header = size /\ outcome # "saved"
  /\ mp4 = "waiting" => samples = <<>> /\ pending = <<>> /\ given = 0
  /\ mp4 = "recording" /\ ~write_failed =>
       /\ Len(samples) + Len(pending) = given
       /\ missing => skip = "yes"

\* SessionRecords, and what holds between a Configure and its answer.
FlagInv ==
  /\ SessionRecords
  /\ session = "configuring" => size # NoSize /\ (mp4 # "none" => on)

RecordingInv ==
  TypeOK /\ QueueInv /\ SamplesInv /\ FileInv /\ SavedComplete /\ FlagInv

------------------------------------------------------------------------------
(* The parts of the invariant by what they read. *)

WindowTyped ==
  /\ main \in {"running", "joining", "closing", "wait", "exited"}
  /\ window_on \in BOOLEAN /\ latest \in BOOLEAN
  /\ gif_tx \in BOOLEAN /\ worker \in {"none", "running", "over"} /\ pictures \in 0..GifDepth

CmdsTyped == cmds \in Seq({"on", "off", "quit"}) /\ Len(cmds) <= MaxCmds + 2

FramesTyped == frames \in Seq({"frame", "saved", "mp4:"}) /\ Len(frames) <= FrameDepth

SessionTyped ==
  /\ session \in {"running", "configuring", "over"}
  /\ codec \in {"h264", "h265"} /\ size \in Sizes \cup {NoSize}
  /\ on \in BOOLEAN /\ skip \in {"no", "asked", "yes"}

FileTyped ==
  /\ mp4 \in {"none", "waiting", "recording"}
  /\ pending \in Seq(Sample) /\ Len(pending) <= 1
  /\ header \in Sizes \cup {NoSize} /\ samples \in Seq(Sample)
  /\ outcome \in {"none", "open", "saved", "failed", "abandoned"}
  /\ given \in 0..MaxSamples /\ missing \in BOOLEAN /\ write_failed \in BOOLEAN

\* The parts together, before and after a step.
LEMMA Whole ==
  /\ RecordingInv <=>
       /\ WindowTyped /\ CmdsTyped /\ FramesTyped /\ SessionTyped /\ FileTyped
       /\ QueueInv /\ SamplesInv /\ FileInv /\ SavedComplete /\ FlagInv
  /\ RecordingInv' <=>
       /\ WindowTyped' /\ CmdsTyped' /\ FramesTyped' /\ SessionTyped' /\ FileTyped'
       /\ QueueInv' /\ SamplesInv' /\ FileInv' /\ SavedComplete' /\ FlagInv'
BY DEF RecordingInv, TypeOK, WindowTyped, CmdsTyped, FramesTyped, SessionTyped, FileTyped

\* What finish leaves in the file: all samples, and they fit.
LEMMA FlushedFits ==
  ASSUME FileTyped, SamplesInv
  PROVE  /\ Flushed \in Seq(Sample)
         /\ Len(Flushed) = Len(samples) + Len(pending)
         /\ \A i \in DOMAIN Flushed : Fits(Flushed[i])
<1>1. samples \in Seq(Sample) /\ pending \in Seq(Sample)
  BY DEF FileTyped
<1>2. Flushed \in Seq(Sample) /\ Len(Flushed) = Len(samples) + Len(pending)
  BY <1>1 DEF Flushed
<1>3. ASSUME NEW i \in DOMAIN Flushed
      PROVE  Fits(Flushed[i])
  <2>1. CASE i <= Len(samples)
    <3>1. i \in DOMAIN samples /\ Flushed[i] = samples[i]
      BY <1>1, <1>2, <2>1, <1>3 DEF Flushed
    <3> QED
      BY <3>1 DEF SamplesInv
  <2>2. CASE i > Len(samples)
    <3>1. i - Len(samples) \in DOMAIN pending /\ Flushed[i] = pending[i - Len(samples)]
      BY <1>1, <1>2, <2>2, <1>3 DEF Flushed
    <3> QED
      BY <3>1 DEF SamplesInv
  <2> QED
    BY <1>1, <1>2, <2>1, <2>2
<1> QED
  BY <1>2, <1>3

\* A status takes room in the channel to the window, or is dropped.
LEMMA StatusTyped ==
  ASSUME FramesTyped, NEW text \in {"saved", "mp4:"}, Status(text)
  PROVE  FramesTyped'
BY DepthAssumption DEF FramesTyped, Status

\* finish_mp4 closes the file, with every sample if it saves it.
LEMMA FinishKeeps ==
  ASSUME FileTyped, FramesTyped, SamplesInv, FileInv, SavedComplete, Finish, missing' \in BOOLEAN
  PROVE  /\ FileTyped' /\ FramesTyped' /\ SamplesInv' /\ FileInv' /\ SavedComplete'
         /\ mp4' = "none"
<1>1. CASE mp4 = "none" /\ UNCHANGED <<file, frames>>
  BY <1>1 DEF file, FileTyped, FramesTyped, SamplesInv, FileInv, SavedComplete, Fits
<1>2. CASE mp4 # "none" /\ Finish
  <2>1. /\ mp4' = "none" /\ pending' = <<>>
        /\ UNCHANGED <<header, given, write_failed>>
    BY <1>2 DEF Finish
  <2>2. FramesTyped'
    <3>1. \E text \in {"saved", "mp4:"} : Status(text)
      BY <1>2 DEF Finish
    <3> QED
      BY <3>1, StatusTyped
  <2>3. CASE samples' = Flushed /\ outcome' = "saved" /\ Flushed # <<>>
    <3>1. FileTyped'
      BY <2>1, <2>3, FlushedFits DEF FileTyped
    <3>2. SamplesInv'
      BY <2>1, <2>3, FlushedFits DEF SamplesInv, Fits
    <3>3. FileInv'
      BY <2>1 DEF FileInv
    <3>4. SavedComplete'
      <4>1. mp4 \in {"waiting", "recording"}
        BY <1>2 DEF FileTyped
      <4>2. Len(Flushed) # 0
        BY <2>3, FlushedFits
      <4>3. mp4 # "waiting"
        BY <4>2, FlushedFits DEF FileInv
      <4> QED
        BY <2>1, <2>3, <4>1, <4>3, FlushedFits DEF FileInv, SavedComplete
    <3> QED
      BY <2>1, <2>2, <3>1, <3>2, <3>3, <3>4
  <2>4. CASE UNCHANGED samples /\ outcome' = "failed"
    <3>1. FileTyped'
      BY <2>1, <2>4 DEF FileTyped
    <3>2. SamplesInv'
      BY <2>1, <2>4 DEF SamplesInv, Fits
    <3>3. FileInv' /\ SavedComplete'
      BY <2>1, <2>4 DEF FileInv, SavedComplete
    <3> QED
      BY <2>1, <2>2, <3>1, <3>2, <3>3
  <2> QED
    BY <1>2, <2>3, <2>4 DEF Finish
<1> QED
  BY <1>1, <1>2 DEF Finish

\* open_mp4 starts an empty file of the current size and keeps the flag on, or leaves no file
\* and puts it off.
LEMMA OpenKeeps ==
  ASSUME FileTyped, FramesTyped, SamplesInv, FileInv, SavedComplete,
         mp4 = "none", size \in Sizes, OpenMp4(size), UNCHANGED <<size, skip, missing>>
  PROVE  /\ FileTyped' /\ FramesTyped' /\ SamplesInv' /\ FileInv' /\ SavedComplete'
         /\ on' \in BOOLEAN
         /\ mp4' # "none" <=> on'
<1>1. CASE /\ mp4' = "waiting" /\ pending' = <<>> /\ header' = size /\ samples' = <<>>
           /\ outcome' = "open" /\ given' = 0 /\ write_failed' = FALSE
           /\ on' = TRUE
           /\ UNCHANGED frames
  <2>1. FileTyped'
    <3>1. pending' \in Seq(Sample) /\ Len(pending') = 0 /\ samples' \in Seq(Sample)
      BY <1>1
    <3>2. given' \in 0..MaxSamples
      BY <1>1, BoundsAssumption
    <3>3. header' \in Sizes \cup {NoSize} /\ missing' \in BOOLEAN
      BY <1>1 DEF FileTyped
    <3>4. Len(pending') <= 1
      BY <3>1
    <3> QED
      BY <1>1, <3>1, <3>2, <3>3, <3>4 DEF FileTyped
  <2>2. FramesTyped'
    BY <1>1 DEF FramesTyped
  <2>3. SamplesInv' /\ FileInv' /\ SavedComplete'
    BY <1>1 DEF SamplesInv, FileInv, SavedComplete
  <2> QED
    BY <1>1, <2>1, <2>2, <2>3
<1>2. CASE on' = FALSE /\ Status("mp4:") /\ UNCHANGED file
  <2>1. FileTyped' /\ SamplesInv' /\ FileInv' /\ SavedComplete'
    BY <1>2 DEF file, FileTyped, SamplesInv, FileInv, SavedComplete, Fits
  <2>2. FramesTyped'
    BY <1>2, StatusTyped
  <2>3. mp4' = "none"
    BY <1>2 DEF file
  <2> QED
    BY <1>2, <2>1, <2>2, <2>3
<1> QED
  BY <1>1, <1>2 DEF OpenMp4

\* Mp4Rec::push adds one frame of the current size: to the end of the samples, or, with the
\* one before it, to what a failed write has lost.
LEMMA PushKeeps ==
  ASSUME FileTyped, SamplesInv, FileInv, SavedComplete,
         NEW kind \in Kinds, Push(kind), given < MaxSamples,
         skip = "yes" => kind = "key", UNCHANGED size
  PROVE  /\ FileTyped' /\ SamplesInv' /\ FileInv' /\ SavedComplete'
         /\ mp4 # "none" /\ mp4' # "none"
<1>1. /\ mp4' = "recording" /\ given' = given + 1
      /\ UNCHANGED <<header, outcome>>
      /\ mp4 \in {"waiting", "recording"}
      /\ mp4 = "waiting" => kind = "key"
  BY DEF Push, Takes
<1>2. header = size /\ outcome # "saved" /\ header' = size
  BY <1>1 DEF FileInv
<1>3. given \in Nat /\ given + 1 \in 0..MaxSamples
  BY BoundsAssumption DEF FileTyped
<1>4. SavedComplete'
  BY <1>1, <1>2 DEF SavedComplete
<1>5. CASE /\ samples' = Flushed
           /\ missing' = (missing /\ kind = "delta")
           /\ pending' = <<[kind |-> kind, size |-> size, broken |-> missing']>>
           /\ UNCHANGED write_failed
  <2>1. missing' \in BOOLEAN
    BY <1>5
  <2>2. [kind |-> kind, size |-> size, broken |-> missing'] \in Sample
    BY <1>2, <2>1 DEF Sample, FileTyped
  <2>3. pending' \in Seq(Sample) /\ Len(pending') = 1 /\ DOMAIN pending' = {1}
        /\ pending'[1] = [kind |-> kind, size |-> size, broken |-> missing']
    BY <1>5, <2>2
  <2>4. FileTyped'
    BY <1>1, <1>3, <1>5, <2>1, <2>3, FlushedFits DEF FileTyped
  <2>5. missing' => write_failed
    <3>1. CASE kind = "key"
      BY <1>5, <3>1
    <3>2. CASE kind = "delta"
      <4>1. mp4 = "recording" /\ skip # "yes"
        BY <1>1, <3>2
      <4> QED
        BY <1>5, <4>1 DEF FileInv, FileTyped
    <3> QED
      BY <3>1, <3>2 DEF Kinds
  <2>6. SamplesInv'
    <3>1. Fits(pending[1])'
      BY <1>2, <1>5, <2>3, <2>5 DEF Fits
    <3>2. \A i \in DOMAIN samples' : Fits(samples[i])'
      BY <1>1, <1>5, FlushedFits DEF Fits
    <3> QED
      BY <2>3, <3>1, <3>2 DEF SamplesInv
  <2>7. FileInv'
    <3>1. ~write_failed => Len(samples) + Len(pending) = given
      BY <1>1 DEF FileInv
    <3>2. ~write_failed' => Len(samples') + Len(pending') = given'
      BY <1>1, <1>5, <2>3, <3>1, FlushedFits DEF FileTyped
    <3> QED
      BY <1>1, <1>2, <1>5, <2>5, <3>2 DEF FileInv
  <2> QED
    BY <1>1, <1>4, <2>4, <2>6, <2>7
<1>6. CASE /\ pending # <<>>
           /\ pending' = <<>> /\ write_failed' = TRUE /\ missing' = TRUE
           /\ UNCHANGED samples
  <2>1. FileTyped'
    BY <1>1, <1>3, <1>6 DEF FileTyped
  <2>2. SamplesInv'
    BY <1>1, <1>6 DEF SamplesInv, Fits
  <2>3. FileInv'
    BY <1>1, <1>2, <1>6 DEF FileInv
  <2> QED
    BY <1>1, <1>4, <2>1, <2>2, <2>3
<1> QED
  BY <1>5, <1>6 DEF Push

------------------------------------------------------------------------------
(* Every step keeps the invariant. *)

LEMMA InitInv == Init => RecordingInv
<1> SUFFICES ASSUME Init PROVE RecordingInv
  OBVIOUS
<1>1. WindowTyped /\ SessionTyped
  <2>1. window_on \in BOOLEAN /\ latest \in BOOLEAN /\ gif_tx \in BOOLEAN /\ on \in BOOLEAN
    BY DEF Init
  <2>2. pictures \in 0..GifDepth
    BY DepthAssumption DEF Init
  <2>3. WindowTyped
    BY <2>1, <2>2 DEF Init, WindowTyped
  <2>4. SessionTyped
    BY <2>1 DEF Init, SessionTyped
  <2> QED
    BY <2>3, <2>4
<1>2. CmdsTyped /\ FramesTyped /\ QueueInv
  BY DepthAssumption, BoundsAssumption DEF Init, CmdsTyped, FramesTyped, QueueInv
<1>3. FileTyped
  <2>1. pending \in Seq(Sample) /\ Len(pending) <= 1 /\ samples \in Seq(Sample)
    BY DEF Init
  <2>2. missing \in BOOLEAN /\ write_failed \in BOOLEAN
    BY DEF Init
  <2>3. given \in 0..MaxSamples
    BY BoundsAssumption DEF Init
  <2> QED
    BY <2>1, <2>2, <2>3 DEF Init, FileTyped
<1>4. SamplesInv /\ FileInv /\ SavedComplete
  BY DEF Init, SamplesInv, FileInv, SavedComplete
<1>5. FlagInv
  BY DEF Init, FlagInv, SessionRecords
<1> QED
  BY <1>1, <1>2, <1>3, <1>4, <1>5, Whole

\* A step that leaves the session and its file alone.
LEMMA SessionAside ==
  ASSUME RecordingInv, UNCHANGED <<session, on, video, file, missing>>
  PROVE  SessionTyped' /\ FileTyped' /\ SamplesInv' /\ FileInv' /\ SavedComplete' /\ FlagInv'
<1>1. SessionTyped' /\ FlagInv'
  BY Whole DEF SessionTyped, FlagInv, SessionRecords, video, file
<1>2. FileTyped' /\ FileInv' /\ SavedComplete'
  BY Whole DEF FileTyped, FileInv, SavedComplete, video, file
<1>3. SamplesInv'
  BY Whole DEF SamplesInv, Fits, file
<1> QED
  BY <1>1, <1>2, <1>3

\* A step of the window, of the GIF thread or of the decoder.
LEMMA WindowKeeps ==
  ASSUME RecordingInv, Window \/ Worker \/ PictureComes
  PROVE  RecordingInv'
<1>0. WindowTyped /\ CmdsTyped /\ FramesTyped /\ SessionTyped /\ FileTyped /\ QueueInv
  BY Whole
<1>1. CASE ToggleMp4
  <2>1. WindowTyped' /\ FramesTyped'
    BY <1>0, <1>1 DEF ToggleMp4, WindowTyped, FramesTyped, gif
  <2>2. CmdsTyped' /\ QueueInv'
    <3>1. PICK cmd \in {"on", "off", "quit"} : cmds' = Append(cmds, cmd)
      BY <1>1 DEF ToggleMp4
    <3>2. Len(cmds) < MaxCmds
      BY <1>1 DEF ToggleMp4
    <3> QED
      BY <1>0, <3>1, <3>2, BoundsAssumption DEF CmdsTyped, QueueInv
  <2>9. UNCHANGED <<session, on, video, file, missing>>
    BY <1>1 DEF ToggleMp4
  <2> QED
    BY <1>0, <2>1, <2>2, <2>9, SessionAside, Whole
<1>2. CASE StartGif
  <2>1. WindowTyped' /\ FramesTyped'
    BY <1>0, <1>2, DepthAssumption DEF StartGif, WindowTyped, FramesTyped, window
  <2>2. CmdsTyped' /\ QueueInv'
    BY <1>0, <1>2 DEF StartGif, CmdsTyped, QueueInv, window
  <2>9. UNCHANGED <<session, on, video, file, missing>>
    BY <1>2 DEF StartGif
  <2> QED
    BY <1>0, <2>1, <2>2, <2>9, SessionAside, Whole
<1>3. CASE StopGif
  <2>1. WindowTyped' /\ FramesTyped'
    BY <1>0, <1>3 DEF StopGif, WindowTyped, FramesTyped
  <2>2. CmdsTyped' /\ QueueInv'
    BY <1>0, <1>3 DEF StopGif, CmdsTyped, QueueInv
  <2>9. UNCHANGED <<session, on, video, file, missing>>
    BY <1>3 DEF StopGif
  <2> QED
    BY <1>0, <2>1, <2>2, <2>9, SessionAside, Whole
<1>4. CASE CloseRequested
  <2>1. WindowTyped' /\ FramesTyped'
    BY <1>0, <1>4 DEF CloseRequested, WindowTyped, FramesTyped
  <2>2. CmdsTyped' /\ QueueInv'
    BY <1>0, <1>4 DEF CloseRequested, CmdsTyped, QueueInv
  <2>9. UNCHANGED <<session, on, video, file, missing>>
    BY <1>4 DEF CloseRequested
  <2> QED
    BY <1>0, <2>1, <2>2, <2>9, SessionAside, Whole
<1>5. CASE Joined
  <2>1. WindowTyped' /\ FramesTyped'
    BY <1>0, <1>5 DEF Joined, WindowTyped, FramesTyped, gif
  <2>2. CmdsTyped' /\ QueueInv'
    <3>1. CASE main = "joining" /\ main' = "running" /\ UNCHANGED cmds
      BY <1>0, <3>1 DEF CmdsTyped, QueueInv
    <3>2. CASE main = "closing" /\ main' = "wait" /\ cmds' = cmds \o <<"off", "quit">>
      <4>1. /\ <<"off", "quit">> \in Seq({"on", "off", "quit"})
            /\ Len(<<"off", "quit">>) = 2
        OBVIOUS
      <4>2. Len(cmds) <= MaxCmds
        BY <1>0, <3>2 DEF QueueInv
      <4> QED
        BY <1>0, <3>2, <4>1, <4>2, BoundsAssumption DEF CmdsTyped, QueueInv
    <3> QED
      BY <1>5, <3>1, <3>2 DEF Joined
  <2>9. UNCHANGED <<session, on, video, file, missing>>
    BY <1>5 DEF Joined
  <2> QED
    BY <1>0, <2>1, <2>2, <2>9, SessionAside, Whole
<1>6. CASE Redraw
  <2>1. PICK n \in 0..Len(SelectSeq(frames, LAMBDA m : m = "frame")) : PushGif(n)
    BY <1>6 DEF Redraw
  <2>2. frames' = <<>> /\ UNCHANGED <<main, gif_tx, worker, cmds>>
        /\ latest' = (latest \/ Waiting("frame"))
        /\ window_on' = (window_on /\ ~Waiting("mp4:"))
    BY <1>6 DEF Redraw
  <2>3. pictures' \in 0..GifDepth
    <3>1. n \in Nat /\ pictures \in 0..GifDepth
      BY <1>0 DEF WindowTyped
    <3> QED
      BY <2>1, <3>1, DepthAssumption DEF PushGif
  <2>4. WindowTyped' /\ FramesTyped'
    <3>1. FramesTyped'
      BY <2>2, DepthAssumption DEF FramesTyped
    <3>2. latest' \in BOOLEAN /\ window_on' \in BOOLEAN
      BY <2>2
    <3> QED
      BY <1>0, <2>2, <2>3, <3>1, <3>2 DEF WindowTyped
  <2>5. CmdsTyped' /\ QueueInv'
    BY <1>0, <2>2 DEF CmdsTyped, QueueInv
  <2>9. UNCHANGED <<session, on, video, file, missing>>
    BY <1>6 DEF Redraw
  <2> QED
    BY <1>0, <2>4, <2>5, <2>9, SessionAside, Whole
<1>7. CASE SessionWaited
  <2>1. WindowTyped' /\ FramesTyped' /\ CmdsTyped' /\ QueueInv'
    BY <1>0, <1>7 DEF SessionWaited, WindowTyped, FramesTyped, CmdsTyped, QueueInv, gif
  <2>2. SessionTyped' /\ FlagInv'
    BY <1>0, <1>7 DEF SessionWaited, SessionTyped, FlagInv, SessionRecords, video
  <2>3. /\ UNCHANGED <<video, mp4, pending, header, samples, given, write_failed, missing>>
        /\ outcome' = IF mp4 = "none" THEN outcome ELSE "abandoned"
    BY <1>7 DEF SessionWaited
  <2>4. FileTyped'
    BY <1>0, <2>3 DEF FileTyped
  <2>5. FileInv' /\ SavedComplete'
    BY <2>3, Whole DEF FileInv, SavedComplete, video
  <2>6. SamplesInv'
    BY <2>3, Whole DEF SamplesInv, Fits
  <2> QED
    BY <2>1, <2>2, <2>4, <2>5, <2>6, Whole
<1>8. CASE GifWrites
  <2>1. WindowTyped' /\ FramesTyped'
    BY <1>0, <1>8, DepthAssumption DEF GifWrites, WindowTyped, FramesTyped, window
  <2>2. CmdsTyped' /\ QueueInv'
    BY <1>0, <1>8 DEF GifWrites, CmdsTyped, QueueInv, window
  <2>9. UNCHANGED <<session, on, video, file, missing>>
    BY <1>8 DEF GifWrites
  <2> QED
    BY <1>0, <2>1, <2>2, <2>9, SessionAside, Whole
<1>9. CASE GifEnds
  <2>1. WindowTyped' /\ FramesTyped'
    BY <1>0, <1>9, DepthAssumption DEF GifEnds, WindowTyped, FramesTyped, window
  <2>2. CmdsTyped' /\ QueueInv'
    BY <1>0, <1>9 DEF GifEnds, CmdsTyped, QueueInv, window
  <2>9. UNCHANGED <<session, on, video, file, missing>>
    BY <1>9 DEF GifEnds
  <2> QED
    BY <1>0, <2>1, <2>2, <2>9, SessionAside, Whole
<1>10. CASE PictureComes
  <2>1. WindowTyped' /\ FramesTyped'
    BY <1>0, <1>10, DepthAssumption DEF PictureComes, WindowTyped, FramesTyped, window, gif
  <2>2. CmdsTyped' /\ QueueInv'
    BY <1>0, <1>10 DEF PictureComes, CmdsTyped, QueueInv, window
  <2>9. UNCHANGED <<session, on, video, file, missing>>
    BY <1>10 DEF PictureComes
  <2> QED
    BY <1>0, <2>1, <2>2, <2>9, SessionAside, Whole
<1> QED
  BY <1>1, <1>2, <1>3, <1>4, <1>5, <1>6, <1>7, <1>8, <1>9, <1>10 DEF Window, Worker

\* A step of the session leaves the window and the GIF thread alone.
LEMMA WindowAside ==
  ASSUME RecordingInv, UNCHANGED <<window, gif>>
  PROVE  /\ WindowTyped'
         /\ UNCHANGED cmds => CmdsTyped' /\ QueueInv'
BY Whole DEF WindowTyped, CmdsTyped, QueueInv, window, gif

LEMMA TakeCmdKeeps ==
  ASSUME RecordingInv, TakeCmd
  PROVE  RecordingInv'
<1>0. CmdsTyped /\ FramesTyped /\ SessionTyped /\ FileTyped /\ QueueInv
      /\ SamplesInv /\ FileInv /\ SavedComplete /\ FlagInv
  BY Whole
<1>1. /\ session = "running" /\ cmds # <<>> /\ cmds' = Tail(cmds)
      /\ UNCHANGED <<window, gif, video, missing>>
      /\ missing' \in BOOLEAN
  BY <1>0 DEF TakeCmd, FileTyped
<1>2. WindowTyped'
  BY <1>1, WindowAside
<1>3. CmdsTyped' /\ QueueInv'
  <2>1. Tail(cmds) \in Seq({"on", "off", "quit"}) /\ Len(Tail(cmds)) = Len(cmds) - 1
    BY <1>0, <1>1 DEF CmdsTyped
  <2>2. CmdsTyped'
    BY <1>0, <1>1, <2>1, BoundsAssumption DEF CmdsTyped
  <2>3. QueueInv'
    BY <1>0, <1>1, <2>1, BoundsAssumption DEF CmdsTyped, QueueInv, window
  <2> QED
    BY <2>2, <2>3
<1>4. CASE Head(cmds) = "on" /\ mp4 = "none" /\ size # NoSize /\ OpenMp4(size) /\ UNCHANGED session
  <2>1. size \in Sizes /\ UNCHANGED <<size, skip, missing>>
    BY <1>0, <1>1, <1>4 DEF SessionTyped, video
  <2>2. /\ FileTyped' /\ FramesTyped' /\ SamplesInv' /\ FileInv' /\ SavedComplete'
        /\ on' \in BOOLEAN
        /\ mp4' # "none" <=> on'
    BY <1>0, <1>4, <2>1, OpenKeeps
  <2>3. SessionTyped'
    BY <1>0, <1>1, <1>4, <2>2 DEF SessionTyped, video
  <2>4. FlagInv'
    BY <1>1, <1>4, <2>1, <2>2 DEF FlagInv, SessionRecords
  <2> QED
    BY <1>2, <1>3, <2>2, <2>3, <2>4, Whole
<1>5. CASE /\ Head(cmds) = "on" /\ (mp4 # "none" \/ size = NoSize)
           /\ on' = TRUE
           /\ UNCHANGED <<file, frames, session>>
  <2>1. FileTyped' /\ FramesTyped' /\ FileInv' /\ SavedComplete'
    BY <1>0, <1>1, <1>5 DEF FileTyped, FramesTyped, FileInv, SavedComplete, file, video
  <2>2. SamplesInv'
    BY <1>0, <1>5 DEF SamplesInv, Fits, file
  <2>3. on' \in BOOLEAN
    BY <1>5
  <2>4. SessionTyped'
    BY <1>0, <1>1, <1>5, <2>3 DEF SessionTyped, video
  <2>5. FlagInv'
    BY <1>0, <1>1, <1>5 DEF FlagInv, SessionRecords, file, video
  <2> QED
    BY <1>2, <1>3, <2>1, <2>2, <2>4, <2>5, Whole
<1>6. CASE Head(cmds) = "off" /\ on' = FALSE /\ Finish /\ UNCHANGED session
  <2>1. /\ FileTyped' /\ FramesTyped' /\ SamplesInv' /\ FileInv' /\ SavedComplete'
        /\ mp4' = "none"
    BY <1>0, <1>1, <1>6, FinishKeeps
  <2>2. on' \in BOOLEAN
    BY <1>6
  <2>3. SessionTyped'
    BY <1>0, <1>1, <1>6, <2>2 DEF SessionTyped, video
  <2>4. FlagInv'
    BY <1>1, <1>6, <2>1 DEF FlagInv, SessionRecords
  <2> QED
    BY <1>2, <1>3, <2>1, <2>3, <2>4, Whole
<1>7. CASE Head(cmds) = "quit" /\ session' = "over" /\ Finish /\ UNCHANGED on
  <2>1. /\ FileTyped' /\ FramesTyped' /\ SamplesInv' /\ FileInv' /\ SavedComplete'
    BY <1>0, <1>1, <1>7, FinishKeeps
  <2>2. SessionTyped'
    BY <1>0, <1>1, <1>7 DEF SessionTyped, video
  <2>3. FlagInv'
    BY <1>7 DEF FlagInv, SessionRecords
  <2> QED
    BY <1>2, <1>3, <2>1, <2>2, <2>3, Whole
<1> QED
  BY <1>4, <1>5, <1>6, <1>7 DEF TakeCmd

LEMMA LinkFailsKeeps ==
  ASSUME RecordingInv, LinkFails
  PROVE  RecordingInv'
<1>0. FramesTyped /\ SessionTyped /\ FileTyped /\ SamplesInv /\ FileInv /\ SavedComplete
  BY Whole
<1>1. /\ session' = "over"
      /\ UNCHANGED <<window, gif, cmds, on, video, missing>>
      /\ missing' \in BOOLEAN
  BY <1>0 DEF LinkFails, FileTyped
<1>2. WindowTyped' /\ CmdsTyped' /\ QueueInv'
  BY <1>1, WindowAside
<1>3. SessionTyped' /\ FlagInv'
  BY <1>0, <1>1 DEF SessionTyped, FlagInv, SessionRecords, video
<1>4. CASE Finish
  BY <1>0, <1>1, <1>2, <1>3, <1>4, FinishKeeps, Whole
<1>5. CASE /\ outcome' = IF mp4 = "none" THEN outcome ELSE "abandoned"
           /\ mp4' = "none" /\ pending' = <<>>
           /\ UNCHANGED <<header, samples, given, write_failed, frames>>
  <2>1. FileTyped' /\ FramesTyped'
    <3>1. pending' \in Seq(Sample) /\ Len(pending') <= 1
      BY <1>5
    <3> QED
      BY <1>0, <1>1, <1>5, <3>1 DEF FileTyped, FramesTyped
  <2>2. SamplesInv'
    BY <1>0, <1>5 DEF SamplesInv, Fits
  <2>3. FileInv' /\ SavedComplete'
    BY <1>0, <1>5 DEF FileInv, SavedComplete
  <2> QED
    BY <1>2, <1>3, <2>1, <2>2, <2>3, Whole
<1> QED
  BY <1>4, <1>5 DEF LinkFails

LEMMA ConfigureKeeps ==
  ASSUME RecordingInv, NEW width \in Sizes, Configure(width)
  PROVE  RecordingInv'
<1>0. FramesTyped /\ SessionTyped /\ FileTyped
      /\ SamplesInv /\ FileInv /\ SavedComplete /\ FlagInv
  BY Whole
<1>1. /\ session = "running" /\ session' = "configuring" /\ size' = width
      /\ UNCHANGED <<window, gif, cmds, on, codec, skip, missing>>
      /\ missing' \in BOOLEAN
  BY <1>0 DEF Configure, FileTyped
<1>2. WindowTyped' /\ CmdsTyped' /\ QueueInv'
  BY <1>1, WindowAside
<1>3. SessionTyped'
  BY <1>0, <1>1 DEF SessionTyped
<1>4. size' # NoSize
  BY <1>1, SizesAssumption
<1>5. CASE size # width /\ Finish
  <2>1. /\ FileTyped' /\ FramesTyped' /\ SamplesInv' /\ FileInv' /\ SavedComplete'
        /\ mp4' = "none"
    BY <1>0, <1>1, <1>5, FinishKeeps
  <2>2. FlagInv'
    BY <1>1, <1>4, <2>1 DEF FlagInv, SessionRecords
  <2> QED
    BY <1>2, <1>3, <2>1, <2>2, Whole
<1>6. CASE size = width /\ UNCHANGED <<file, frames>>
  <2>1. FileTyped' /\ FramesTyped' /\ FileInv' /\ SavedComplete'
    BY <1>0, <1>1, <1>6 DEF FileTyped, FramesTyped, FileInv, SavedComplete, file
  <2>2. SamplesInv'
    BY <1>0, <1>6 DEF SamplesInv, Fits, file
  <2>3. FlagInv'
    BY <1>0, <1>1, <1>4, <1>6 DEF FlagInv, SessionRecords, file
  <2> QED
    BY <1>2, <1>3, <2>1, <2>2, <2>3, Whole
<1> QED
  BY <1>5, <1>6 DEF Configure

LEMMA ConfiguredKeeps ==
  ASSUME RecordingInv, Configured
  PROVE  RecordingInv'
<1>0. FramesTyped /\ SessionTyped /\ FileTyped
      /\ SamplesInv /\ FileInv /\ SavedComplete /\ FlagInv
  BY Whole
<1>1. /\ session = "configuring" /\ session' = "running"
      /\ UNCHANGED <<window, gif, cmds, video, missing>>
  BY DEF Configured
<1>2. WindowTyped' /\ CmdsTyped' /\ QueueInv'
  BY <1>1, WindowAside
<1>3. size \in Sizes /\ size' # NoSize /\ UNCHANGED <<size, skip, missing>>
  BY <1>0, <1>1 DEF FlagInv, SessionTyped, video
<1>4. CASE on /\ mp4 = "none" /\ OpenMp4(size)
  <2>1. /\ FileTyped' /\ FramesTyped' /\ SamplesInv' /\ FileInv' /\ SavedComplete'
        /\ on' \in BOOLEAN
        /\ mp4' # "none" <=> on'
    BY <1>0, <1>3, <1>4, OpenKeeps
  <2>2. SessionTyped'
    BY <1>0, <1>1, <2>1 DEF SessionTyped, video
  <2>3. FlagInv'
    BY <1>1, <1>3, <2>1 DEF FlagInv, SessionRecords
  <2> QED
    BY <1>2, <2>1, <2>2, <2>3, Whole
<1>5. CASE ~(on /\ mp4 = "none") /\ UNCHANGED <<file, on, frames>>
  <2>1. FileTyped' /\ FramesTyped' /\ FileInv' /\ SavedComplete'
    BY <1>0, <1>3, <1>5 DEF FileTyped, FramesTyped, FileInv, SavedComplete, file
  <2>2. SamplesInv'
    BY <1>0, <1>5 DEF SamplesInv, Fits, file
  <2>3. SessionTyped'
    BY <1>0, <1>1, <1>5 DEF SessionTyped, video
  <2>4. FlagInv'
    BY <1>0, <1>1, <1>3, <1>5 DEF FlagInv, SessionRecords, file
  <2> QED
    BY <1>2, <2>1, <2>2, <2>3, <2>4, Whole
<1> QED
  BY <1>4, <1>5 DEF Configured

\* The skip begins with the next chunk, and leaves frames out.
LEMMA SkipKeeps ==
  ASSUME RecordingInv, NextRead \/ FrameSkipped
  PROVE  RecordingInv'
<1>0. FramesTyped /\ SessionTyped /\ FileTyped
      /\ SamplesInv /\ FileInv /\ SavedComplete /\ FlagInv
  BY Whole
<1>1. /\ UNCHANGED <<window, gif, cmds, frames, session, on, codec, size, file>>
      /\ skip' = "yes"
      /\ missing' \in BOOLEAN
  BY <1>0 DEF NextRead, FrameSkipped, FileTyped, video
<1>2. WindowTyped' /\ CmdsTyped' /\ QueueInv'
  BY <1>1, WindowAside
<1>3. FramesTyped' /\ SessionTyped' /\ FlagInv'
  BY <1>0, <1>1 DEF FramesTyped, SessionTyped, FlagInv, SessionRecords, file
<1>4. FileTyped' /\ FileInv' /\ SavedComplete'
  BY <1>0, <1>1 DEF FileTyped, FileInv, SavedComplete, file
<1>5. SamplesInv'
  BY <1>0, <1>1 DEF SamplesInv, Fits, file
<1> QED
  BY <1>2, <1>3, <1>4, <1>5, Whole

LEMMA FrameKeeps ==
  ASSUME RecordingInv, NEW kind \in Kinds, Frame(kind), Takes(kind) => given < MaxSamples
  PROVE  RecordingInv'
<1>0. FramesTyped /\ SessionTyped /\ FileTyped
      /\ SamplesInv /\ FileInv /\ SavedComplete /\ FlagInv
  BY Whole
<1>1. /\ session = "running"
      /\ skip = "yes" => kind = "key"
      /\ UNCHANGED <<window, gif, cmds, frames, session, on, codec, size>>
  BY DEF Frame
<1>2. skip' \in {"no", "asked", "yes"}
  BY <1>0 DEF Frame, SessionTyped
<1>3. WindowTyped' /\ CmdsTyped' /\ QueueInv'
  BY <1>1, WindowAside
<1>4. FramesTyped' /\ SessionTyped'
  BY <1>0, <1>1, <1>2 DEF FramesTyped, SessionTyped
<1>5. CASE Push(kind)
  <2>1. given < MaxSamples
    BY <1>5 DEF Push
  <2>2. /\ FileTyped' /\ SamplesInv' /\ FileInv' /\ SavedComplete'
        /\ mp4 # "none" /\ mp4' # "none"
    BY <1>0, <1>1, <1>5, <2>1, PushKeeps
  <2>3. FlagInv'
    BY <1>0, <1>1, <2>2 DEF FlagInv, SessionRecords
  <2> QED
    BY <1>3, <1>4, <2>2, <2>3, Whole
<1>6. CASE ~Takes(kind) /\ missing' = TRUE /\ UNCHANGED file
  <2>1. mp4 # "recording"
    BY <1>6 DEF Takes
  <2>2. FileTyped'
    <3>1. missing' \in BOOLEAN
      BY <1>6
    <3> QED
      BY <1>0, <1>6, <3>1 DEF FileTyped, file
  <2>3. FileInv' /\ SavedComplete' /\ FlagInv'
    BY <1>0, <1>1, <1>6, <2>1 DEF FileInv, SavedComplete, FlagInv, SessionRecords, file
  <2>4. SamplesInv'
    BY <1>0, <1>6 DEF SamplesInv, Fits, file
  <2> QED
    BY <1>3, <1>4, <2>2, <2>3, <2>4, Whole
<1> QED
  BY <1>5, <1>6 DEF Frame

LEMMA Kept == RecordingInv /\ [Next]_vars => RecordingInv'
<1> SUFFICES ASSUME RecordingInv, [Next]_vars PROVE RecordingInv'
  OBVIOUS
<1>1. CASE Window \/ Worker \/ PictureComes
  BY <1>1, WindowKeeps
<1>2. CASE Session
  BY <1>2, TakeCmdKeeps, LinkFailsKeeps, ConfigureKeeps, ConfiguredKeeps, SkipKeeps, FrameKeeps
     DEF Session
<1>3. CASE UNCHANGED vars
  <2>1. /\ UNCHANGED <<session, on, video, file, missing>>
        /\ UNCHANGED <<window, gif>> /\ UNCHANGED cmds /\ UNCHANGED frames
    BY <1>3 DEF vars
  <2>2. FramesTyped'
    BY <2>1, Whole DEF FramesTyped
  <2> QED
    BY <2>1, <2>2, SessionAside, WindowAside, Whole
<1> QED
  BY <1>1, <1>2, <1>3 DEF Next

\* RecordingInv holds in every state the program can reach.
LEMMA Invariant == Spec => []RecordingInv
BY InitInv, Kept, PTL DEF Spec

------------------------------------------------------------------------------

\* Every variable keeps its type and every channel its depth.
THEOREM TypeCorrect == Spec => []TypeOK
<1>1. RecordingInv => TypeOK
  BY DEF RecordingInv
<1> QED
  BY <1>1, Invariant, PTL

\* A player can show every sample of a file: each has the size in the header, and no frame it
\* depends on is missing unless a write failed.
THEOREM SamplesCanPlay == Spec => []SamplesPlay
<1>1. RecordingInv => SamplesPlay
  BY DEF RecordingInv, SamplesInv, SamplesPlay, Fits
<1> QED
  BY <1>1, Invariant, PTL

\* A saved file whose writes all worked has every frame given to it.
THEOREM SavedIsComplete == Spec => []SavedComplete
<1>1. RecordingInv => SavedComplete
  BY DEF RecordingInv
<1> QED
  BY <1>1, Invariant, PTL

\* Between its steps the session records exactly when its flag is on and the size is known.
THEOREM FlagMeansFile == Spec => []SessionRecords
<1>1. RecordingInv => SessionRecords
  BY DEF RecordingInv, FlagInv
<1> QED
  BY <1>1, Invariant, PTL

=============================================================================
