----------------------------- MODULE Recording -----------------------------
(***************************************************************************)
(* The desktop host's recordings: MP4, which the session task muxes from   *)
(* the frames it receives (crates/native/src/main.rs, Mp4Rec of            *)
(* crates/native/src/capture.rs), and GIF, which a thread encodes from the *)
(* pictures the window shows. HostSession has the threads and channels     *)
(* themselves; here the channel of DecodedMsgs carries pictures and the    *)
(* session's statuses, and the channel of NalJobs is a choice: it has room *)
(* for a frame or not.                                                     *)
(*                                                                         *)
(* A sample is whether it is a key frame, the size of its picture, and     *)
(* whether a frame it depends on is missing from the recording.            *)
(***************************************************************************)
EXTENDS Naturals, Sequences

CONSTANTS
  Sizes,      \* picture sizes
  FrameDepth, \* depth of the channel of DecodedMsgs (8)
  GifDepth,   \* depth of the channel to the GIF thread (4)
  MaxCmds,    \* bound: commands waiting in the unbounded channel
  MaxSamples  \* bound: frames given to one recording

ASSUME DepthAssumption == FrameDepth \in Nat \ {0} /\ GifDepth \in Nat \ {0}
ASSUME BoundsAssumption == MaxCmds \in Nat /\ MaxSamples \in Nat

NoSize == "no size"

ASSUME SizesAssumption == NoSize \notin Sizes

Kinds  == {"key", "delta"}
Sample == [kind: Kinds, size: Sizes \cup {NoSize}, broken: BOOLEAN]

VARIABLES
  main,         \* the main thread
  window_on,    \* App.mp4_on
  latest,       \* App.latest is Some
  gif_tx,       \* App.gif, while it holds the sender
  worker,       \* the GIF thread
  pictures,     \* number of GifFrames waiting for it
  cmds,         \* unread HostCmds
  frames,       \* DecodedMsgs waiting for the main thread
  session,      \* the session task
  codec,        \* codec of the video
  size,         \* video_cfg, its size
  on,           \* the session's mp4_on
  skip,         \* Client.skip_until_key; "asked" until the current chunk is done
  mp4,          \* the session's Mp4Rec, by its wait_idr
  pending,      \* Mp4Rec.pending
  header,       \* size in the file's header
  samples,      \* samples written
  outcome,      \* history: what became of the last recording
  given,        \* history: frames it got from its first key frame on
  missing,      \* history: a frame since the last key frame is not in the recording
  write_failed  \* history: a write to the file failed

gif    == <<gif_tx, worker, pictures>>
window == <<main, window_on, latest>>
video  == <<codec, size, skip>>
file   == <<mp4, pending, header, samples, outcome, given, write_failed>>
vars   == <<window, gif, cmds, frames, session, on, video, file, missing>>

Init ==
  /\ main = "running" /\ window_on = FALSE /\ latest = FALSE
  /\ gif_tx = FALSE /\ worker = "none" /\ pictures = 0
  /\ cmds = <<>> /\ frames = <<>>
  /\ session = "running" /\ codec \in {"h264", "h265"} /\ size = NoSize
  /\ on = FALSE /\ skip = "no"
  /\ mp4 = "none" /\ pending = <<>> /\ header = NoSize /\ samples = <<>>
  /\ outcome = "none" /\ given = 0 /\ missing = TRUE /\ write_failed = FALSE

------------------------------------------------------------------------------
(* The window. *)

\* toggle_mp4.
ToggleMp4 ==
  /\ main = "running" /\ Len(cmds) < MaxCmds
  /\ window_on' = ~window_on
  /\ cmds' = Append(cmds, IF window_on THEN "off" ELSE "on")
  /\ UNCHANGED <<main, latest, gif, frames, session, on, video, file, missing>>

\* toggle_gif without a recording; latest is needed.
StartGif ==
  /\ main = "running" /\ ~gif_tx /\ latest
  /\ gif_tx' = TRUE /\ worker' = "running" /\ pictures' = 0
  /\ UNCHANGED <<window, cmds, frames, session, on, video, file, missing>>

\* Mutant: the sender is dropped after the join.
StopGifJoinsFirst ==
  /\ main = "running" /\ gif_tx
  /\ main' = "joining"
  /\ UNCHANGED <<window_on, latest, gif, cmds, frames, session, on, video, file, missing>>

\* toggle_gif with one: stop_gif drops the sender and joins the thread.
StopGif ==
  /\ main = "running" /\ gif_tx
  /\ main' = "joining"
  /\ gif_tx' = FALSE
  /\ UNCHANGED <<window_on, latest, worker, pictures, cmds, frames, session, on, video, file, missing>>

\* CloseRequested begins with stop_gif.
CloseRequested ==
  /\ main = "running"
  /\ main' = "closing"
  /\ gif_tx' = FALSE
  /\ UNCHANGED <<window_on, latest, worker, pictures, cmds, frames, session, on, video, file, missing>>

Joined ==
  /\ worker # "running"
  /\ \/ main = "joining" /\ main' = "running" /\ UNCHANGED cmds
     \/ main = "closing" /\ main' = "wait" /\ cmds' = cmds \o <<"off", "quit">>
  /\ UNCHANGED <<window_on, latest, gif, frames, session, on, video, file, missing>>

Waiting(text) == \E i \in DOMAIN frames : frames[i] = text

\* push_gif for n of the pictures: it leaves out those that come within 90 ms of the last one
\* and those for which there is no room.
PushGif(n) ==
  /\ n > 0 => gif_tx /\ worker = "running" /\ pictures + n <= GifDepth
  /\ pictures' = pictures + n

\* RedrawRequested takes every message.
Redraw ==
  /\ main = "running" /\ frames # <<>>
  /\ frames' = <<>>
  /\ latest' = (latest \/ Waiting("frame"))
  /\ window_on' = (window_on /\ ~Waiting("mp4:"))
  /\ \E n \in 0..Len(SelectSeq(frames, LAMBDA m : m = "frame")) : PushGif(n)
  /\ UNCHANGED <<main, gif_tx, worker, cmds, session, on, video, file, missing>>

\* The session ended or 3 s are over: the process exits.
SessionWaited ==
  /\ main = "wait"
  /\ main' = "exited"
  /\ session' = "over"
  /\ outcome' = IF mp4 = "none" THEN outcome ELSE "abandoned"
  /\ UNCHANGED <<window_on, latest, gif, cmds, frames, on, video, mp4, pending, header, samples, given,
                 write_failed, missing>>

------------------------------------------------------------------------------
(* The GIF thread. *)

\* It encodes a picture, or leaves out one of another size.
GifWrites ==
  /\ worker = "running" /\ pictures > 0
  /\ pictures' = pictures - 1
  /\ UNCHANGED <<window, gif_tx, worker, cmds, frames, session, on, video, file, missing>>

\* The sender is gone and the channel drained, or the file cannot be written.
GifEnds ==
  /\ worker = "running"
  /\ \/ pictures = 0 /\ ~gif_tx
     \/ pictures > 0
  /\ worker' = "over" /\ pictures' = 0
  /\ UNCHANGED <<window, gif_tx, cmds, frames, session, on, video, file, missing>>

------------------------------------------------------------------------------
(* The recorder of the session. *)

\* Mutant: a full channel takes the message nevertheless.
StatusWithoutRoom(text) == frames' = Append(frames, text)

\* try_send on the channel to the window.
Status(text) ==
  frames' = IF Len(frames) < FrameDepth THEN Append(frames, text) ELSE frames

\* finish writes the sample that waits for its duration.
Flushed == samples \o pending

\* Mutant: the frame that waits for its duration is not written.
FinishLosesLast ==
  \/ /\ mp4 = "none"
     /\ UNCHANGED <<file, frames>>
  \/ /\ mp4 # "none"
     /\ outcome' = IF samples # <<>> THEN "saved" ELSE "failed"
     /\ mp4' = "none" /\ pending' = <<>>
     /\ Status(IF samples # <<>> THEN "saved" ELSE "mp4:")
     /\ UNCHANGED <<header, samples, given, write_failed>>

\* finish_mp4: saved, or a file without samples or one that cannot be completed. Without a
\* recorder, nothing.
Finish ==
  \/ /\ mp4 = "none"
     /\ UNCHANGED <<file, frames>>
  \/ /\ mp4 # "none" /\ Flushed # <<>>
     /\ samples' = Flushed /\ outcome' = "saved"
     /\ mp4' = "none" /\ pending' = <<>>
     /\ Status("saved")
     /\ UNCHANGED <<header, given, write_failed>>
  \/ /\ mp4 # "none"
     /\ outcome' = "failed"
     /\ mp4' = "none" /\ pending' = <<>>
     /\ Status("mp4:")
     /\ UNCHANGED <<header, samples, given, write_failed>>

\* open_mp4 with the parameters of a Configure, in a session whose flag is on; if it fails
\* the flag goes off.
OpenMp4(width) ==
  \/ /\ codec = "h264"
     /\ mp4' = "waiting" /\ pending' = <<>> /\ header' = width /\ samples' = <<>>
     /\ outcome' = "open" /\ given' = 0 /\ write_failed' = FALSE
     /\ on' = TRUE
     /\ UNCHANGED frames
  \/ /\ on' = FALSE
     /\ Status("mp4:")
     /\ UNCHANGED file

TakeCmd ==
  /\ session = "running" /\ skip # "asked" /\ cmds # <<>>
  /\ cmds' = Tail(cmds)
  /\ \/ /\ Head(cmds) = "on" /\ mp4 = "none" /\ size # NoSize
        /\ OpenMp4(size)
        /\ UNCHANGED session
     \/ /\ Head(cmds) = "on" /\ (mp4 # "none" \/ size = NoSize)
        /\ on' = TRUE
        /\ UNCHANGED <<file, frames, session>>
     \/ /\ Head(cmds) = "off"
        /\ on' = FALSE
        /\ Finish
        /\ UNCHANGED session
     \/ /\ Head(cmds) = "quit"
        /\ session' = "over"
        /\ Finish
        /\ UNCHANGED on
  /\ UNCHANGED <<window, gif, video, missing>>

\* A read or a write of the stream fails: `?` leaves the session without finish_mp4. An
\* empty chunk ends it in order.
LinkFails ==
  /\ session = "running" /\ skip # "asked"
  /\ session' = "over"
  /\ \/ Finish
     \/ /\ outcome' = IF mp4 = "none" THEN outcome ELSE "abandoned"
        /\ mp4' = "none" /\ pending' = <<>>
        /\ UNCHANGED <<header, samples, given, write_failed, frames>>
  /\ UNCHANGED <<window, gif, cmds, on, video, missing>>

------------------------------------------------------------------------------
(* What the video stream brings. *)

\* The chunk is done; the next one is decoded with the skip.
NextRead ==
  /\ session = "running" /\ skip = "asked"
  /\ skip' = "yes"
  /\ UNCHANGED <<window, gif, cmds, frames, session, on, codec, size, file, missing>>

\* Mutant: the recording goes on with frames of another size.
ConfigureKeepsFile(width) ==
  /\ session = "running"
  /\ session' = "configuring"
  /\ size' = width
  /\ UNCHANGED <<window, gif, cmds, frames, on, codec, skip, file, missing>>

\* Out::Configure: a change of size ends the recording there is, Configured takes it up again
\* in a new file.
Configure(width) ==
  /\ session = "running"
  /\ session' = "configuring"
  /\ size' = width
  /\ IF size # width THEN Finish ELSE UNCHANGED <<file, frames>>
  /\ UNCHANGED <<window, gif, cmds, on, codec, skip, missing>>

\* Mutant: the recording is not taken up again.
ConfiguredOnly ==
  /\ session = "configuring"
  /\ session' = "running"
  /\ UNCHANGED <<file, on, frames, window, gif, cmds, video, missing>>

\* Without a recorder, a session whose flag is on opens one.
Configured ==
  /\ session = "configuring"
  /\ session' = "running"
  /\ IF on /\ mp4 = "none" THEN OpenMp4(size) ELSE UNCHANGED <<file, on, frames>>
  /\ UNCHANGED <<window, gif, cmds, video, missing>>

\* Client::on_bytes leaves out delta frames while it skips.
FrameSkipped ==
  /\ session = "running" /\ skip = "yes"
  /\ missing' = TRUE
  /\ UNCHANGED <<window, gif, cmds, frames, session, on, video, file>>

\* The recorder takes a frame: from the first key frame on, every one.
Takes(kind) == mp4 = "recording" \/ (mp4 = "waiting" /\ kind = "key")

\* Mp4Rec::push writes the frame before this one, whose duration is known now. When that
\* fails both are lost, and the recording goes on.
Push(kind) ==
  /\ Takes(kind)
  /\ mp4' = "recording"
  /\ given' = given + 1
  /\ \/ /\ samples' = Flushed
        /\ missing' = (missing /\ kind = "delta")
        /\ pending' = <<[kind |-> kind, size |-> size, broken |-> missing']>>
        /\ UNCHANGED write_failed
     \/ /\ pending # <<>>
        /\ pending' = <<>> /\ write_failed' = TRUE /\ missing' = TRUE
        /\ UNCHANGED samples
  /\ UNCHANGED <<header, outcome>>

\* Out::Frame: a key frame ends the skip; the frame goes to the recorder and to the decoder,
\* which may have no room for it.
Frame(kind) ==
  /\ session = "running" /\ size # NoSize
  /\ skip = "yes" => kind = "key"
  /\ \/ Push(kind)
     \/ ~Takes(kind) /\ missing' = TRUE /\ UNCHANGED file
  /\ \E room \in BOOLEAN :
       skip' = CASE ~room -> "asked" [] room /\ skip = "yes" -> "no" [] OTHER -> skip
  /\ UNCHANGED <<window, gif, cmds, frames, session, on, codec, size>>

\* decode_thread sends a picture. The Size messages of the session take room as well.
PictureComes ==
  /\ main # "exited" /\ Len(frames) < FrameDepth
  /\ frames' = Append(frames, "frame")
  /\ UNCHANGED <<window, gif, cmds, session, on, video, file, missing>>

Window  == ToggleMp4 \/ StartGif \/ StopGif \/ CloseRequested \/ Joined \/ Redraw \/ SessionWaited
Session ==
  \/ TakeCmd \/ LinkFails \/ NextRead \/ Configured \/ FrameSkipped
  \/ \E width \in Sizes : Configure(width)
  \/ \E kind \in Kinds : (Takes(kind) => given < MaxSamples) /\ Frame(kind)
Worker  == GifWrites \/ GifEnds

Next == Window \/ Session \/ Worker \/ PictureComes

Spec == Init /\ [][Next]_vars

\* The GIF thread runs, and a join returns once its thread is over. Neither the user, nor the
\* device, nor the session is fair.
FairSpec == Spec /\ WF_vars(Worker) /\ WF_vars(Joined)

------------------------------------------------------------------------------
(* What must hold. *)

\* Every variable has a value of its type and the channels keep their depth.
TypeOK ==
  /\ main \in {"running", "joining", "closing", "wait", "exited"}
  /\ window_on \in BOOLEAN /\ latest \in BOOLEAN
  /\ gif_tx \in BOOLEAN /\ worker \in {"none", "running", "over"} /\ pictures \in 0..GifDepth
  /\ cmds \in Seq({"on", "off", "quit"}) /\ Len(cmds) <= MaxCmds + 2
  /\ frames \in Seq({"frame", "saved", "mp4:"}) /\ Len(frames) <= FrameDepth
  /\ session \in {"running", "configuring", "over"}
  /\ codec \in {"h264", "h265"} /\ size \in Sizes \cup {NoSize}
  /\ on \in BOOLEAN /\ skip \in {"no", "asked", "yes"}
  /\ mp4 \in {"none", "waiting", "recording"}
  /\ pending \in Seq(Sample) /\ Len(pending) <= 1
  /\ header \in Sizes \cup {NoSize} /\ samples \in Seq(Sample)
  /\ outcome \in {"none", "open", "saved", "failed", "abandoned"}
  /\ given \in 0..MaxSamples /\ missing \in BOOLEAN /\ write_failed \in BOOLEAN

\* A player can show every sample of a file. Its size is the one in the header, fixed when the
\* file is opened: a rotation of the device starts a new file. And, if all writes worked, no
\* frame it depends on was left out by the wait for a key frame, by the skip of
\* Client::on_bytes after the decoder had no room, or by the change from one file to the next.
SamplesPlay ==
  \A i \in DOMAIN samples :
    samples[i].size = header /\ (samples[i].broken => write_failed)

\* A saved file whose writes all worked has every frame that came from its first key frame on,
\* the one that was still waiting for its duration included.
SavedComplete == outcome = "saved" /\ ~write_failed => Len(samples) = given

\* Between its steps the session records exactly when its flag is on and the size of the video
\* is known: a rotation, a failed start or a toggle before the first Configure leaves neither a
\* flag without a file nor a file without a flag.
SessionRecords ==
  session = "running" => (mp4 # "none" <=> on /\ size # NoSize)

\* stop_gif joins a thread that may hold pictures or be blocked in recv: it always comes back,
\* for a click on the toolbar as for the closing of the window.
JoinReturns == main \in {"joining", "closing"} ~> main \notin {"joining", "closing"}

=============================================================================
