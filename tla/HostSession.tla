----------------------------- MODULE HostSession -----------------------------
(***************************************************************************)
(* The desktop host's pipeline, crates/native/src/main.rs: the winit main  *)
(* thread, the tokio task session, the decode thread, and the two bounded  *)
(* std channels between them; with the keyframe skip of                    *)
(* crates/client/src/lib.rs and the recovery of crates/native/src/         *)
(* decode.rs. The stream calls it makes return (AdbClient!CallsReturn).    *)
(*                                                                         *)
(* The model has no counters: the device streams for ever. A frame is its  *)
(* kind and two facts about its past: the configuration it was encoded     *)
(* under, as a version number modulo 2, and whether a frame it depends on  *)
(* was dropped on its way to the decoder, in the chunk that brought it or  *)
(* in an earlier one.                                                      *)
(***************************************************************************)
EXTENDS Naturals, Sequences, FiniteSets

CONSTANTS
  NalDepth,    \* depth of the channel of NalJobs (8)
  FrameDepth,  \* depth of the channel of DecodedMsgs (8)
  MaxChunk,    \* bound: messages decoded from one read
  MaxCmds      \* bound: commands waiting in the unbounded channel

ASSUME DepthAssumption == NalDepth \in Nat \ {0} /\ FrameDepth \in Nat \ {0}
ASSUME BoundsAssumption == MaxChunk \in Nat \ {0} /\ MaxCmds \in Nat \ {0}

Gap == {"none", "chunk", "earlier"}
Job == [kind: {"configure", "key", "delta"}, version: {0, 1}, gap: Gap]

Chunks == UNION {[1..k -> {"configure", "key", "delta"}] : k \in 1..MaxChunk}

VARIABLES
  main,       \* the main thread: its event loop, then the end of main()
  cmds,       \* unread HostCmds
  incoming,   \* a chunk is waiting in the video stream
  session,    \* where the session task is
  events,     \* events of the current chunk the session has not handled
  skip,       \* Client.skip_until_key
  nals,       \* NalJobs waiting for the decode thread
  decoder,    \* the decode thread
  wait_idr,   \* OpenH264Decoder.wait_idr
  frames,     \* number of DecodedMsgs waiting for the main thread
  gap,        \* history: is a frame since the last key frame missing?
  version,    \* history: version of the last Configure the session handled
  configured  \* history: version of the last Configure the decoder handled

host == <<main, cmds>>
task == <<session, events, skip, gap, version>>
vars == <<host, incoming, task, nals, decoder, wait_idr, frames, configured>>

Init ==
  /\ main = "running" /\ cmds = <<>>
  /\ incoming = FALSE
  /\ session = "select" /\ events = <<>> /\ skip = FALSE
  /\ nals = <<>> /\ decoder = "receive" /\ wait_idr = FALSE
  /\ frames = 0
  /\ gap = "none" /\ version = 0 /\ configured = 0

\* Both ends of a channel are what the holder's state says they are.
AppDropped      == main \in {"drop_runtime", "exited"}
SessionOver     == session = "over"
DecoderOver     == decoder = "over"

------------------------------------------------------------------------------
(* The main thread. *)

UserActs ==
  /\ main = "running"
  /\ Len(cmds) < MaxCmds
  /\ cmds' = Append(cmds, "input")
  /\ UNCHANGED <<main, incoming, task, nals, decoder, wait_idr, frames, configured>>

\* RedrawRequested: every waiting message is taken.
Redraw ==
  /\ main = "running"
  /\ frames > 0
  /\ frames' = 0
  /\ UNCHANGED <<host, incoming, task, nals, decoder, wait_idr, configured>>

CloseRequested ==
  /\ main = "running"
  /\ main' = "wait_session"
  /\ cmds' = Append(cmds, "quit")
  /\ UNCHANGED <<incoming, task, nals, decoder, wait_idr, frames, configured>>

\* Mutant: the runtime is dropped while the App, declared after it, still holds frame_rx.
SessionWaitedRuntimeFirst ==
  /\ main = "wait_session"
  /\ session \notin {"events", "send"}
  /\ main' = "exited"
  /\ UNCHANGED <<cmds, incoming, task, nals, decoder, wait_idr, frames, configured>>

\* The session ended or 3 s are over; the App is dropped, and its channel ends with it.
SessionWaited ==
  /\ main = "wait_session"
  /\ main' = "drop_runtime"
  /\ UNCHANGED <<cmds, incoming, task, nals, decoder, wait_idr, frames, configured>>

\* Dropping the runtime waits for a task until it reaches an await.
DropRuntime ==
  /\ main = "drop_runtime"
  /\ session \notin {"events", "send"}
  /\ main' = "exited"
  /\ session' = "over"
  /\ UNCHANGED <<cmds, incoming, events, skip, gap, version, nals, decoder, wait_idr, frames, configured>>

------------------------------------------------------------------------------
(* The session task. *)

ChunkArrives ==
  /\ ~incoming
  /\ main # "exited" /\ ~SessionOver
  /\ incoming' = TRUE
  /\ UNCHANGED <<host, task, nals, decoder, wait_idr, frames, configured>>

\* Mutant: the unbiased order, with the stream read first.
SelectsCmdLast == cmds # <<>> /\ ~incoming

\* `biased`: a command is taken before a chunk.
SelectsCmd == cmds # <<>>

EndSession(how) == session' = how /\ UNCHANGED <<events, skip, gap, version>>

TakeCmd ==
  /\ session = "select"
  /\ SelectsCmd
  /\ cmds' = Tail(cmds)
  /\ EndSession(IF Head(cmds) = "quit" THEN "close" ELSE "write")
  /\ UNCHANGED <<main, incoming, nals, decoder, wait_idr, frames, configured>>

\* write_stream returned; an error ends the session, which does not close the stream.
WriteReturns ==
  /\ session = "write"
  /\ \E how \in {"select", "over"} : EndSession(how)
  /\ UNCHANGED <<host, incoming, nals, decoder, wait_idr, frames, configured>>

CloseReturns ==
  /\ session = "close"
  /\ EndSession("over")
  /\ UNCHANGED <<host, incoming, nals, decoder, wait_idr, frames, configured>>

\* The chunk's first key frame is its k-th message, or it has none and k is past its end.
FirstKey(chunk, k) ==
  /\ k <= Len(chunk) => chunk[k] = "key"
  /\ \A i \in 1..(k - 1) : chunk[i] # "key"

\* Client.apply_message on the messages of one chunk: while skip is set, deltas are left
\* out up to the first key frame, which clears it; so only Configures remain before it.
Configures(chunk, k) ==
  [i \in 1..Cardinality({i \in 1..(k - 1) : chunk[i] = "configure"}) |-> "configure"]
Kept(chunk, k)    == IF skip THEN Configures(chunk, k) \o SubSeq(chunk, k, Len(chunk)) ELSE chunk
Skipped(chunk, k) == skip /\ \E i \in 1..(k - 1) : chunk[i] = "delta"

\* on_bytes decodes the whole chunk before the first of its events is handled.
ReadChunk(chunk) ==
  /\ session = "select"
  /\ incoming /\ ~SelectsCmd
  /\ incoming' = FALSE
  /\ \E k \in 1..(Len(chunk) + 1) :
       /\ FirstKey(chunk, k)
       /\ skip' = (skip /\ k > Len(chunk))
       /\ events' = Kept(chunk, k)
       /\ gap' = IF Skipped(chunk, k) THEN "earlier" ELSE gap
  /\ session' = "events"
  /\ UNCHANGED <<host, version, nals, decoder, wait_idr, frames, configured>>

\* An error ends the session at once; an empty chunk ends it by closing the stream.
ReadFails ==
  /\ session = "select"
  /\ ~SelectsCmd
  /\ \E how \in {"over", "close"} : EndSession(how)
  /\ UNCHANGED <<host, incoming, nals, decoder, wait_idr, frames, configured>>

ChunkDone ==
  /\ session = "events" /\ events = <<>>
  /\ session' = "select"
  /\ gap' = IF gap = "chunk" THEN "earlier" ELSE gap
  /\ UNCHANGED <<host, incoming, events, skip, version, nals, decoder, wait_idr, frames, configured>>

NewVersion == IF Head(events) = "configure" THEN 1 - version ELSE version
NewGap     == IF Head(events) = "key" THEN "none" ELSE gap
NextJob    == [kind |-> Head(events), version |-> NewVersion, gap |-> NewGap]

\* Mutant: configurations are queued like any frame.
ImportantKeys(kind) == kind = "key"

\* enqueue waits for room for these.
Important(kind) == kind \in {"configure", "key"}

\* Mutant: the Size message is posted without looking for room.
PostSizeAlways == frames' = IF Head(events) = "configure" THEN frames + 1 ELSE frames

\* Configure also posts a Size message if there is room for one.
PostSize ==
  frames' = IF Head(events) = "configure" /\ frames < FrameDepth /\ ~AppDropped
            THEN frames + 1 ELSE frames

Handled ==
  /\ events' = Tail(events)
  /\ version' = NewVersion

Queued ==
  /\ Handled
  /\ nals' = Append(nals, NextJob)
  /\ gap' = NewGap
  /\ session' = "events"
  /\ UNCHANGED skip

\* Mutant: the session does not ask for the skip.
LostQuietly ==
  /\ Handled
  /\ gap' = IF Head(events) = "configure" \/ gap # "none" THEN gap ELSE "chunk"
  /\ session' = "events"
  /\ UNCHANGED <<nals, skip>>

\* enqueue returned false: request_keyframe_skip, unless it was a Configure.
Lost ==
  /\ Handled
  /\ skip' = (skip \/ Head(events) # "configure")
  /\ gap' = IF Head(events) = "configure" \/ gap # "none" THEN gap ELSE "chunk"
  /\ session' = "events"
  /\ UNCHANGED nals

Enqueue ==
  /\ session = "events" /\ events # <<>>
  /\ \/ ~DecoderOver /\ Len(nals) < NalDepth /\ Queued /\ PostSize
     \/ DecoderOver /\ Lost /\ PostSize
     \/ /\ ~DecoderOver /\ Len(nals) = NalDepth /\ ~Important(Head(events))
        /\ Lost /\ PostSize
     \/ /\ ~DecoderOver /\ Len(nals) = NalDepth /\ Important(Head(events))
        /\ session' = "send"
        /\ PostSize
        /\ UNCHANGED <<events, skip, gap, version, nals>>
  /\ UNCHANGED <<host, incoming, decoder, wait_idr, configured>>

\* The blocking tx.send of enqueue, inside the async task.
SendReturns ==
  /\ session = "send"
  /\ \/ ~DecoderOver /\ Len(nals) < NalDepth /\ Queued
     \/ DecoderOver /\ Lost
  /\ UNCHANGED <<host, incoming, decoder, wait_idr, frames, configured>>

------------------------------------------------------------------------------
(* The decode thread; it ends with the process. *)

DecodeJob ==
  /\ main # "exited" /\ decoder = "receive"
  /\ nals # <<>>
  /\ nals' = Tail(nals)
  /\ LET job == Head(nals) IN
       \/ /\ job.kind = "configure"
          /\ configured' = job.version
          /\ wait_idr' = FALSE
          /\ UNCHANGED decoder
       \/ /\ job.kind = "delta" /\ wait_idr
          /\ UNCHANGED <<decoder, wait_idr, configured>>
       \/ /\ job.kind = "key" \/ (job.kind = "delta" /\ ~wait_idr)
          /\ \/ decoder' = "send" /\ wait_idr' = FALSE       \* a picture
             \/ UNCHANGED decoder /\ wait_idr' \in {wait_idr, TRUE}  \* none yet, or an error
          /\ UNCHANGED configured
  /\ UNCHANGED <<host, incoming, task, frames>>

\* A full channel makes the thread wait; a dropped one ends it.
SendFrame ==
  /\ main # "exited" /\ decoder = "send"
  /\ \/ ~AppDropped /\ frames < FrameDepth /\ frames' = frames + 1 /\ decoder' = "receive"
     \/ AppDropped /\ decoder' = "over" /\ UNCHANGED frames
  /\ UNCHANGED <<host, incoming, task, nals, wait_idr, configured>>

\* The session's sender is gone and the channel is drained.
DecoderEnds ==
  /\ main # "exited" /\ decoder = "receive"
  /\ nals = <<>> /\ SessionOver
  /\ decoder' = "over"
  /\ UNCHANGED <<host, incoming, task, nals, wait_idr, frames, configured>>

MainSteps    == Redraw \/ SessionWaited \/ DropRuntime
SessionSteps == TakeCmd \/ WriteReturns \/ CloseReturns \/ ChunkDone \/ Enqueue \/ SendReturns
DecodeSteps  == DecodeJob \/ SendFrame \/ DecoderEnds

Next ==
  \/ UserActs \/ CloseRequested \/ ChunkArrives
  \/ MainSteps \/ SessionSteps \/ DecodeSteps
  \/ \E chunk \in Chunks : ReadChunk(chunk)
  \/ ReadFails

Spec == Init /\ [][Next]_vars

(***************************************************************************)
(* The threads keep running, winit redraws continually (about_to_wait asks *)
(* for the next redraw), awaited stream calls return and the 3 s timer     *)
(* fires. No chunk and no user action has to come.                         *)
(***************************************************************************)
FairSpec == Spec /\ WF_vars(MainSteps) /\ WF_vars(SessionSteps) /\ WF_vars(DecodeSteps)

------------------------------------------------------------------------------
(* Properties. *)

\* Every variable holds a value of its type, the channels within their depths.
TypeOK ==
  /\ main \in {"running", "wait_session", "drop_runtime", "exited"}
  /\ cmds \in Seq({"input", "quit"})
  /\ incoming \in BOOLEAN
  /\ session \in {"select", "write", "close", "events", "send", "over"}
  /\ events \in Seq({"configure", "key", "delta"})
  /\ skip \in BOOLEAN
  /\ nals \in Seq(Job) /\ Len(nals) <= NalDepth
  /\ decoder \in {"receive", "send", "over"} /\ wait_idr \in BOOLEAN
  /\ frames \in 0..FrameDepth
  /\ gap \in Gap /\ version \in {0, 1} /\ configured \in {0, 1}

\* A delta whose reference was dropped in an earlier chunk never reaches the decoder: the
\* skip holds from one read to the next until a key frame.
GapEndsWithChunk == \A i \in 1..Len(nals) : nals[i].kind = "delta" => nals[i].gap # "earlier"

\* Each frame is decoded under the configuration it was encoded with: no Configure is lost
\* or overtaken on its way to the decoder, however full the channels are.
FrameMeetsItsConfigure ==
  nals # <<>> /\ Head(nals).kind # "configure" => Head(nals).version = configured

\* Closing the window ends the process, even with every queue full and the session
\* blocked in a send: no thread waits for one that waits for it.
ProcessExits == main = "wait_session" ~> main = "exited"

\* User input is acted on while the window is open, however fast video arrives.
InputServed == main = "running" /\ cmds # <<>> ~> session \in {"write", "close", "over"} \/ main # "running"

=============================================================================
