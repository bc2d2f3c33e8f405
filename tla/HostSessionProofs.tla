------------------------- MODULE HostSessionProofs -------------------------
(***************************************************************************)
(* Proofs about HostSession: that each frame meets the configuration it    *)
(* was encoded with, and that no delta reaches the decoder whose reference *)
(* an earlier chunk has lost, for all depths and all lengths of a chunk.   *)
(***************************************************************************)
EXTENDS HostSession, FiniteSetTheorems, TLAPS

Kind == {"configure", "key", "delta"}

\* The configuration job i of the queue finds at the decoder.
VersionAt(i) == IF i = 1 THEN configured ELSE nals[i - 1].version

\* The versions of the queue follow from the decoder's, and while the decoder lives the
\* session's follows from theirs.
ChainInv ==
  /\ \A i \in 1..Len(nals) : nals[i].kind # "configure" => nals[i].version = VersionAt(i)
  /\ decoder # "over" =>
       version = IF nals = <<>> THEN configured ELSE nals[Len(nals)].version

\* Only a chunk at hand has events.
EventsInv == session \in {"select", "write", "close"} => events = <<>>

\* As long as the decoder lives, a gap of the current chunk has asked for the skip, and a gap
\* of an earlier one either still has it or has the key frame among the events, with no delta
\* before it.
GapInv ==
  decoder # "over" =>
    /\ gap = "chunk" => skip /\ session \in {"events", "send"}
    /\ gap = "earlier" =>
         /\ skip \/ \E j \in 1..Len(events) : events[j] = "key"
         /\ \A i \in 1..Len(events) :
              events[i] = "delta" => \E j \in 1..(i - 1) : events[j] = "key"

\* The session waits in a send for what has to be sent, and a session that is over stays so.
SendInv == session = "send" => events # <<>> /\ Important(Head(events))

SessionInv == TypeOK /\ GapEndsWithChunk /\ ChainInv /\ EventsInv /\ GapInv /\ SendInv

------------------------------------------------------------------------------
(* The parts of the type invariant by who changes them. *)

MainTyped ==
  /\ main \in {"running", "wait_session", "drop_runtime", "exited"}
  /\ cmds \in Seq({"input", "quit"})
  /\ incoming \in BOOLEAN
  /\ frames \in 0..FrameDepth

TaskTyped ==
  /\ session \in {"select", "write", "close", "events", "send", "over"}
  /\ events \in Seq(Kind)
  /\ skip \in BOOLEAN
  /\ gap \in Gap /\ version \in {0, 1}

DecoderTyped ==
  /\ nals \in Seq(Job) /\ Len(nals) <= NalDepth
  /\ decoder \in {"receive", "send", "over"} /\ wait_idr \in BOOLEAN
  /\ configured \in {0, 1}

\* The parts together, before and after a step.
LEMMA Whole ==
  /\ SessionInv <=>
       /\ MainTyped /\ TaskTyped /\ DecoderTyped
       /\ GapEndsWithChunk /\ ChainInv /\ EventsInv /\ GapInv /\ SendInv
  /\ SessionInv' <=>
       /\ MainTyped' /\ TaskTyped' /\ DecoderTyped'
       /\ GapEndsWithChunk' /\ ChainInv' /\ EventsInv' /\ GapInv' /\ SendInv'
BY DEF SessionInv, TypeOK, MainTyped, TaskTyped, DecoderTyped, Kind

LEMMA InitInv == Init => SessionInv
<1> SUFFICES ASSUME Init PROVE SessionInv
  OBVIOUS
<1>1. MainTyped
  <2>1. frames \in 0..FrameDepth /\ cmds \in Seq({"input", "quit"})
    BY DepthAssumption DEF Init
  <2>2. incoming \in BOOLEAN /\ main = "running"
    BY DEF Init
  <2> QED
    BY <2>1, <2>2 DEF MainTyped
<1>2. TaskTyped /\ DecoderTyped
  <2>1. skip \in BOOLEAN /\ wait_idr \in BOOLEAN
    BY DEF Init
  <2>2. events \in Seq(Kind) /\ nals \in Seq(Job) /\ Len(nals) <= NalDepth
    BY DepthAssumption DEF Init
  <2>3. TaskTyped
    BY <2>1, <2>2 DEF Init, TaskTyped, Gap
  <2>4. DecoderTyped
    BY <2>1, <2>2 DEF Init, DecoderTyped
  <2> QED
    BY <2>3, <2>4
<1>3. GapEndsWithChunk /\ ChainInv
  BY DEF Init, GapEndsWithChunk, ChainInv
<1>4. EventsInv /\ GapInv /\ SendInv
  BY DEF Init, EventsInv, GapInv, SendInv
<1> QED
  BY <1>1, <1>2, <1>3, <1>4, Whole

\* A step that leaves the queue, the decoder and the versions alone.
LEMMA DecoderAside ==
  ASSUME SessionInv, UNCHANGED <<nals, decoder, wait_idr, configured, version>>
  PROVE  DecoderTyped' /\ GapEndsWithChunk' /\ ChainInv'
<1>1. DecoderTyped' /\ GapEndsWithChunk'
  BY Whole DEF DecoderTyped, GapEndsWithChunk
<1>2. ChainInv'
  BY Whole DEF ChainInv, VersionAt
<1> QED
  BY <1>1, <1>2

\* A step that leaves the task alone, and a decoder that is over over.
LEMMA TaskAside ==
  ASSUME SessionInv, UNCHANGED <<session, events, skip, gap, version>>,
         decoder = "over" => decoder' = "over"
  PROVE  TaskTyped' /\ EventsInv' /\ GapInv' /\ SendInv'
<1>1. TaskTyped' /\ EventsInv' /\ GapInv'
  BY Whole DEF TaskTyped, EventsInv, GapInv
<1>2. SendInv'
  BY Whole DEF SendInv, Important
<1> QED
  BY <1>1, <1>2

------------------------------------------------------------------------------
(* The steps of the main thread and of the stream. *)

LEMMA MainKeeps ==
  ASSUME SessionInv,
         UserActs \/ CloseRequested \/ ChunkArrives \/ MainSteps
  PROVE  SessionInv'
<1>0. MainTyped /\ TaskTyped
  BY Whole
<1>1. CASE UserActs \/ CloseRequested \/ ChunkArrives \/ Redraw \/ SessionWaited
  <2>1. UNCHANGED <<task, nals, decoder, wait_idr, configured>>
    BY <1>1 DEF UserActs, CloseRequested, ChunkArrives, Redraw, SessionWaited
  <2>2. MainTyped'
    <3>1. CASE UserActs
      BY <1>0, <3>1 DEF UserActs, MainTyped
    <3>2. CASE CloseRequested
      BY <1>0, <3>2 DEF CloseRequested, MainTyped
    <3>3. CASE ChunkArrives
      <4>1. incoming' \in BOOLEAN
        BY <3>3 DEF ChunkArrives
      <4> QED
        BY <1>0, <3>3, <4>1 DEF ChunkArrives, MainTyped, host
    <3>4. CASE Redraw
      BY <1>0, <3>4, DepthAssumption DEF Redraw, MainTyped, host
    <3>5. CASE SessionWaited
      BY <1>0, <3>5 DEF SessionWaited, MainTyped
    <3> QED
      BY <1>1, <3>1, <3>2, <3>3, <3>4, <3>5
  <2>3. UNCHANGED <<session, events, skip, gap, version>>
    BY <2>1 DEF task
  <2> QED
    BY <2>1, <2>2, <2>3, DecoderAside, TaskAside, Whole
<1>2. CASE DropRuntime
  <2>1. /\ main' = "exited" /\ session' = "over" /\ session \notin {"events", "send"}
        /\ UNCHANGED <<cmds, incoming, events, skip, gap, version, nals, decoder, wait_idr, frames,
                       configured>>
    BY <1>2 DEF DropRuntime
  <2>2. MainTyped' /\ TaskTyped'
    BY <1>0, <2>1 DEF MainTyped, TaskTyped
  <2>3. EventsInv' /\ GapInv' /\ SendInv'
    BY <2>1, Whole DEF EventsInv, GapInv, SendInv
  <2> QED
    BY <2>1, <2>2, <2>3, DecoderAside, Whole
<1> QED
  BY <1>1, <1>2 DEF MainSteps

------------------------------------------------------------------------------
(* The session: its commands, and the end of its stream. *)

\* A step of the task between two chunks.
LEMMA IdleKeeps ==
  ASSUME SessionInv, TakeCmd \/ WriteReturns \/ CloseReturns \/ ReadFails
  PROVE  SessionInv'
<1>0. MainTyped /\ TaskTyped
  BY Whole
<1>1. /\ session \in {"select", "write", "close"}
      /\ session' \in {"select", "write", "close", "over"}
      /\ UNCHANGED <<main, incoming, events, skip, gap, version>>
      /\ UNCHANGED <<nals, decoder, wait_idr, frames, configured>>
  BY DEF TakeCmd, WriteReturns, CloseReturns, ReadFails, EndSession, host
<1>2. MainTyped'
  <2>1. cmds' \in Seq({"input", "quit"})
    <3>1. CASE TakeCmd
      BY <1>0, <3>1 DEF TakeCmd, SelectsCmd, MainTyped
    <3>2. CASE WriteReturns \/ CloseReturns \/ ReadFails
      BY <1>0, <3>2 DEF WriteReturns, CloseReturns, ReadFails, MainTyped, host
    <3> QED
      BY <3>1, <3>2
  <2> QED
    BY <1>0, <1>1, <2>1 DEF MainTyped
<1>3. TaskTyped'
  BY <1>0, <1>1 DEF TaskTyped
<1>4. EventsInv' /\ GapInv' /\ SendInv'
  BY <1>1, Whole DEF EventsInv, GapInv, SendInv
<1> QED
  BY <1>1, <1>2, <1>3, <1>4, DecoderAside, Whole

\* The end of a chunk: its events are handled, and its gap becomes an earlier one.
LEMMA ChunkDoneKeeps ==
  ASSUME SessionInv, ChunkDone
  PROVE  SessionInv'
<1>0. MainTyped /\ TaskTyped
  BY Whole
<1>1. /\ session = "events" /\ events = <<>> /\ session' = "select"
      /\ gap' = IF gap = "chunk" THEN "earlier" ELSE gap
      /\ UNCHANGED <<host, incoming, events, skip, version, nals, decoder, wait_idr, frames,
                     configured>>
  BY DEF ChunkDone
<1>2. MainTyped' /\ TaskTyped'
  BY <1>0, <1>1 DEF MainTyped, TaskTyped, host, Gap
<1>3. EventsInv' /\ SendInv'
  BY <1>1 DEF EventsInv, SendInv
<1>4. GapInv'
  BY <1>0, <1>1, Whole DEF GapInv, TaskTyped, Gap
<1> QED
  BY <1>1, <1>2, <1>3, <1>4, DecoderAside, Whole

------------------------------------------------------------------------------
(* The session: a chunk. *)

\* What a chunk leaves of itself under the skip: the key frame, if there is one, comes before
\* every delta.
LEMMA KeptBegins ==
  ASSUME skip, NEW chunk \in Seq(Kind), NEW k \in 1..(Len(chunk) + 1), FirstKey(chunk, k)
  PROVE  /\ Kept(chunk, k) \in Seq(Kind)
         /\ k <= Len(chunk) => \E j \in 1..Len(Kept(chunk, k)) : Kept(chunk, k)[j] = "key"
         /\ \A i \in 1..Len(Kept(chunk, k)) :
              Kept(chunk, k)[i] = "delta" => \E j \in 1..(i - 1) : Kept(chunk, k)[j] = "key"
<1> DEFINE n    == Cardinality({i \in 1..(k - 1) : chunk[i] = "configure"})
           rest == SubSeq(chunk, k, Len(chunk))
           kept == Configures(chunk, k) \o rest
<1>1. n \in Nat
  <2>1. IsFiniteSet(1..(k - 1))
    BY FS_Interval
  <2>2. {i \in 1..(k - 1) : chunk[i] = "configure"} \in SUBSET (1..(k - 1))
    OBVIOUS
  <2> QED
    BY <2>1, <2>2, FS_Subset, FS_CardinalityType
<1>2. /\ Configures(chunk, k) \in Seq(Kind) /\ Len(Configures(chunk, k)) = n
      /\ \A i \in 1..n : Configures(chunk, k)[i] = "configure"
  <2>1. Configures(chunk, k) = [i \in 1..n |-> "configure"]
    BY DEF Configures
  <2> HIDE DEF n
  <2>2. [i \in 1..n |-> "configure"] \in [1..n -> Kind]
    BY DEF Kind
  <2> QED
    BY <1>1, <2>1, <2>2
<1>3. /\ rest \in Seq(Kind) /\ Len(rest) = Len(chunk) - k + 1
      /\ \A i \in 1..Len(rest) : rest[i] = chunk[k + i - 1]
  <2>1. CASE k <= Len(chunk)
    <3>1. rest = [i \in 1..(Len(chunk) - k + 1) |-> chunk[k + i - 1]]
      BY <2>1
    <3>2. ASSUME NEW i \in 1..(Len(chunk) - k + 1) PROVE chunk[k + i - 1] \in Kind
      BY <2>1
    <3>3. Len(chunk) - k + 1 \in Nat
      BY <2>1
    <3> HIDE DEF rest
    <3> QED
      BY <3>1, <3>2, <3>3
  <2>2. CASE k = Len(chunk) + 1
    BY <2>2
  <2> QED
    BY <2>1, <2>2
<1> HIDE DEF n, rest
<1>4. /\ kept \in Seq(Kind) /\ Len(kept) = n + Len(chunk) - k + 1
      /\ \A i \in 1..Len(kept) : kept[i] = IF i <= n THEN "configure" ELSE chunk[k + (i - n) - 1]
  <2> DEFINE before == Configures(chunk, k)
  <2>1. kept \in Seq(Kind) /\ Len(kept) = n + Len(rest)
    <3>1. before \in Seq(Kind) /\ Len(before) = n /\ rest \in Seq(Kind)
      BY <1>2, <1>3
    <3> HIDE DEF before
    <3>2. before \o rest \in Seq(Kind) /\ Len(before \o rest) = Len(before) + Len(rest)
      BY <3>1
    <3> QED
      BY <3>1, <3>2 DEF before
  <2>2. ASSUME NEW i \in 1..Len(kept)
        PROVE  kept[i] = IF i <= n THEN "configure" ELSE chunk[k + (i - n) - 1]
    <3>1. CASE i <= n
      BY <1>1, <1>2, <1>3, <2>1, <3>1
    <3>2. CASE i > n
      <4>1. i - n \in 1..Len(rest) /\ kept[i] = rest[i - n]
        BY <1>1, <1>2, <1>3, <2>1, <3>2
      <4> QED
        BY <1>1, <1>3, <3>2, <4>1
    <3> QED
      BY <1>1, <3>1, <3>2
  <2> QED
    BY <1>1, <1>3, <2>1, <2>2
<1>5. Kept(chunk, k) = kept
  BY DEF Kept, rest
<1> HIDE DEF kept
<1>6. k <= Len(chunk) => n + 1 \in 1..Len(kept) /\ kept[n + 1] = "key"
  BY <1>1, <1>4 DEF FirstKey
<1>7. ASSUME NEW i \in 1..Len(kept), kept[i] = "delta"
      PROVE  \E j \in 1..(i - 1) : kept[j] = "key"
  <2>1. i > n
    BY <1>1, <1>4, <1>7
  <2>2. k <= Len(chunk)
    BY <1>1, <1>4, <2>1
  <2>3. n + 1 # i
    BY <1>6, <1>7, <2>2
  <2>4. n + 1 \in 1..(i - 1)
    BY <1>1, <2>1, <2>3
  <2> QED
    BY <1>6, <2>2, <2>4
<1> QED
  BY <1>4, <1>5, <1>6, <1>7

LEMMA ReadChunkKeeps ==
  ASSUME SessionInv, NEW chunk \in Chunks, ReadChunk(chunk)
  PROVE  SessionInv'
<1>0. MainTyped /\ TaskTyped
  BY Whole
<1>1. chunk \in Seq(Kind)
  BY DEF Chunks, Kind
<1>2. /\ session = "select" /\ session' = "events" /\ incoming' = FALSE
      /\ UNCHANGED <<host, version, nals, decoder, wait_idr, frames, configured>>
  BY DEF ReadChunk
<1>3. PICK k \in 1..(Len(chunk) + 1) :
        /\ FirstKey(chunk, k)
        /\ skip' = (skip /\ k > Len(chunk))
        /\ events' = Kept(chunk, k)
        /\ gap' = IF Skipped(chunk, k) THEN "earlier" ELSE gap
  BY DEF ReadChunk
<1>4. MainTyped'
  <2>1. incoming' \in BOOLEAN
    BY <1>2
  <2> QED
    BY <1>0, <1>2, <2>1 DEF MainTyped, host
<1>5. EventsInv' /\ SendInv'
  BY <1>2 DEF EventsInv, SendInv
<1>6. CASE skip
  <2>1. /\ events' \in Seq(Kind)
        /\ k <= Len(chunk) => \E j \in 1..Len(events') : events'[j] = "key"
        /\ \A i \in 1..Len(events') :
             events'[i] = "delta" => \E j \in 1..(i - 1) : events'[j] = "key"
    BY <1>1, <1>3, <1>6, KeptBegins
  <2>2. skip' = (k > Len(chunk))
    BY <1>3, <1>6
  <2>3. skip' \in BOOLEAN
    BY <2>2
  <2>4. TaskTyped'
    BY <1>0, <1>2, <1>3, <2>1, <2>3 DEF TaskTyped, Gap
  <2>5. gap # "chunk" \/ decoder = "over"
    BY <1>2, Whole DEF GapInv
  <2>6. skip' \/ \E j \in 1..Len(events') : events'[j] = "key"
    <3>1. CASE k <= Len(chunk)
      BY <2>1, <3>1
    <3>2. CASE k > Len(chunk)
      BY <2>2, <3>2
    <3> QED
      BY <1>1, <3>1, <3>2
  <2>7. GapInv'
    BY <1>2, <1>3, <2>1, <2>5, <2>6 DEF GapInv
  <2> QED
    BY <1>2, <1>4, <1>5, <2>4, <2>7, DecoderAside, Whole
<1>7. CASE ~skip
  <2>1. skip' = FALSE /\ events' = chunk /\ gap' = gap
    BY <1>3, <1>7 DEF Kept, Skipped
  <2>2. skip' \in BOOLEAN
    BY <2>1
  <2>3. TaskTyped'
    BY <1>0, <1>1, <1>2, <2>1, <2>2 DEF TaskTyped
  <2>4. events = <<>>
    BY <1>2, Whole DEF EventsInv
  <2>5. gap = "none" \/ decoder = "over"
    BY <1>0, <1>2, <1>7, <2>4, Whole DEF GapInv, TaskTyped, Gap
  <2>6. GapInv'
    BY <1>2, <2>1, <2>5 DEF GapInv
  <2> QED
    BY <1>2, <1>4, <1>5, <2>3, <2>6, DecoderAside, Whole
<1> QED
  BY <1>6, <1>7

------------------------------------------------------------------------------
(* The session: an event. *)

\* An event goes to a decoder that lives, and ends the gap if it is a key frame.
LEMMA QueuedKeeps ==
  ASSUME SessionInv, decoder # "over", Len(nals) < NalDepth, Queued,
         session \in {"events", "send"}, events # <<>>,
         UNCHANGED <<decoder, wait_idr, configured>>
  PROVE  /\ TaskTyped' /\ DecoderTyped'
         /\ GapEndsWithChunk' /\ ChainInv' /\ EventsInv' /\ GapInv' /\ SendInv'
<1>0. TaskTyped /\ DecoderTyped /\ GapInv /\ ChainInv /\ GapEndsWithChunk
  BY Whole
<1>1. /\ events' = Tail(events) /\ version' = NewVersion /\ gap' = NewGap
      /\ nals' = Append(nals, NextJob) /\ session' = "events" /\ skip' = skip
  BY DEF Queued, Handled
<1>2. /\ events \in Seq(Kind) /\ nals \in Seq(Job)
      /\ Head(events) \in Kind /\ Tail(events) \in Seq(Kind)
      /\ Len(Tail(events)) = Len(events) - 1
      /\ \A i \in 1..Len(Tail(events)) : Tail(events)[i] = events[i + 1]
      /\ Head(events) = events[1]
  BY <1>0 DEF TaskTyped, DecoderTyped
<1>3. NewVersion \in {0, 1} /\ NewGap \in Gap
  BY <1>0 DEF NewVersion, NewGap, TaskTyped, Gap
<1>4. NextJob \in Job
  BY <1>2, <1>3 DEF NextJob, Job, Kind
<1>5. TaskTyped'
  BY <1>0, <1>1, <1>2, <1>3 DEF TaskTyped
<1>6. /\ nals' \in Seq(Job) /\ Len(nals') = Len(nals) + 1
      /\ \A i \in 1..Len(nals) : nals'[i] = nals[i]
      /\ nals'[Len(nals) + 1] = NextJob
  BY <1>1, <1>2, <1>4
<1>7. DecoderTyped'
  BY <1>0, <1>6, DepthAssumption DEF DecoderTyped
<1>8. NextJob.kind = Head(events) /\ NextJob.version = NewVersion /\ NextJob.gap = NewGap
  BY DEF NextJob
<1>9. Head(events) = "delta" => gap # "earlier"
  <2>1. ASSUME Head(events) = "delta", gap = "earlier" PROVE FALSE
    <3>1. 1 \in 1..Len(events)
      BY <1>2
    <3>2. \E j \in 1..0 : events[j] = "key"
      BY <1>0, <1>2, <2>1, <3>1 DEF GapInv
    <3> QED
      BY <3>2
  <2> QED
    BY <2>1
<1>10. GapEndsWithChunk'
  <2>1. NextJob.kind = "delta" => NextJob.gap # "earlier"
    BY <1>8, <1>9 DEF NewGap
  <2>2. ASSUME NEW i \in 1..Len(nals'), nals'[i].kind = "delta" PROVE nals'[i].gap # "earlier"
    <3>1. CASE i <= Len(nals)
      BY <1>0, <1>2, <1>6, <2>2, <3>1 DEF GapEndsWithChunk
    <3>2. CASE i = Len(nals) + 1
      BY <1>6, <2>1, <2>2, <3>2
    <3> QED
      BY <1>2, <1>6, <3>1, <3>2
  <2> QED
    BY <2>2 DEF GapEndsWithChunk
<1>11. ChainInv'
  <2>1. nals' # <<>> /\ Len(nals) \in Nat
    BY <1>2, <1>6
  <2>2. version' = nals'[Len(nals')].version
    BY <1>1, <1>6, <1>8
  <2>3. ASSUME NEW i \in 1..Len(nals'), nals'[i].kind # "configure"
        PROVE  nals'[i].version = VersionAt(i)'
    <3>1. CASE i <= Len(nals)
      <4>1. nals'[i] = nals[i] /\ (i # 1 => nals'[i - 1] = nals[i - 1])
        BY <1>6, <2>1, <3>1
      <4> QED
        BY <1>0, <2>1, <2>3, <3>1, <4>1 DEF ChainInv, VersionAt
    <3>2. CASE i = Len(nals) + 1
      <4>1. nals'[i].version = version
        BY <1>6, <1>8, <2>3, <3>2 DEF NewVersion
      <4>2. CASE nals = <<>>
        BY <1>0, <2>1, <3>2, <4>1, <4>2 DEF ChainInv, VersionAt
      <4>3. CASE nals # <<>>
        <5>1. Len(nals) # 0 /\ nals'[Len(nals)] = nals[Len(nals)]
          BY <1>2, <1>6, <4>3
        <5> QED
          BY <1>0, <2>1, <3>2, <4>1, <4>3, <5>1 DEF ChainInv, VersionAt
      <4> QED
        BY <4>2, <4>3
    <3> QED
      BY <1>6, <2>1, <3>1, <3>2
  <2> QED
    BY <2>1, <2>2, <2>3 DEF ChainInv
<1>12. EventsInv' /\ SendInv'
  BY <1>1 DEF EventsInv, SendInv
<1>13. GapInv'
  <2>1. CASE Head(events) = "key"
    BY <1>1, <2>1 DEF GapInv, NewGap
  <2>2. CASE Head(events) # "key" /\ gap # "earlier"
    BY <1>0, <1>1, <2>2 DEF GapInv, NewGap
  <2>3. CASE Head(events) # "key" /\ gap = "earlier"
    <3>1. \A j \in 1..Len(events) : events[j] = "key" =>
            j - 1 \in 1..Len(events') /\ events'[j - 1] = "key"
      BY <1>1, <1>2, <2>3
    <3>2. skip' \/ \E j \in 1..Len(events') : events'[j] = "key"
      BY <1>0, <1>1, <2>3, <3>1 DEF GapInv
    <3>3. ASSUME NEW i \in 1..Len(events'), events'[i] = "delta"
          PROVE  \E j \in 1..(i - 1) : events'[j] = "key"
      <4>1. i + 1 \in 1..Len(events) /\ events[i + 1] = "delta"
        BY <1>1, <1>2, <3>3
      <4>2. PICK j \in 1..i : events[j] = "key"
        BY <1>0, <2>3, <4>1 DEF GapInv
      <4>3. j - 1 \in 1..(i - 1)
        BY <1>2, <2>3, <4>2
      <4>4. events'[j - 1] = "key"
        BY <1>2, <3>1, <3>3, <4>1, <4>2
      <4> QED
        BY <4>3, <4>4
    <3>4. gap' = "earlier"
      BY <1>1, <2>3 DEF NewGap
    <3> QED
      BY <3>2, <3>3, <3>4 DEF GapInv
  <2> QED
    BY <2>1, <2>2, <2>3
<1> QED
  BY <1>5, <1>7, <1>10, <1>11, <1>12, <1>13

\* An event is lost: a delta, for which the session asks for the skip, or anything once the
\* decoder is over.
LEMMA LostKeeps ==
  ASSUME SessionInv, decoder = "over" \/ ~Important(Head(events)), Lost,
         session \in {"events", "send"}, events # <<>>,
         UNCHANGED <<decoder, wait_idr, configured>>
  PROVE  /\ TaskTyped' /\ DecoderTyped'
         /\ GapEndsWithChunk' /\ ChainInv' /\ EventsInv' /\ GapInv' /\ SendInv'
<1>0. TaskTyped /\ DecoderTyped /\ GapInv /\ ChainInv /\ GapEndsWithChunk
  BY Whole
<1>1. /\ events' = Tail(events) /\ version' = NewVersion /\ session' = "events" /\ nals' = nals
      /\ skip' = (skip \/ Head(events) # "configure")
      /\ gap' = IF Head(events) = "configure" \/ gap # "none" THEN gap ELSE "chunk"
  BY DEF Lost, Handled
<1>2. /\ events \in Seq(Kind) /\ Head(events) \in Kind /\ Tail(events) \in Seq(Kind)
      /\ Head(events) = events[1] /\ 1 \in 1..Len(events)
  BY <1>0 DEF TaskTyped
<1>3. NewVersion \in {0, 1} /\ gap' \in Gap
  BY <1>0, <1>1 DEF NewVersion, TaskTyped, Gap
<1>4. skip' \in BOOLEAN
  BY <1>1
<1>5. TaskTyped'
  BY <1>0, <1>1, <1>2, <1>3, <1>4 DEF TaskTyped
<1>6. DecoderTyped' /\ GapEndsWithChunk'
  BY <1>0, <1>1 DEF DecoderTyped, GapEndsWithChunk
<1>7. EventsInv' /\ SendInv'
  BY <1>1 DEF EventsInv, SendInv
<1>8. CASE decoder = "over"
  BY <1>0, <1>1, <1>5, <1>6, <1>7, <1>8 DEF ChainInv, VersionAt, GapInv
<1>9. CASE decoder # "over"
  <2>1. Head(events) = "delta"
    BY <1>2, <1>9 DEF Important, Kind
  <2>2. version' = version /\ skip'
    BY <1>1, <2>1 DEF NewVersion
  <2>3. ChainInv'
    BY <1>0, <1>1, <2>2 DEF ChainInv, VersionAt
  <2>4. gap # "earlier"
    <3>1. ASSUME gap = "earlier" PROVE FALSE
      <4>1. \E j \in 1..0 : events[j] = "key"
        BY <1>0, <1>2, <1>9, <2>1, <3>1 DEF GapInv
      <4> QED
        BY <4>1
    <3> QED
      BY <3>1
  <2>5. gap' = "chunk"
    BY <1>0, <1>1, <2>1, <2>4 DEF TaskTyped, Gap
  <2>6. GapInv'
    BY <1>1, <2>2, <2>5 DEF GapInv
  <2> QED
    BY <1>5, <1>6, <1>7, <2>3, <2>6
<1> QED
  BY <1>8, <1>9

LEMMA EventKeeps ==
  ASSUME SessionInv, Enqueue \/ SendReturns
  PROVE  SessionInv'
<1>0. MainTyped /\ TaskTyped /\ SendInv
  BY Whole
<1>1. /\ UNCHANGED <<host, incoming, decoder, wait_idr, configured>>
      /\ session \in {"events", "send"} /\ events # <<>>
  BY <1>0 DEF Enqueue, SendReturns, SendInv
<1>2. frames' \in 0..FrameDepth
  <2>1. frames \in 0..FrameDepth
    BY <1>0 DEF MainTyped
  <2> QED
    BY <2>1, DepthAssumption DEF Enqueue, SendReturns, PostSize
<1>3. MainTyped'
  BY <1>0, <1>1, <1>2 DEF MainTyped, host
<1>4. CASE decoder # "over" /\ Len(nals) < NalDepth /\ Queued
  BY <1>1, <1>3, <1>4, QueuedKeeps, Whole
<1>5. CASE (decoder = "over" \/ ~Important(Head(events))) /\ Lost
  BY <1>1, <1>3, <1>5, LostKeeps, Whole
<1>6. CASE /\ session = "events" /\ Important(Head(events)) /\ session' = "send"
           /\ UNCHANGED <<events, skip, gap, version, nals>>
  <2>1. DecoderTyped' /\ GapEndsWithChunk' /\ ChainInv'
    BY <1>1, <1>6, DecoderAside
  <2>2. TaskTyped'
    BY <1>0, <1>6 DEF TaskTyped
  <2>3. EventsInv' /\ SendInv'
    BY <1>1, <1>6 DEF EventsInv, SendInv, Important
  <2>4. GapInv'
    BY <1>1, <1>6, Whole DEF GapInv
  <2> QED
    BY <1>3, <2>1, <2>2, <2>3, <2>4, Whole
<1> QED
  BY <1>4, <1>5, <1>6 DEF Enqueue, SendReturns, DecoderOver

------------------------------------------------------------------------------
(* The decode thread. *)

LEMMA DecoderKeeps ==
  ASSUME SessionInv, DecodeSteps
  PROVE  SessionInv'
<1>0. MainTyped /\ TaskTyped /\ DecoderTyped /\ ChainInv /\ GapEndsWithChunk
  BY Whole
<1>1. CASE DecodeJob
  <2>1. /\ decoder = "receive" /\ nals # <<>> /\ nals' = Tail(nals)
        /\ UNCHANGED <<host, incoming, task, frames>>
    BY <1>1 DEF DecodeJob
  <2>2. /\ nals \in Seq(Job) /\ Tail(nals) \in Seq(Job) /\ Len(Tail(nals)) = Len(nals) - 1
        /\ \A i \in 1..Len(Tail(nals)) : Tail(nals)[i] = nals[i + 1]
        /\ Head(nals) = nals[1] /\ 1 \in 1..Len(nals)
        /\ Head(nals) \in Job /\ Len(nals) \in Nat
    BY <1>0, <2>1 DEF DecoderTyped
  <2>3. /\ configured' = IF Head(nals).kind = "configure" THEN Head(nals).version ELSE configured
        /\ decoder' \in {"receive", "send"}
    BY <1>1, <2>1 DEF DecodeJob
  <2>4. wait_idr' \in BOOLEAN
    BY <1>0, <1>1 DEF DecodeJob, DecoderTyped
  <2>5. Head(nals).version \in {0, 1}
    BY <2>2 DEF Job
  <2>6. configured' = Head(nals).version
    BY <1>0, <2>2, <2>3 DEF ChainInv, VersionAt
  <2>7. DecoderTyped'
    BY <1>0, <2>1, <2>2, <2>3, <2>4, <2>5, <2>6, DepthAssumption DEF DecoderTyped
  <2>8. GapEndsWithChunk'
    BY <1>0, <2>1, <2>2 DEF GapEndsWithChunk
  <2>9. ChainInv'
    <3>1. version' = version
      BY <2>1 DEF task
    <3>2. ASSUME NEW i \in 1..Len(nals'), nals'[i].kind # "configure"
          PROVE  nals'[i].version = VersionAt(i)'
      <4>1. nals'[i] = nals[i + 1] /\ i + 1 \in 1..Len(nals)
        BY <2>1, <2>2
      <4>2. nals[i + 1].version = nals[i].version
        BY <1>0, <3>2, <4>1 DEF ChainInv, VersionAt
      <4>3. CASE i = 1
        BY <2>2, <2>6, <4>1, <4>2, <4>3 DEF VersionAt
      <4>4. CASE i # 1
        <5>1. nals'[i - 1] = nals[i]
          BY <2>1, <2>2, <4>1, <4>4
        <5> QED
          BY <4>1, <4>2, <4>4, <5>1 DEF VersionAt
      <4> QED
        BY <4>3, <4>4
    <3>3. version' = IF nals' = <<>> THEN configured' ELSE nals'[Len(nals')].version
      <4>1. version = nals[Len(nals)].version
        BY <1>0, <2>1 DEF ChainInv
      <4>2. CASE nals' = <<>>
        BY <2>1, <2>2, <2>6, <3>1, <4>1, <4>2
      <4>3. CASE nals' # <<>>
        <5>1. Len(nals') \in 1..Len(nals') /\ nals'[Len(nals')] = nals[Len(nals)]
          BY <2>1, <2>2, <4>3
        <5> QED
          BY <3>1, <4>1, <4>3, <5>1
      <4> QED
        BY <4>2, <4>3
    <3> QED
      BY <3>2, <3>3 DEF ChainInv
  <2>10. UNCHANGED <<session, events, skip, gap, version>>
    BY <2>1 DEF task
  <2>11. TaskTyped' /\ EventsInv' /\ GapInv' /\ SendInv'
    BY <2>1, <2>10, TaskAside
  <2>12. MainTyped'
    BY <1>0, <2>1 DEF MainTyped, host
  <2> QED
    BY <2>7, <2>8, <2>9, <2>11, <2>12, Whole
<1>2. CASE SendFrame \/ DecoderEnds
  <2>1. /\ UNCHANGED <<host, incoming, task, nals, wait_idr, configured>>
        /\ decoder # "over" /\ decoder' \in {"receive", "over"}
    BY <1>2 DEF SendFrame, DecoderEnds
  <2>2. frames' \in 0..FrameDepth
    <3>1. frames \in 0..FrameDepth
      BY <1>0 DEF MainTyped
    <3> QED
      BY <1>2, <3>1, DepthAssumption DEF SendFrame, DecoderEnds
  <2>3. MainTyped'
    BY <1>0, <2>1, <2>2 DEF MainTyped, host
  <2>4. UNCHANGED <<session, events, skip, gap, version>>
    BY <2>1 DEF task
  <2>5. TaskTyped' /\ EventsInv' /\ GapInv' /\ SendInv'
    BY <2>1, <2>4, TaskAside
  <2>6. DecoderTyped' /\ GapEndsWithChunk'
    BY <1>0, <2>1 DEF DecoderTyped, GapEndsWithChunk
  <2>7. ChainInv'
    BY <1>0, <2>1, <2>4 DEF ChainInv, VersionAt
  <2> QED
    BY <2>3, <2>5, <2>6, <2>7, Whole
<1> QED
  BY <1>1, <1>2 DEF DecodeSteps

------------------------------------------------------------------------------

LEMMA NextKeeps == SessionInv /\ [Next]_vars => SessionInv'
<1> SUFFICES ASSUME SessionInv, [Next]_vars PROVE SessionInv'
  OBVIOUS
<1>1. CASE UserActs \/ CloseRequested \/ ChunkArrives \/ MainSteps
  BY <1>1, MainKeeps
<1>2. CASE SessionSteps
  BY <1>2, IdleKeeps, ChunkDoneKeeps, EventKeeps DEF SessionSteps
<1>3. CASE DecodeSteps
  BY <1>3, DecoderKeeps
<1>4. CASE \E chunk \in Chunks : ReadChunk(chunk)
  BY <1>4, ReadChunkKeeps
<1>5. CASE ReadFails
  BY <1>5, IdleKeeps
<1>6. CASE UNCHANGED vars
  <2>1. /\ UNCHANGED <<nals, decoder, wait_idr, configured, version>>
        /\ UNCHANGED <<session, events, skip, gap, version>>
        /\ UNCHANGED <<main, cmds, incoming, frames>>
    BY <1>6 DEF vars, host, task
  <2>2. MainTyped'
    BY <2>1, Whole DEF MainTyped
  <2> QED
    BY <2>1, <2>2, DecoderAside, TaskAside, Whole
<1> QED
  BY <1>1, <1>2, <1>3, <1>4, <1>5, <1>6 DEF Next

\* SessionInv holds in every state the program can reach.
LEMMA Invariant == Spec => []SessionInv
BY InitInv, NextKeeps, PTL DEF Spec

------------------------------------------------------------------------------

\* Every variable keeps its type and both channels their depths.
THEOREM TypeCorrect == Spec => []TypeOK
<1>1. SessionInv => TypeOK
  BY DEF SessionInv
<1> QED
  BY <1>1, Invariant, PTL

\* No delta reaches the decoder whose reference was lost in an earlier chunk.
THEOREM GapsEnd == Spec => []GapEndsWithChunk
<1>1. SessionInv => GapEndsWithChunk
  BY DEF SessionInv
<1> QED
  BY <1>1, Invariant, PTL

\* Each frame is decoded under the configuration it was encoded with.
THEOREM FrameMeetsConfigure == Spec => []FrameMeetsItsConfigure
<1>1. SessionInv => FrameMeetsItsConfigure
  <2> SUFFICES ASSUME SessionInv, nals # <<>>, Head(nals).kind # "configure"
               PROVE  Head(nals).version = configured
    BY DEF FrameMeetsItsConfigure
  <2>1. nals \in Seq(Job)
    BY Whole DEF DecoderTyped
  <2>2. 1 \in 1..Len(nals) /\ Head(nals) = nals[1]
    BY <2>1
  <2> QED
    BY <2>2, Whole DEF ChainInv, VersionAt
<1> QED
  BY <1>1, Invariant, PTL

=============================================================================
