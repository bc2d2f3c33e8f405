------------------------------- MODULE AdbServer -------------------------------
(***************************************************************************)
(* The back end of crates/transport/src/adb/server.rs: every stream is a   *)
(* TCP connection of its own to the local adb server, with a pump task     *)
(* that reads the socket into a channel. open_stream, read, write,         *)
(* close_stream and Drop, made by the owners of the streams as in          *)
(* AdbClient; a call is cut where it awaits the socket. There is no timer. *)
(*                                                                         *)
(* External, modelled from how server.rs uses it: the adb server, which    *)
(* answers the two requests of an open and then copies bytes both ways,    *)
(* and the service at the other end, which like the mirror server is one   *)
(* thread that does not read while it is writing.                          *)
(***************************************************************************)
EXTENDS Naturals, Sequences

CONSTANTS
  MaxStreams,   \* bound: open_stream calls
  MaxRequests,  \* bound: requests of one stream, the open included
  MaxPieces,    \* bound: pieces the socket takes one write in
  MaxSent,      \* bound: payloads the service sends on one stream
  QueueDepth,   \* depth of a stream's channel of chunks (128)
  SocketDepth   \* what a socket holds in one direction

ASSUME BoundsAssumption ==
  /\ MaxStreams \in Nat \ {0} /\ MaxRequests \in Nat
  /\ MaxPieces \in Nat \ {0}  /\ MaxSent \in Nat
ASSUME DepthAssumption == QueueDepth \in Nat \ {0} /\ SocketDepth \in Nat \ {0}

Local == 1..MaxStreams

(***************************************************************************)
(* In the socket: to the adb server the two requests of an open, then the  *)
(* pieces of writes; to the host the status of each of the two, then data. *)
(* Each carries the number of its request or payload. A payload is what no *)
(* read cuts, and a chunk the set of those in it.                          *)
(***************************************************************************)
Upward   == [kind: {"transport", "service", "piece"}, n: Nat, last: BOOLEAN]
Downward == [kind: {"OKAY", "FAIL", "data"}, n: Nat]

Opening == {"transport", "service"}
Phase   == Opening \cup {"none", "idle", "writing", "failed", "over"}

VARIABLES
  phase,     \* where the owner of each stream is
  left,      \* pieces of the current write not in the socket yet
  streams,   \* keys of AdbServer.streams
  chan,      \* chunks in each stream's channel
  pump,      \* the pump task of each stream
  hand,      \* the chunk it has read and not sent yet
  conn,      \* the connection: "closing" when only the host has closed it
  up, down,  \* the two directions of the socket
  ended,     \* streams whose adb server end has closed for writing
  remote,    \* adb server: what each connection is attached to
  busy,      \* services in the middle of a write
  requests, got, acked, sent, taken, lost, eof  \* history, as in ByteStream

owner   == <<phase, left, streams>>
task    == <<chan, pump, hand>>
socket  == <<conn, up, down, ended>>
device  == <<remote, busy>>
history == <<requests, got, acked, sent, taken, lost, eof>>
vars    == <<owner, task, socket, device, history>>

Init ==
  /\ phase = [l \in Local |-> "none"]
  /\ left = [l \in Local |-> 0]
  /\ streams = {}
  /\ chan = [l \in Local |-> <<>>]
  /\ pump = [l \in Local |-> "none"]
  /\ hand = [l \in Local |-> {}]
  /\ conn = [l \in Local |-> "none"]
  /\ up = [l \in Local |-> <<>>]
  /\ down = [l \in Local |-> <<>>]
  /\ ended = {}
  /\ remote = [l \in Local |-> "none"]
  /\ busy = {}
  /\ requests = [l \in Local |-> 0]
  /\ got = [l \in Local |-> 0]
  /\ acked = [l \in Local |-> 0]
  /\ sent = [l \in Local |-> 0]
  /\ taken = [l \in Local |-> {}]
  /\ lost = [l \in Local |-> {}]
  /\ eof = {}

------------------------------------------------------------------------------
(* The owners' calls. *)

At(l, p)  == phase[l] = p
Go(l, p)  == phase' = [phase EXCEPT ![l] = p]
Put(l, u) == up' = [up EXCEPT ![l] = Append(@, u)]

\* The host's end of the connection goes; data on its way to the host goes with it.
HangUp(l) ==
  /\ conn' = [conn EXCEPT ![l] = IF @ = "up" THEN "closing" ELSE @]
  /\ down' = [down EXCEPT ![l] = <<>>]

\* dial, and write_request of host:transport:<serial>.
OpenStream(l) ==
  /\ At(l, "none")
  /\ \A m \in Local : m < l => phase[m] # "none"
  /\ requests' = [requests EXCEPT ![l] = 1]
  /\ \/ /\ conn' = [conn EXCEPT ![l] = "up"]
        /\ Put(l, [kind |-> "transport", n |-> 1, last |-> TRUE])
        /\ Go(l, "transport")
     \/ /\ Go(l, "over")
        /\ UNCHANGED <<conn, up>>
  /\ UNCHANGED <<left, streams, task, down, ended, device, got, acked, sent, taken, lost, eof>>

\* expect_okay: exactly the four bytes of the status are read.
Status(l, s) ==
  /\ phase[l] \in Opening
  /\ down[l] # <<>> /\ Head(down[l]).kind = s

TakeStatus(l) == down' = [down EXCEPT ![l] = Tail(@)]

TransportOkay(l) ==
  /\ At(l, "transport") /\ Status(l, "OKAY")
  /\ TakeStatus(l)
  /\ Put(l, [kind |-> "service", n |-> 1, last |-> TRUE])
  /\ Go(l, "service")
  /\ UNCHANGED <<left, streams, task, conn, ended, device, history>>

\* The service is there: split, spawn the pump, insert the stream.
ServiceOkay(l) ==
  /\ At(l, "service") /\ Status(l, "OKAY")
  /\ TakeStatus(l)
  /\ pump' = [pump EXCEPT ![l] = "reading"]
  /\ streams' = streams \cup {l}
  /\ acked' = [acked EXCEPT ![l] = requests[l]]
  /\ Go(l, "idle")
  /\ UNCHANGED <<left, chan, hand, conn, up, ended, device, requests, got, sent, taken, lost, eof>>

\* FAIL with its message, or the connection ends before the status: the socket is dropped.
OpenFails(l) ==
  /\ phase[l] \in Opening
  /\ Status(l, "FAIL") \/ (down[l] = <<>> /\ (l \in ended \/ conn[l] = "down"))
  /\ HangUp(l)
  /\ Go(l, "over")
  /\ UNCHANGED <<left, streams, task, up, ended, device, history>>

\* write; without data it returns Ok at once and nothing changes.
Write(l) ==
  /\ At(l, "idle") /\ l \in streams
  /\ requests[l] < MaxRequests
  /\ \E k \in 1..MaxPieces : left' = [left EXCEPT ![l] = k]
  /\ requests' = [requests EXCEPT ![l] = @ + 1]
  /\ Go(l, "writing")
  /\ UNCHANGED <<streams, task, socket, device, got, acked, sent, taken, lost, eof>>

\* write_all, as far as the socket has room: Ok says that all is in the socket.
WritePiece(l) ==
  /\ At(l, "writing")
  /\ conn[l] = "up" /\ Len(up[l]) < SocketDepth
  /\ Put(l, [kind |-> "piece", n |-> requests[l], last |-> left[l] = 1])
  /\ left' = [left EXCEPT ![l] = @ - 1]
  /\ IF left[l] = 1
     THEN Go(l, "idle") /\ acked' = [acked EXCEPT ![l] = requests[l]]
     ELSE UNCHANGED <<phase, acked>>
  /\ UNCHANGED <<streams, task, conn, down, ended, device, requests, got, sent, taken, lost, eof>>

WriteFails(l) ==
  /\ At(l, "writing") /\ conn[l] = "down"
  /\ left' = [left EXCEPT ![l] = 0]
  /\ Go(l, "failed")
  /\ UNCHANGED <<streams, task, socket, device, history>>

Read(l) ==
  /\ At(l, "idle") /\ l \in streams
  /\ chan[l] # <<>>
  /\ taken' = [taken EXCEPT ![l] = @ \cup Head(chan[l])]
  /\ chan' = [chan EXCEPT ![l] = Tail(@)]
  /\ UNCHANGED <<owner, pump, hand, socket, device, requests, got, acked, sent, lost, eof>>

\* recv gives None when the channel is empty and the pump has dropped its sender.
ReadClosed(l) ==
  /\ At(l, "idle") /\ l \in streams
  /\ l \notin eof
  /\ chan[l] = <<>> /\ pump[l] = "done"
  /\ eof' = eof \cup {l}
  /\ UNCHANGED <<owner, task, socket, device, requests, got, acked, sent, taken, lost>>

\* The pump of an aborted stream is gone, with its socket half, its chunk and the channel.
Abort(l) ==
  /\ pump' = [pump EXCEPT ![l] = "done"]
  /\ hand' = [hand EXCEPT ![l] = {}]
  /\ chan' = [chan EXCEPT ![l] = <<>>]

CloseStream(l) ==
  /\ phase[l] \in {"idle", "failed"} /\ l \in streams
  /\ streams' = streams \ {l}
  /\ Abort(l)
  /\ HangUp(l)
  /\ Go(l, "over")
  /\ UNCHANGED <<left, up, ended, device, history>>

\* Drop, when nobody uses the connection any more: what is still open is closed.
DropServer ==
  /\ streams # {}
  /\ \A l \in Local : phase[l] \in {"none", "idle", "failed", "over"}
  /\ pump' = [l \in Local |-> IF l \in streams THEN "done" ELSE pump[l]]
  /\ hand' = [l \in Local |-> {}]
  /\ chan' = [l \in Local |-> <<>>]
  /\ conn' = [l \in Local |-> IF l \in streams /\ conn[l] = "up" THEN "closing" ELSE conn[l]]
  /\ down' = [l \in Local |-> <<>>]
  /\ phase' = [l \in Local |-> "over"]
  /\ streams' = {}
  /\ UNCHANGED <<left, up, ended, device, history>>

Owner(l) ==
  \/ OpenStream(l) \/ TransportOkay(l) \/ ServiceOkay(l) \/ OpenFails(l)
  \/ Write(l) \/ WritePiece(l) \/ WriteFails(l)
  \/ Read(l) \/ ReadClosed(l) \/ CloseStream(l)

------------------------------------------------------------------------------
(* pump: one read of the socket, then tx.send, which waits for room. *)

\* A read returns what has arrived, cut anywhere.
PumpReads(l) ==
  /\ pump[l] = "reading"
  /\ \E k \in 1..Len(down[l]) :
       /\ hand' = [hand EXCEPT ![l] = {down[l][i].n : i \in 1..k}]
       /\ down' = [down EXCEPT ![l] = SubSeq(@, k + 1, Len(@))]
  /\ pump' = [pump EXCEPT ![l] = "sending"]
  /\ UNCHANGED <<owner, chan, conn, up, ended, device, history>>

\* Mutant: a chunk that finds the channel full is dropped.
PumpTries(l) ==
  /\ pump[l] = "sending"
  /\ chan' = [chan EXCEPT ![l] = IF Len(@) < QueueDepth THEN Append(@, hand[l]) ELSE @]
  /\ hand' = [hand EXCEPT ![l] = {}]
  /\ pump' = [pump EXCEPT ![l] = "reading"]
  /\ UNCHANGED <<owner, socket, device, history>>

\* Mutant: the channel takes any number of chunks.
PumpSendsAtOnce(l) ==
  /\ pump[l] = "sending"
  /\ chan' = [chan EXCEPT ![l] = Append(@, hand[l])]
  /\ hand' = [hand EXCEPT ![l] = {}]
  /\ pump' = [pump EXCEPT ![l] = "reading"]
  /\ UNCHANGED <<owner, socket, device, history>>

\* Mutant: the channel holds no more than the chunk its owner takes next.
PumpWaitsForReader(l) ==
  /\ pump[l] = "sending"
  /\ chan[l] = <<>>
  /\ chan' = [chan EXCEPT ![l] = Append(@, hand[l])]
  /\ hand' = [hand EXCEPT ![l] = {}]
  /\ pump' = [pump EXCEPT ![l] = "reading"]
  /\ UNCHANGED <<owner, socket, device, history>>

PumpSends(l) ==
  /\ pump[l] = "sending"
  /\ Len(chan[l]) < QueueDepth
  /\ chan' = [chan EXCEPT ![l] = Append(@, hand[l])]
  /\ hand' = [hand EXCEPT ![l] = {}]
  /\ pump' = [pump EXCEPT ![l] = "reading"]
  /\ UNCHANGED <<owner, socket, device, history>>

\* Mutant: only an error ends the pump, not the end of the stream.
PumpEndsOnError(l) ==
  /\ pump[l] = "reading"
  /\ down[l] = <<>> /\ conn[l] = "down"
  /\ pump' = [pump EXCEPT ![l] = "done"]
  /\ UNCHANGED <<owner, chan, hand, socket, device, history>>

\* Ok(0) or an error: the task ends and drops its sender.
PumpEnds(l) ==
  /\ pump[l] = "reading"
  /\ down[l] = <<>> /\ (l \in ended \/ conn[l] = "down")
  /\ pump' = [pump EXCEPT ![l] = "done"]
  /\ UNCHANGED <<owner, chan, hand, socket, device, history>>

Pump(l) == PumpReads(l) \/ PumpSends(l) \/ PumpEnds(l)

------------------------------------------------------------------------------
(* The adb server, and the service it connects a stream to. *)

Post(l, k, n) ==
  down' = [down EXCEPT ![l] = IF conn[l] = "up" THEN Append(@, [kind |-> k, n |-> n]) ELSE @]

\* Answers a request of an open. After FAIL it closes the connection.
AdbAnswers(l) ==
  /\ conn[l] \in {"up", "closing"}
  /\ up[l] # <<>> /\ Head(up[l]).kind \in Opening
  /\ up' = [up EXCEPT ![l] = Tail(@)]
  /\ \/ /\ Post(l, "OKAY", 0)
        /\ remote' = [remote EXCEPT ![l] = Head(up[l]).kind]
        /\ got' = [got EXCEPT ![l] = IF Head(up[l]).kind = "service" THEN 1 ELSE @]
        /\ UNCHANGED ended
     \/ /\ Post(l, "FAIL", 0)
        /\ ended' = ended \cup {l}
        /\ UNCHANGED <<remote, got>>
  /\ UNCHANGED <<owner, task, conn, busy, requests, acked, sent, taken, lost, eof>>

\* The service reads when it is not writing.
ServiceReads(l) ==
  /\ conn[l] \in {"up", "closing"}
  /\ remote[l] = "service" /\ l \notin busy
  /\ up[l] # <<>>
  /\ up' = [up EXCEPT ![l] = Tail(@)]
  /\ got' = [got EXCEPT ![l] = IF Head(up[l]).last THEN @ + 1 ELSE @]
  /\ UNCHANGED <<owner, task, conn, down, ended, device, requests, acked, sent, taken, lost, eof>>

Serving(l) == conn[l] = "up" /\ remote[l] = "service" /\ l \notin ended

ServiceBegins(l) ==
  /\ Serving(l) /\ l \notin busy
  /\ sent[l] < MaxSent
  /\ busy' = busy \cup {l}
  /\ UNCHANGED <<owner, task, socket, remote, history>>

ServiceSends(l) ==
  /\ Serving(l) /\ l \in busy
  /\ Len(down[l]) < SocketDepth
  /\ sent' = [sent EXCEPT ![l] = @ + 1]
  /\ Post(l, "data", sent[l] + 1)
  /\ busy' = busy \ {l}
  /\ UNCHANGED <<owner, task, conn, up, ended, remote, requests, got, acked, taken, lost, eof>>

ServiceEnds(l) ==
  /\ Serving(l)
  /\ ended' = ended \cup {l}
  /\ busy' = busy \ {l}
  /\ UNCHANGED <<owner, task, conn, up, down, remote, history>>

\* The adb server is killed or the device unplugged: what the socket holds is gone.
Break(l) ==
  /\ conn[l] \in {"up", "closing"}
  /\ conn' = [conn EXCEPT ![l] = "down"]
  /\ lost' = [lost EXCEPT ![l] = @ \cup ({down[l][i].n : i \in 1..Len(down[l])} \ {0})]
  /\ up' = [up EXCEPT ![l] = <<>>]
  /\ down' = [down EXCEPT ![l] = <<>>]
  /\ busy' = busy \ {l}
  /\ UNCHANGED <<owner, task, ended, remote, requests, got, acked, sent, taken, eof>>

Next ==
  \/ \E l \in Local :
       \/ Owner(l) \/ Pump(l)
       \/ AdbAnswers(l) \/ ServiceReads(l) \/ ServiceBegins(l) \/ ServiceSends(l)
       \/ ServiceEnds(l) \/ Break(l)
  \/ DropServer

Spec == Init /\ [][Next]_vars

(***************************************************************************)
(* The runtime polls woken tasks; an owner between calls is in its read    *)
(* loop, as drain and session are; the service finishes its writes and     *)
(* comes to read between them, as serve_session does. The adb server need  *)
(* not answer, nor the service send or end.                                *)
(***************************************************************************)
Fairness ==
  \A l \in Local :
    /\ WF_vars(WritePiece(l) \/ WriteFails(l))
    /\ WF_vars(Read(l) \/ ReadClosed(l))
    /\ WF_vars(Pump(l))
    /\ SF_vars(ServiceReads(l)) /\ WF_vars(ServiceSends(l))

FairSpec == Spec /\ Fairness

------------------------------------------------------------------------------
(* Properties. *)

OwnerTypes ==
  phase \in [Local -> Phase] /\ left \in [Local -> Nat] /\ streams \subseteq Local
TaskTypes ==
  /\ chan \in [Local -> Seq(SUBSET Nat)] /\ hand \in [Local -> SUBSET Nat]
  /\ pump \in [Local -> {"none", "reading", "sending", "done"}]
SocketTypes ==
  /\ conn \in [Local -> {"none", "up", "closing", "down"}] /\ ended \subseteq Local
  /\ up \in [Local -> Seq(Upward)] /\ down \in [Local -> Seq(Downward)]
DeviceTypes == remote \in [Local -> {"none"} \cup Opening] /\ busy \subseteq Local
HistoryTypes ==
  /\ requests \in [Local -> Nat] /\ got \in [Local -> Nat] /\ acked \in [Local -> Nat]
  /\ sent \in [Local -> Nat] /\ eof \subseteq Local
  /\ taken \in [Local -> SUBSET Nat] /\ lost \in [Local -> SUBSET Nat]

\* Every variable holds a value of its type, and neither the channel nor a socket holds more
\* than its depth.
TypeOK ==
  /\ OwnerTypes /\ TaskTypes /\ SocketTypes /\ DeviceTypes /\ HistoryTypes
  /\ \A l \in Local :
       Len(chan[l]) <= QueueDepth /\ Len(up[l]) <= SocketDepth /\ Len(down[l]) <= SocketDepth

Promise == INSTANCE ByteStream WITH Streams <- Local, Confirmed <- FALSE, Chunked <- TRUE

\* A stream over the adb server is what Transport promises: the same as AdbClient's, except
\* that Ok to a write only says that the data is in the socket. Nothing is lost but what a
\* broken connection held: no full channel drops a payload.
KeepsPromise == Promise!Spec

\* An owner that keeps reading gets everything and is then told Closed, once the service has
\* ended or the connection broke. (Drop and close_stream end the reading.)
EndReachesOwner ==
  \A l \in Local :
    l \in streams /\ (l \in ended \/ conn[l] = "down")
      ~> l \in eof \/ l \notin streams \/ phase[l] \in {"writing", "failed"}

Full(l) ==
  /\ l \in busy
  /\ Len(up[l]) = SocketDepth /\ Len(down[l]) = SocketDepth /\ Len(chan[l]) = QueueDepth

\* A write has no timer. It waits only as long as everything on the way is full, in both
\* directions, and the service is itself waiting to write.
WaitsOnlyWhenFull ==
  \A l \in Local : phase[l] = "writing" ~> phase[l] # "writing" \/ Full(l)

===============================================================================
