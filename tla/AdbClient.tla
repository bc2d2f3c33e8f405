------------------------------ MODULE AdbClient ------------------------------
(***************************************************************************)
(* The multiplexed ADB connection of crates/transport/src/adb/client.rs,   *)
(* after the handshake: the calls open_stream, write, read and             *)
(* close_stream made by the tasks that own the streams, the single         *)
(* reader_loop task, the two directions of the link, and the device's adbd *)
(* (external: modelled from how the client uses it).                       *)
(*                                                                         *)
(* A local id names a stream. As in crates/native/src/main.rs, each stream *)
(* has one owner task, which makes one call at a time; the owners run      *)
(* concurrently with each other and with the reader. A call that awaits is *)
(* cut at its awaits: one action per packet transfer, and one per way of   *)
(* waking up from the oneshot.                                             *)
(***************************************************************************)
EXTENDS Naturals, Sequences

CONSTANTS
  MaxStreams,   \* bound: open_stream calls
  MaxRequests,  \* bound: OPEN and WRTE requests of one stream
  MaxChunks,    \* bound: chunks one write call splits its data into
  MaxSent,      \* bound: WRTE packets the device sends on one stream
  QueueDepth,   \* depth of a stream's channel of unread payloads (128)
  WireDepth     \* transfers the link takes before write_all has to wait

ASSUME BoundsAssumption ==
  /\ MaxStreams \in Nat \ {0} /\ MaxRequests \in Nat
  /\ MaxChunks \in Nat        /\ MaxSent \in Nat
ASSUME DepthAssumption == QueueDepth \in Nat \ {0} /\ WireDepth \in Nat \ {0}

Local == 1..MaxStreams

(***************************************************************************)
(* What crosses the link. To the device, a packet is one header transfer   *)
(* and, when it has a payload, one payload transfer. To the host, the      *)
(* reader is the only one who reads, so a packet is one item; n numbers    *)
(* the payloads of a stream and stands for their contents.                 *)
(***************************************************************************)
Transfer == [part: {"header", "payload"}, command: {"OPEN", "WRTE", "CLSE", "OKAY"},
             local: Local, more: BOOLEAN]
Packet   == [command: {"OKAY", "WRTE", "CLSE"}, local: Local, n: Nat]

Sending == {"open_header", "open_payload", "write_header", "write_payload", "close_header"}
Waiting == {"open_wait", "write_wait", "close_wait"}
Phase   == Sending \cup Waiting \cup {"none", "idle", "failed", "over"}

VARIABLES
  next_local,  \* Shared.next_local
  phase,       \* where the owner of each stream is
  left,        \* chunks of the current write that are not acknowledged yet
  streams,     \* keys of Shared.streams
  waiters,     \* keys of Shared.waiters
  ack,         \* what the current call's oneshot holds
  remotes,     \* streams whose slot has a nonzero remote_id
  tx,          \* streams whose slot still has its sender
  rx,          \* unread payloads in each stream's channel
  reader,      \* the reader task and the packet it is busy with
  toDevice, toHost, link,
  expect,      \* adbd: header whose payload comes next, if any
  socket,      \* adbd: its end of each stream
  owes,        \* adbd: streams with an accepted request not yet answered
  ready,       \* adbd: streams on which the host has taken the last payload
  sent,        \* adbd: payloads sent on each stream
  got,         \* history: requests of each stream adbd accepted
  requests,    \* history: requests the owner of each stream issued
  acked,       \* history: requests that returned Ok to the owner
  taken,       \* history: numbers of the payloads the owner read
  lost,        \* history: numbers of the payloads thrown away on a full channel
  eof,         \* history: streams whose owner was told Closed by read
  gaveUp       \* history: streams whose open_stream timed out

caller  == <<next_local, phase, left>>
tables  == <<streams, waiters, ack, remotes, tx>>
wires   == <<toDevice, toHost, link>>
device  == <<expect, socket, owes, ready, sent, got>>
history == <<requests, acked, taken, lost, eof, gaveUp>>
vars    == <<caller, tables, rx, reader, wires, device, history>>

NoPacket == [command |-> "CLSE", local |-> 1, n |-> 0]
NoHeader == [part |-> "payload", command |-> "OPEN", local |-> 1, more |-> FALSE]

Header(c, l, more) ==
  [part |-> "header", command |-> c, local |-> l, more |-> more]
Payload(c, l) ==
  [part |-> "payload", command |-> c, local |-> l, more |-> FALSE]
Reply(c, l, n) == [command |-> c, local |-> l, n |-> n]

Init ==
  /\ next_local = 1
  /\ phase = [l \in Local |-> "none"]
  /\ left = [l \in Local |-> 0]
  /\ streams = {} /\ waiters = {} /\ remotes = {} /\ tx = {}
  /\ ack = [l \in Local |-> "none"]
  /\ rx = [l \in Local |-> <<>>]
  /\ reader = [at |-> "read", pkt |-> NoPacket]
  /\ toDevice = <<>> /\ toHost = <<>> /\ link = "up"
  /\ expect = NoHeader
  /\ socket = [l \in Local |-> "none"]
  /\ owes = {} /\ ready = {}
  /\ sent = [l \in Local |-> 0]
  /\ got = [l \in Local |-> 0]
  /\ requests = [l \in Local |-> 0]
  /\ acked = [l \in Local |-> 0]
  /\ taken = [l \in Local |-> {}]
  /\ lost = [l \in Local |-> {}]
  /\ eof = {} /\ gaveUp = {}

------------------------------------------------------------------------------
(* Calls of the stream owners. *)

At(l, p) == phase[l] = p
Go(l, p) == phase' = [phase EXCEPT ![l] = p]

\* Mutant: the chunks of a write are counted down on return, not cleared.
ReturnCountsDown(l, p) ==
  /\ Go(l, p)
  /\ ack' = [ack EXCEPT ![l] = "none"]
  /\ left' = [left EXCEPT ![l] = @ - 1]

\* A call ends: its oneshot, if any, is gone, and nothing of a write is left.
Return(l, p) ==
  /\ Go(l, p)
  /\ ack' = [ack EXCEPT ![l] = "none"]
  /\ left' = [left EXCEPT ![l] = 0]

\* The slot of a stream that left the map goes with its last user, and its channel with it.
DropSlot(l) == tx' = tx \ {l} /\ rx' = [rx EXCEPT ![l] = <<>>]

\* Mutant: the call is not registered before its packet goes out.
NewWaiterUnregistered(l) ==
  /\ waiters' = waiters
  /\ ack' = [ack EXCEPT ![l] = "none"]

\* A fresh oneshot replaces whatever sender the map held for l.
NewWaiter(l) ==
  /\ waiters' = waiters \cup {l}
  /\ ack' = [ack EXCEPT ![l] = "none"]

Issue(l) == requests' = [requests EXCEPT ![l] = @ + 1]

OpenStream(l) ==
  /\ l = next_local
  /\ At(l, "none")
  /\ next_local' = next_local + 1
  /\ streams' = streams \cup {l}
  /\ tx' = tx \cup {l}
  /\ NewWaiter(l)
  /\ Issue(l)
  /\ Go(l, "open_header")
  /\ UNCHANGED <<left, remotes, rx, reader, wires, device, acked, taken, lost, eof, gaveUp>>

\* An empty write sends one WRTE without payload: left = 0.
Write(l) ==
  /\ At(l, "idle")
  /\ l \in streams /\ l \in remotes
  /\ \E k \in 0..MaxChunks :
       /\ requests[l] + k <= MaxRequests
       /\ requests[l] < MaxRequests
       /\ left' = [left EXCEPT ![l] = k]
  /\ NewWaiter(l)
  /\ Issue(l)
  /\ Go(l, "write_header")
  /\ UNCHANGED <<next_local, streams, remotes, tx, rx, reader, wires, device,
                 acked, taken, lost, eof, gaveUp>>

\* Mutant: the stream is dropped on the host only, as open_stream does when its timer fires.
CloseStreamSilently(l) ==
  /\ phase[l] \in {"idle", "failed"}
  /\ l \in streams
  /\ streams' = streams \ {l}
  /\ NewWaiter(l)
  /\ Go(l, "close_wait")
  /\ UNCHANGED <<next_local, left, remotes, tx, rx, reader, wires, device, history>>

\* close_stream; on a stream that is not in the map it returns at once.
CloseStream(l) ==
  /\ phase[l] \in {"idle", "failed"}
  /\ l \in streams
  /\ streams' = streams \ {l}
  /\ NewWaiter(l)
  /\ Go(l, "close_header")
  /\ UNCHANGED <<next_local, left, remotes, tx, rx, reader, wires, device, history>>

\* io.write_all: one transfer, under the link's own write lock.
Transmit(t) ==
  /\ link = "up"
  /\ Len(toDevice) < WireDepth
  /\ toDevice' = Append(toDevice, t)
  /\ UNCHANGED <<toHost, link>>

SendHeader(l) ==
  /\ \/ At(l, "open_header")  /\ Transmit(Header("OPEN", l, TRUE)) /\ Go(l, "open_payload")
     \/ /\ At(l, "write_header") /\ left[l] > 0
        /\ Transmit(Header("WRTE", l, TRUE)) /\ Go(l, "write_payload")
     \/ /\ At(l, "write_header") /\ left[l] = 0
        /\ Transmit(Header("WRTE", l, FALSE)) /\ Go(l, "write_wait")
     \/ At(l, "close_header") /\ Transmit(Header("CLSE", l, FALSE)) /\ Go(l, "close_wait")
  /\ UNCHANGED <<next_local, left, tables, rx, reader, device, history>>

SendPayload(l) ==
  /\ \/ At(l, "open_payload")  /\ Transmit(Payload("OPEN", l)) /\ Go(l, "open_wait")
     \/ At(l, "write_payload") /\ Transmit(Payload("WRTE", l)) /\ Go(l, "write_wait")
  /\ UNCHANGED <<next_local, left, tables, rx, reader, device, history>>

\* `write_packet(..).await?` leaves the map entries; close_stream goes on to wait.
SendFails(l) ==
  /\ link = "down"
  /\ \/ phase[l] \in {"open_header", "open_payload"} /\ Return(l, "over")
     \/ phase[l] \in {"write_header", "write_payload"} /\ Return(l, "failed")
     \/ At(l, "close_header") /\ Go(l, "close_wait") /\ UNCHANGED <<ack, left>>
  /\ UNCHANGED <<next_local, streams, waiters, remotes, tx, rx, reader, wires, device, history>>

OpenOk(l) ==
  /\ At(l, "open_wait") /\ ack[l] = "okay"
  /\ remotes' = remotes \cup {l}
  /\ acked' = [acked EXCEPT ![l] = requests[l]]
  /\ Return(l, "idle")
  /\ UNCHANGED <<next_local, streams, waiters, tx, rx, reader, wires, device,
                 requests, taken, lost, eof, gaveUp>>

OpenRefused(l) ==
  /\ At(l, "open_wait") /\ ack[l] = "closed"
  /\ streams' = streams \ {l}
  /\ DropSlot(l)
  /\ Return(l, "over")
  /\ UNCHANGED <<next_local, waiters, remotes, reader, wires, device, history>>

\* The 10 s timer: no CLSE is sent for a stream adbd may still open.
OpenTimeout(l) ==
  /\ At(l, "open_wait") /\ ack[l] = "none"
  /\ waiters' = waiters \ {l}
  /\ streams' = streams \ {l}
  /\ DropSlot(l)
  /\ gaveUp' = gaveUp \cup {l}
  /\ Return(l, "over")
  /\ UNCHANGED <<next_local, remotes, reader, wires, device, requests, acked, taken, lost, eof>>

\* An acknowledged chunk: the next chunk of the same write, or the call returns Ok.
WriteAcked(l) ==
  /\ At(l, "write_wait") /\ ack[l] = "okay"
  /\ acked' = [acked EXCEPT ![l] = requests[l]]
  /\ \/ /\ left[l] > 1
        /\ left' = [left EXCEPT ![l] = @ - 1]
        /\ NewWaiter(l)
        /\ Issue(l)
        /\ Go(l, "write_header")
     \/ /\ left[l] <= 1
        /\ Return(l, "idle")
        /\ UNCHANGED <<waiters, requests>>
  /\ UNCHANGED <<next_local, streams, remotes, tx, rx, reader, wires, device, taken, lost, eof, gaveUp>>

WriteClosed(l) ==
  /\ At(l, "write_wait") /\ ack[l] = "closed"
  /\ Return(l, "failed")
  /\ UNCHANGED <<next_local, streams, waiters, remotes, tx, rx, reader, wires, device, history>>

\* The 15 s timer leaves the waiter in the map.
WriteTimeout(l) ==
  /\ At(l, "write_wait") /\ ack[l] = "none"
  /\ Return(l, "failed")
  /\ UNCHANGED <<next_local, streams, waiters, remotes, tx, rx, reader, wires, device, history>>

\* Mutant: close_stream waits for the answer without a timer.
CloseReturnsAnswered(l) ==
  /\ At(l, "close_wait") /\ ack[l] # "none"
  /\ DropSlot(l)
  /\ Return(l, "over")
  /\ UNCHANGED <<next_local, streams, waiters, remotes, reader, wires, device, history>>

\* Either answer or the 2 s timer ends close_stream, which then drops the sender.
CloseReturns(l) ==
  /\ At(l, "close_wait")
  /\ DropSlot(l)
  /\ Return(l, "over")
  /\ UNCHANGED <<next_local, streams, waiters, remotes, reader, wires, device, history>>

Read(l) ==
  /\ At(l, "idle")
  /\ l \in streams
  /\ rx[l] # <<>>
  /\ taken' = [taken EXCEPT ![l] = @ \cup {Head(rx[l])}]
  /\ rx' = [rx EXCEPT ![l] = Tail(@)]
  /\ UNCHANGED <<caller, tables, reader, wires, device, requests, acked, lost, eof, gaveUp>>

\* recv returns None only when the channel is empty and its sender is gone.
ReadClosed(l) ==
  /\ At(l, "idle")
  /\ l \notin eof
  /\ l \notin streams \/ (rx[l] = <<>> /\ l \notin tx)
  /\ eof' = eof \cup {l}
  /\ UNCHANGED <<caller, tables, rx, reader, wires, device, requests, acked, taken, lost, gaveUp>>

Caller(l) ==
  \/ OpenStream(l) \/ Write(l) \/ CloseStream(l)
  \/ SendHeader(l) \/ SendPayload(l) \/ SendFails(l)
  \/ OpenOk(l) \/ OpenRefused(l) \/ OpenTimeout(l)
  \/ WriteAcked(l) \/ WriteClosed(l) \/ WriteTimeout(l) \/ CloseReturns(l)
  \/ Read(l) \/ ReadClosed(l)

------------------------------------------------------------------------------
(* reader_loop. The two map lookups of one packet are one action: nothing   *)
(* a caller does between them changes what either of them does.             *)

\* Mutant: one notification wakes every waiting call.
WakeAll(l, how) ==
  /\ waiters' = waiters \ {l}
  /\ ack' = [m \in Local |-> IF m \in waiters THEN how ELSE ack[m]]

\* The waiter leaves the map; a receiver that gave up hears nothing.
Wake(l, how) ==
  /\ waiters' = waiters \ {l}
  /\ ack' = IF l \in waiters THEN [ack EXCEPT ![l] = how] ELSE ack

Received(c) ==
  /\ reader.at = "read"
  /\ toHost # <<>>
  /\ Head(toHost).command = c

ReadOkay ==
  /\ Received("OKAY")
  /\ LET l == Head(toHost).local IN
       /\ remotes' = IF l \in streams THEN remotes \cup {l} ELSE remotes
       /\ Wake(l, "okay")
  /\ toHost' = Tail(toHost)
  /\ UNCHANGED <<caller, streams, tx, rx, reader, toDevice, link, device, history>>

ReadWrte ==
  /\ Received("WRTE")
  /\ reader' = [at |-> "reply", pkt |-> Head(toHost)]
  /\ toHost' = Tail(toHost)
  /\ UNCHANGED <<caller, tables, rx, toDevice, link, device, history>>

\* The OKAY goes out before the payload is queued, whether or not there is room.
SendOkay ==
  /\ reader.at = "reply"
  /\ Transmit(Header("OKAY", reader.pkt.local, FALSE))
  /\ reader' = [at |-> "deliver", pkt |-> reader.pkt]
  /\ UNCHANGED <<caller, tables, rx, device, history>>

Deliver ==
  /\ reader.at = "deliver"
  /\ LET l == reader.pkt.local IN
       IF l \in streams /\ l \in tx
       THEN IF Len(rx[l]) < QueueDepth
            THEN rx' = [rx EXCEPT ![l] = Append(@, reader.pkt.n)] /\ UNCHANGED lost
            ELSE lost' = [lost EXCEPT ![l] = @ \cup {reader.pkt.n}] /\ UNCHANGED rx
       ELSE UNCHANGED <<rx, lost>>
  /\ reader' = [at |-> "read", pkt |-> NoPacket]
  /\ UNCHANGED <<caller, tables, wires, device, requests, acked, taken, eof, gaveUp>>

\* Mutant: a CLSE removes the stream from the map with what its channel holds.
ReadClseForgets ==
  /\ Received("CLSE")
  /\ LET l == Head(toHost).local IN
       /\ Wake(l, "closed")
       /\ streams' = streams \ {l}
       /\ tx' = tx \ {l}
  /\ toHost' = Tail(toHost)
  /\ UNCHANGED <<caller, remotes, rx, reader, toDevice, link, device, history>>

\* Mutant: a CLSE answers the waiting call but leaves the channel open.
ReadClseWakesOnly ==
  /\ Received("CLSE")
  /\ Wake(Head(toHost).local, "closed")
  /\ toHost' = Tail(toHost)
  /\ UNCHANGED <<caller, streams, remotes, tx, rx, reader, toDevice, link, device, history>>

ReadClse ==
  /\ Received("CLSE")
  /\ LET l == Head(toHost).local IN
       /\ Wake(l, "closed")
       /\ tx' = IF l \in streams THEN tx \ {l} ELSE tx
  /\ toHost' = Tail(toHost)
  /\ UNCHANGED <<caller, streams, remotes, rx, reader, toDevice, link, device, history>>

\* A failed read or write ends the task; waiters and senders stay as they are.
ReaderEnds ==
  /\ link = "down"
  /\ reader.at \in {"read", "reply"}
  /\ reader' = [at |-> "dead", pkt |-> NoPacket]
  /\ UNCHANGED <<caller, tables, rx, wires, device, history>>

Reader == ReadOkay \/ ReadWrte \/ SendOkay \/ Deliver \/ ReadClse \/ ReaderEnds

------------------------------------------------------------------------------
(* The device's adbd, and the link. *)

\* adbd has read a header and waits for its payload.
PayloadDue == expect.part = "header"

Post(p) == toHost' = Append(toHost, p)

\* Accept a request: an OPEN or one WRTE of an open socket.
Accept(h) ==
  /\ got' = [got EXCEPT ![h.local] = @ + 1]
  /\ owes' = owes \cup {h.local}

AdbdTakesHeader ==
  /\ link = "up"
  /\ ~PayloadDue
  /\ toDevice # <<>>
  /\ LET h == Head(toDevice)
         l == h.local
     IN /\ h.part = "header"
        /\ \/ /\ h.more
              /\ expect' = h
              /\ UNCHANGED <<toHost, socket, owes, ready, got>>
           \/ /\ ~h.more /\ h.command = "WRTE" /\ socket[l] = "open"
              /\ Accept(h)
              /\ UNCHANGED <<toHost, expect, socket, ready>>
           \/ /\ h.command = "OKAY"
              /\ ready' = ready \cup {l}
              /\ UNCHANGED <<toHost, expect, socket, owes, got>>
           \/ /\ h.command = "CLSE" /\ socket[l] = "open"
              /\ socket' = [socket EXCEPT ![l] = "closed"]
              /\ owes' = owes \ {l}
              /\ Post(Reply("CLSE", l, 0))
              /\ UNCHANGED <<expect, ready, got>>
           \/ /\ ~h.more /\ h.command \in {"WRTE", "CLSE"} /\ socket[l] # "open"
              /\ UNCHANGED <<toHost, expect, socket, owes, ready, got>>
  /\ toDevice' = Tail(toDevice)
  /\ UNCHANGED <<caller, tables, rx, reader, link, sent, history>>

\* The payload of the header just read. An OPEN is accepted or refused.
AdbdTakesPayload ==
  /\ link = "up"
  /\ PayloadDue
  /\ toDevice # <<>>
  /\ Head(toDevice).part = "payload"
  /\ LET l == expect.local IN
       \/ /\ expect.command = "OPEN"
          /\ socket' = [socket EXCEPT ![l] = "open"]
          /\ ready' = ready \cup {l}
          /\ Accept(expect)
          /\ UNCHANGED toHost
       \/ /\ expect.command = "OPEN"
          /\ Post(Reply("CLSE", l, 0))
          /\ UNCHANGED <<socket, owes, ready, got>>
       \/ /\ expect.command = "WRTE" /\ socket[l] = "open"
          /\ Accept(expect)
          /\ UNCHANGED <<toHost, socket, ready>>
       \/ /\ expect.command = "WRTE" /\ socket[l] # "open"
          /\ UNCHANGED <<toHost, socket, owes, ready, got>>
  /\ expect' = NoHeader
  /\ toDevice' = Tail(toDevice)
  /\ UNCHANGED <<caller, tables, rx, reader, link, sent, history>>

Misframed ==
  /\ toDevice # <<>>
  /\ PayloadDue /\ Head(toDevice).part = "header"

\* The connection is gone: what was on its way to the device is lost and adbd lets go of
\* every stream. Packets already on the host's side may still be read.
Disconnect ==
  /\ link = "up"
  /\ link' = "down"
  /\ toDevice' = <<>>
  /\ expect' = NoHeader
  /\ socket' = [l \in Local |-> IF socket[l] = "open" THEN "closed" ELSE socket[l]]
  /\ owes' = {} /\ ready' = {}
  /\ UNCHANGED <<caller, tables, rx, reader, toHost, sent, got, history>>

\* adbd checks the framing and drops a connection that breaks it.
AdbdRejects == Misframed /\ Disconnect

\* The cable is pulled or the TCP connection breaks.
LinkFails == ~Misframed /\ Disconnect

AdbdAnswers(l) ==
  /\ link = "up"
  /\ l \in owes
  /\ owes' = owes \ {l}
  /\ Post(Reply("OKAY", l, 0))
  /\ UNCHANGED <<caller, tables, rx, reader, toDevice, link, expect, socket, ready, sent, got, history>>

Opened(l) == socket[l] = "open" /\ ~(l \in owes /\ got[l] = 1)

AdbdSends(l) ==
  /\ link = "up"
  /\ Opened(l)
  /\ l \in ready
  /\ sent[l] < MaxSent
  /\ sent' = [sent EXCEPT ![l] = @ + 1]
  /\ ready' = ready \ {l}
  /\ Post(Reply("WRTE", l, sent[l] + 1))
  /\ UNCHANGED <<caller, tables, rx, reader, toDevice, link, expect, socket, owes, got, history>>

AdbdCloses(l) ==
  /\ link = "up"
  /\ Opened(l)
  /\ socket' = [socket EXCEPT ![l] = "closed"]
  /\ owes' = owes \ {l}
  /\ Post(Reply("CLSE", l, 0))
  /\ UNCHANGED <<caller, tables, rx, reader, toDevice, link, expect, ready, sent, got, history>>

AdbdReads == AdbdTakesHeader \/ AdbdTakesPayload \/ AdbdRejects

Next ==
  \/ \E l \in Local : Caller(l)
  \/ Reader
  \/ AdbdReads
  \/ \E l \in Local : AdbdAnswers(l) \/ AdbdSends(l) \/ AdbdCloses(l)
  \/ LinkFails

Spec == Init /\ [][Next]_vars

(***************************************************************************)
(* A call that has begun goes on: transfers complete or fail, timers fire, *)
(* the runtime polls woken tasks, and adbd keeps reading (the host puts no *)
(* timeout on a transfer, so it relies on that). Nothing obliges an owner  *)
(* to begin a call, adbd to answer, send or close, or the link to fail.    *)
(***************************************************************************)
Fairness ==
  /\ \A l \in Local :
       /\ WF_vars(SendHeader(l)) /\ WF_vars(SendPayload(l)) /\ WF_vars(SendFails(l))
       /\ WF_vars(OpenOk(l) \/ OpenRefused(l) \/ OpenTimeout(l))
       /\ WF_vars(WriteAcked(l) \/ WriteClosed(l) \/ WriteTimeout(l))
       /\ WF_vars(CloseReturns(l))
  /\ WF_vars(Reader)
  /\ WF_vars(AdbdReads)

FairSpec == Spec /\ Fairness

------------------------------------------------------------------------------
(* Properties. *)

CallerTypes ==
  next_local \in Nat \ {0} /\ phase \in [Local -> Phase] /\ left \in [Local -> Nat]
TablesTypes ==
  /\ streams \subseteq Local /\ waiters \subseteq Local /\ remotes \subseteq Local
  /\ tx \subseteq Local /\ ack \in [Local -> {"none", "okay", "closed"}]
ReaderTypes ==
  /\ rx \in [Local -> Seq(Nat)]
  /\ reader \in [at: {"read", "reply", "deliver", "dead"}, pkt: Packet]
WiresTypes ==
  toDevice \in Seq(Transfer) /\ toHost \in Seq(Packet) /\ link \in {"up", "down"}
DeviceTypes ==
  /\ expect \in Transfer /\ socket \in [Local -> {"none", "open", "closed"}]
  /\ owes \subseteq Local /\ ready \subseteq Local
  /\ sent \in [Local -> Nat] /\ got \in [Local -> Nat]
HistoryTypes ==
  /\ requests \in [Local -> Nat] /\ acked \in [Local -> Nat]
  /\ taken \in [Local -> SUBSET Nat] /\ lost \in [Local -> SUBSET Nat] /\ eof \subseteq Local /\ gaveUp \subseteq Local

\* Every variable holds a value of its type.
TypeOK ==
  CallerTypes /\ TablesTypes /\ ReaderTypes /\ WiresTypes /\ DeviceTypes /\ HistoryTypes

\* A request that returned Ok to its owner was accepted by adbd: no answer to an earlier
\* request (one that timed out, say) is ever taken for the answer to a later one.
OkMeansAccepted == \A l \in Local : acked[l] <= got[l]

\* When no call is in progress and none failed, both ends agree on the requests made.
IdleMeansSettled ==
  \A l \in Local : phase[l] = "idle" => acked[l] = requests[l] /\ got[l] = requests[l]

InFlight(l) ==
  \/ \E i \in 1..Len(toDevice) : toDevice[i].local = l /\ toDevice[i].command \in {"OPEN", "WRTE"}
  \/ PayloadDue /\ expect.local = l
  \/ l \in owes
  \/ \E i \in 1..Len(toHost) : toHost[i].local = l /\ toHost[i].command \in {"OKAY", "CLSE"}

\* While the connection lives, a caller never waits for an answer that has come and gone:
\* its request or the answer is still under way, or adbd had closed the stream before.
NoAnswerMissed ==
  \A l \in Local :
    /\ phase[l] \in {"open_wait", "write_wait"}
    /\ ack[l] = "none"
    /\ link = "up"
    => InFlight(l) \/ socket[l] = "closed"

\* adbd holds a socket that no host call will ever close only when its OPEN timed out on
\* the host, or the owner's CLSE is on its way.
NoOrphanSocket ==
  \A l \in Local :
    socket[l] = "open" /\ phase[l] = "over" /\ link = "up" =>
      \/ l \in gaveUp
      \/ \E i \in 1..Len(toDevice) : toDevice[i].local = l /\ toDevice[i].command = "CLSE"

\* client.rs:347 "adbd reads the 24-byte header and the payload as two USB transfers": what
\* follows a header that announces a payload is that payload.
WholePackets == ~Misframed

Promise == INSTANCE ByteStream WITH Streams <- Local, Confirmed <- TRUE, Chunked <- FALSE

\* A stream of AdbClient is what Transport promises: adbd accepts each request once, in order,
\* and before it returns Ok; the owner reads the payloads in order, each once, and is told
\* Closed only after every payload adbd sent was read or thrown away on a full channel.
KeepsPromise == Promise!Spec

\* Every call returns, whatever the device and the link do.
CallsReturn == \A l \in Local : phase[l] \in Sending \cup Waiting ~> phase[l] \notin Sending \cup Waiting

\* A CLSE from adbd reaches the stream: its owner's reads end unless the connection fails.
CloseReachesOwner ==
  \A l \in Local : (l \in streams /\ socket[l] = "closed") ~> (l \notin tx \/ l \notin streams \/ link = "down")

=============================================================================
