---------------------------- MODULE AdbServerProofs ----------------------------
(***************************************************************************)
(* Theorems about AdbServer, for every value of its constants: it has its  *)
(* types, and it implements ByteStream.                                    *)
(***************************************************************************)
EXTENDS AdbServer, SequenceTheorems, TLAPS

------------------------------------------------------------------------------
(* The invariant, for one stream. *)

Asking == {"transport", "service"}
Open   == {"idle", "writing", "failed"}

Request(k) == [kind |-> k, n |-> 1, last |-> TRUE]
Answer(k)  == [kind |-> k, n |-> 0]

\* Before the open nothing of the stream exists, and before its Ok nothing of it in the host.
Unopened(l) ==
  /\ pump[l] = "none" /\ hand[l] = {} /\ chan[l] = <<>>
  /\ acked[l] = 0 /\ taken[l] = {} /\ l \notin eof

Fresh(l) ==
  /\ Unopened(l)
  /\ requests[l] = 0 /\ got[l] = 0 /\ sent[l] = 0 /\ lost[l] = {}
  /\ up[l] = <<>> /\ down[l] = <<>> /\ remote[l] = "none" /\ l \notin ended /\ l \notin busy

\* An open waits for the answer to one request, or the answer is there.
Transporting(l) ==
  /\ sent[l] = 0 /\ got[l] = 0 /\ lost[l] = {} /\ l \notin busy
  /\ remote[l] \in {"none", "transport"}
  /\ conn[l] = "up" =>
       \/ up[l] = <<Request("transport")>> /\ down[l] = <<>> /\ l \notin ended
       \/ up[l] = <<>> /\ down[l] = <<Answer("OKAY")>> /\ l \notin ended
       \/ up[l] = <<>> /\ down[l] = <<Answer("FAIL")>> /\ l \in ended

Kinds(s) == {s[i].kind : i \in 1..Len(s)}

Connecting(l) ==
  conn[l] = "up" =>
    \/ /\ up[l] = <<Request("service")>> /\ down[l] = <<>> /\ l \notin ended
       /\ got[l] = 0 /\ sent[l] = 0 /\ l \notin busy /\ remote[l] # "service"
    \/ /\ up[l] = <<>> /\ down[l] # <<>> /\ down[l][1] = Answer("OKAY")
       /\ Kinds(Tail(down[l])) \subseteq {"data"}
       /\ got[l] = 1
    \/ /\ up[l] = <<>> /\ down[l] = <<Answer("FAIL")>> /\ l \in ended
       /\ got[l] = 0

OpenInv(l) ==
  /\ phase[l] = "none" => Fresh(l) /\ conn[l] = "none"
  /\ phase[l] \in Asking => Unopened(l) /\ requests[l] = 1 /\ conn[l] \in {"up", "down"}
  /\ phase[l] = "transport" => Transporting(l)
  /\ phase[l] = "service" => Connecting(l)
  /\ phase[l] \in Open =>
       /\ acked[l] > 0 /\ requests[l] > 0
       /\ conn[l] \in {"up", "down"} /\ pump[l] # "none"
  /\ phase[l] = "failed" => conn[l] = "down"
  /\ phase[l] = "over" =>
       /\ conn[l] # "up" /\ down[l] = <<>>
       /\ chan[l] = <<>> /\ hand[l] = {} /\ pump[l] \in {"none", "done"}
  /\ phase[l] \notin Asking => Kinds(up[l]) \subseteq {"piece"} /\ Kinds(down[l]) \subseteq {"data"}
  /\ conn[l] \notin {"up", "closing"} => up[l] = <<>> /\ down[l] = <<>>
  /\ l \in streams <=> phase[l] \in Open

\* The number of the piece after u, and of the one after all of s if g requests were accepted.
Following(u) == IF u.last THEN u.n + 1 ELSE u.n
EndOf(s, g)  == IF s = <<>> THEN g + 1 ELSE Following(s[Len(s)])

\* The pieces of s are those of the requests after g, in order.
InLine(s, g) ==
  /\ s # <<>> => s[1].n = g + 1
  /\ \A i \in 1..Len(s) - 1 : s[i + 1].n = Following(s[i])

\* The number of the next piece.
Due(l) == IF phase[l] = "writing" THEN requests[l] ELSE requests[l] + 1

\* The requests on their way are those the service has not accepted, in order.
LineInv(l) ==
  /\ got[l] <= requests[l]
  /\ \A i \in 1..Len(up[l]) : up[l][i].n <= requests[l]
  /\ InLine(up[l], got[l])
  /\ conn[l] = "up" /\ phase[l] \in {"idle", "writing"} => Due(l) = EndOf(up[l], got[l])
  /\ phase[l] = "writing" => left[l] > 0

\* The payloads in the chunks of a channel, and in a socket.
Content(s) == UNION {s[i] : i \in 1..Len(s)}
Numbers(s) == {s[i].n : i \in 1..Len(s)} \ {0}

Before(A, B) == \A x \in A : \A y \in B : x < y
Chunk(c)     == \E h \in c : \A x \in c : x <= h

\* A channel: chunks in order.
Sorted(s) ==
  /\ \A i \in 1..Len(s) : Chunk(s[i])
  /\ \A i, j \in 1..Len(s) : i < j => Before(s[i], s[j])

\* A socket: numbered payloads in order.
Rising(s) ==
  /\ \A i \in 1..Len(s) : s[i].kind = "data" <=> s[i].n # 0
  /\ \A i, j \in 1..Len(s) : i < j /\ s[i].n # 0 /\ s[j].n # 0 => s[i].n < s[j].n

\* The payloads on their way to the owner are the unread ones, in order; a pump that is done
\* has left none behind.
OnTheWay(l) == Content(chan[l]) \cup hand[l] \cup Numbers(down[l])

DataInv(l) ==
  /\ taken[l] \cup lost[l] \subseteq 1..sent[l]
  /\ OnTheWay(l) \subseteq Promise!Unread(l)
  /\ phase[l] # "over" => Promise!Unread(l) \subseteq OnTheWay(l)
  /\ Before(Content(chan[l]), hand[l] \cup Numbers(down[l]))
  /\ Before(hand[l], Numbers(down[l]))
  /\ Sorted(chan[l]) /\ Rising(down[l])
  /\ pump[l] = "sending" => Chunk(hand[l])
  /\ pump[l] # "sending" => hand[l] = {}
  /\ pump[l] = "done" => down[l] = <<>> /\ (l \in ended \/ conn[l] # "up")
  /\ l \in eof => pump[l] = "done" /\ chan[l] = <<>>

\* No queue holds more than its depth.
DepthInv(l) ==
  Len(chan[l]) <= QueueDepth /\ Len(up[l]) <= SocketDepth /\ Len(down[l]) <= SocketDepth

StreamInv(l) == OpenInv(l) /\ LineInv(l) /\ DataInv(l) /\ DepthInv(l)

ServerInv == \A l \in Local : StreamInv(l)

------------------------------------------------------------------------------
(* Types. *)

Types == OwnerTypes /\ TaskTypes /\ SocketTypes /\ DeviceTypes /\ HistoryTypes

LEMMA InitType == Init => Types
BY DEF Init, Types, OwnerTypes, TaskTypes, SocketTypes, DeviceTypes, HistoryTypes, Phase

\* The first element of a nonempty sequence, and the rest.
LEMMA HeadTail ==
  ASSUME NEW S, NEW s \in Seq(S), s # <<>>
  PROVE  /\ Head(s) \in S /\ Tail(s) \in Seq(S)
         /\ Len(s) \in Nat \ {0} /\ Len(Tail(s)) = Len(s) - 1
         /\ Head(s) = s[1]
         /\ \A i \in 1..Len(Tail(s)) : Tail(s)[i] = s[i + 1]
  OBVIOUS

\* A sequence with one more element.
LEMMA Appended ==
  ASSUME NEW S, NEW s \in Seq(S), NEW e \in S
  PROVE  /\ Append(s, e) \in Seq(S)
         /\ Len(s) \in Nat /\ Len(Append(s, e)) = Len(s) + 1
         /\ Append(s, e)[Len(s) + 1] = e
         /\ \A i \in 1..Len(s) : Append(s, e)[i] = s[i]
  OBVIOUS

\* What is left of a sequence after its first k elements.
LEMMA Remaining ==
  ASSUME NEW S, NEW s \in Seq(S), NEW k \in 1..Len(s)
  PROVE  /\ SubSeq(s, k + 1, Len(s)) \in Seq(S)
         /\ Len(SubSeq(s, k + 1, Len(s))) = Len(s) - k
         /\ \A i \in 1..Len(s) - k : SubSeq(s, k + 1, Len(s))[i] = s[k + i]
  OBVIOUS

\* The numbers of the first k payloads in a socket.
LEMMA NumbersOf ==
  ASSUME NEW s \in Seq(Downward), NEW k \in 0..Len(s)
  PROVE  {s[i].n : i \in 1..k} \in SUBSET Nat
<1>1. \A i \in 1..k : s[i] \in Downward BY ElementOfSeq
<1>2. \A i \in 1..k : s[i].n \in Nat BY <1>1 DEF Downward
<1> QED BY <1>2

\* A call of the owner keeps the types.
LEMMA OwnerType ==
  ASSUME Types, NEW l \in Local, Owner(l), phase[l] = "writing" => left[l] > 0
  PROVE  Types'
<1> USE DEF Types, owner, task, socket, device, history, At, Go, Put, HangUp, TakeStatus,
            Status, Abort, Phase, Opening
<1>1. CASE OpenStream(l)
  <2>1. OwnerTypes' BY <1>1 DEF OpenStream, OwnerTypes
  <2>2. SocketTypes'
    <3> DEFINE u == [kind |-> "transport", n |-> 1, last |-> TRUE]
    <3>1. u \in Upward BY DEF Upward
    <3>2. up' = [up EXCEPT ![l] = Append(@, u)] \/ up' = up BY <1>1 DEF OpenStream
    <3> HIDE DEF u
    <3>3. Append(up[l], u) \in Seq(Upward) BY <3>1, Appended DEF SocketTypes
    <3>4. up' \in [Local -> Seq(Upward)] BY <3>2, <3>3 DEF SocketTypes
    <3> QED BY <1>1, <3>4 DEF OpenStream, SocketTypes
  <2>3. HistoryTypes' BY <1>1 DEF OpenStream, HistoryTypes
  <2>4. TaskTypes' /\ DeviceTypes' BY <1>1 DEF OpenStream, TaskTypes, DeviceTypes
  <2> QED BY <2>1, <2>2, <2>3, <2>4
<1>2. CASE TransportOkay(l)
  <2>1. OwnerTypes' BY <1>2 DEF TransportOkay, OwnerTypes
  <2>2. SocketTypes'
    <3> DEFINE u == [kind |-> "service", n |-> 1, last |-> TRUE]
    <3>1. u \in Upward BY DEF Upward
    <3>0. up' = [up EXCEPT ![l] = Append(@, u)] BY <1>2 DEF TransportOkay
    <3> HIDE DEF u
    <3>2. Append(up[l], u) \in Seq(Upward) BY <3>1, Appended DEF SocketTypes
    <3>3. Tail(down[l]) \in Seq(Downward) BY <1>2, HeadTail DEF TransportOkay, SocketTypes
    <3>4. up' \in [Local -> Seq(Upward)] BY <3>0, <3>2 DEF SocketTypes
    <3>5. down' \in [Local -> Seq(Downward)] BY <1>2, <3>3 DEF TransportOkay, SocketTypes
    <3> QED BY <1>2, <3>4, <3>5 DEF TransportOkay, SocketTypes
  <2>3. TaskTypes' /\ DeviceTypes' /\ HistoryTypes'
    BY <1>2 DEF TransportOkay, TaskTypes, DeviceTypes, HistoryTypes
  <2> QED BY <2>1, <2>2, <2>3
<1>3. CASE ServiceOkay(l)
  <2>1. OwnerTypes' BY <1>3 DEF ServiceOkay, OwnerTypes
  <2>2. SocketTypes' BY <1>3, HeadTail DEF ServiceOkay, SocketTypes
  <2>3. HistoryTypes' BY <1>3 DEF ServiceOkay, HistoryTypes
  <2>4. TaskTypes' /\ DeviceTypes' BY <1>3 DEF ServiceOkay, TaskTypes, DeviceTypes
  <2> QED BY <2>1, <2>2, <2>3, <2>4
<1>4. CASE OpenFails(l)
  <2>1. OwnerTypes' BY <1>4 DEF OpenFails, OwnerTypes
  <2>2. SocketTypes' BY <1>4 DEF OpenFails, SocketTypes
  <2>3. TaskTypes' /\ DeviceTypes' /\ HistoryTypes'
    BY <1>4 DEF OpenFails, TaskTypes, DeviceTypes, HistoryTypes
  <2> QED BY <2>1, <2>2, <2>3
<1>5. CASE Write(l)
  <2>1. OwnerTypes' BY <1>5, BoundsAssumption DEF Write, OwnerTypes
  <2>2. HistoryTypes' BY <1>5 DEF Write, HistoryTypes
  <2>3. TaskTypes' /\ SocketTypes' /\ DeviceTypes'
    BY <1>5 DEF Write, TaskTypes, SocketTypes, DeviceTypes
  <2> QED BY <2>1, <2>2, <2>3
<1>6. CASE WritePiece(l)
  <2>1. OwnerTypes'
    <3>1. phase' = phase \/ phase' = [phase EXCEPT ![l] = "idle"]
      BY <1>6 DEF WritePiece
    <3>2. phase' \in [Local -> Phase]
      BY <3>1 DEF OwnerTypes, Phase
    <3>3. left' = [left EXCEPT ![l] = left[l] - 1] /\ left[l] - 1 \in Nat
      BY <1>6 DEF WritePiece, OwnerTypes
    <3>4. left' \in [Local -> Nat] /\ streams' = streams
      BY <1>6, <3>3 DEF WritePiece, OwnerTypes
    <3> QED BY <3>2, <3>4 DEF OwnerTypes
  <2>2. SocketTypes'
    <3>1. [kind |-> "piece", n |-> requests[l], last |-> left[l] = 1] \in Upward
      BY DEF Upward, HistoryTypes
    <3> QED BY <1>6, <3>1, Appended DEF WritePiece, SocketTypes
  <2>3. HistoryTypes' BY <1>6 DEF WritePiece, HistoryTypes
  <2>4. TaskTypes' /\ DeviceTypes' BY <1>6 DEF WritePiece, TaskTypes, DeviceTypes
  <2> QED BY <2>1, <2>2, <2>3, <2>4
<1>7. CASE WriteFails(l)
  <2>1. OwnerTypes' BY <1>7 DEF WriteFails, OwnerTypes
  <2>2. TaskTypes' /\ SocketTypes' /\ DeviceTypes' /\ HistoryTypes'
    BY <1>7 DEF WriteFails, TaskTypes, SocketTypes, DeviceTypes, HistoryTypes
  <2> QED BY <2>1, <2>2
<1>8. CASE Read(l)
  <2>1. TaskTypes' BY <1>8, HeadTail DEF Read, TaskTypes
  <2>2. HistoryTypes'
    <3>1. Head(chan[l]) \in SUBSET Nat BY <1>8, HeadTail DEF Read, TaskTypes
    <3> QED BY <1>8, <3>1 DEF Read, HistoryTypes
  <2>3. OwnerTypes' /\ SocketTypes' /\ DeviceTypes'
    BY <1>8 DEF Read, OwnerTypes, SocketTypes, DeviceTypes
  <2> QED BY <2>1, <2>2, <2>3
<1>9. CASE ReadClosed(l)
  BY <1>9 DEF ReadClosed, OwnerTypes, TaskTypes, SocketTypes, DeviceTypes, HistoryTypes
<1>10. CASE CloseStream(l)
  <2>1. OwnerTypes' BY <1>10 DEF CloseStream, OwnerTypes
  <2>2. TaskTypes' BY <1>10 DEF CloseStream, TaskTypes
  <2>3. SocketTypes' BY <1>10 DEF CloseStream, SocketTypes
  <2>4. DeviceTypes' /\ HistoryTypes' BY <1>10 DEF CloseStream, DeviceTypes, HistoryTypes
  <2> QED BY <2>1, <2>2, <2>3, <2>4
<1> QED
  BY <1>1, <1>2, <1>3, <1>4, <1>5, <1>6, <1>7, <1>8, <1>9, <1>10 DEF Owner

\* The end of the connection keeps the types.
LEMMA DropType ==
  ASSUME Types, DropServer
  PROVE  Types'
<1>1. OwnerTypes' BY DEF DropServer, Types, OwnerTypes, Phase, Opening
<1>2. TaskTypes' BY DEF DropServer, Types, TaskTypes
<1>3. SocketTypes' BY DEF DropServer, Types, SocketTypes
<1>4. DeviceTypes' /\ HistoryTypes' BY DEF DropServer, Types, DeviceTypes, HistoryTypes, device, history
<1> QED BY <1>1, <1>2, <1>3, <1>4 DEF Types

\* A step of a pump keeps the types.
LEMMA PumpType ==
  ASSUME Types, NEW l \in Local, Pump(l)
  PROVE  Types'
<1> USE DEF Types, owner, task, socket, device, history
<1>1. OwnerTypes' /\ DeviceTypes' /\ HistoryTypes'
  BY DEF Pump, PumpReads, PumpSends, PumpEnds, OwnerTypes, DeviceTypes, HistoryTypes
<1>2. CASE PumpReads(l)
  <2>1. PICK k \in 1..Len(down[l]) :
          /\ hand' = [hand EXCEPT ![l] = {down[l][i].n : i \in 1..k}]
          /\ down' = [down EXCEPT ![l] = SubSeq(@, k + 1, Len(@))]
    BY <1>2 DEF PumpReads
  <2>2. down[l] \in Seq(Downward) BY DEF SocketTypes
  <2>3. {down[l][i].n : i \in 1..k} \in SUBSET Nat BY <2>2, NumbersOf
  <2>4. TaskTypes' BY <1>2, <2>1, <2>3 DEF PumpReads, TaskTypes
  <2>5. SocketTypes' BY <1>2, <2>1, <2>2, Remaining DEF PumpReads, SocketTypes
  <2> QED BY <1>1, <2>4, <2>5
<1>3. CASE PumpSends(l)
  <2>1. TaskTypes' BY <1>3, Appended DEF PumpSends, TaskTypes
  <2> QED BY <1>1, <1>3, <2>1 DEF PumpSends, SocketTypes
<1>4. CASE PumpEnds(l)
  BY <1>1, <1>4 DEF PumpEnds, TaskTypes, SocketTypes
<1> QED BY <1>2, <1>3, <1>4 DEF Pump

\* What the adb server, the service and a failure do keeps the types.
Far(l) ==
  \/ AdbAnswers(l) \/ ServiceReads(l) \/ ServiceBegins(l) \/ ServiceSends(l)
  \/ ServiceEnds(l) \/ Break(l)

LEMMA FarType ==
  ASSUME Types, NEW l \in Local, Far(l)
  PROVE  Types'
<1> USE DEF Types, owner, task, socket, device, history, Post, Opening, Serving
<1>1. OwnerTypes' /\ TaskTypes'
  BY DEF Far, AdbAnswers, ServiceReads, ServiceBegins, ServiceSends, ServiceEnds, Break,
         OwnerTypes, TaskTypes
<1>2. CASE AdbAnswers(l)
  <2>1. up[l] \in Seq(Upward) /\ down[l] \in Seq(Downward) BY DEF SocketTypes
  <2>2. Tail(up[l]) \in Seq(Upward) BY <1>2, <2>1, HeadTail DEF AdbAnswers
  <2>3. /\ [kind |-> "OKAY", n |-> 0] \in Downward /\ [kind |-> "FAIL", n |-> 0] \in Downward
    BY DEF Downward
  <2>4. /\ Append(down[l], [kind |-> "OKAY", n |-> 0]) \in Seq(Downward)
        /\ Append(down[l], [kind |-> "FAIL", n |-> 0]) \in Seq(Downward)
    BY <2>1, <2>3, Appended
  <2>5. down' \in [Local -> Seq(Downward)]
    <3> DEFINE okay == [kind |-> "OKAY", n |-> 0]
               fail == [kind |-> "FAIL", n |-> 0]
    <3>1. \E u \in {okay, fail} :
            down' = [down EXCEPT ![l] = IF conn[l] = "up" THEN Append(@, u) ELSE @]
      BY <1>2 DEF AdbAnswers
    <3>2. \A u \in {okay, fail} : Append(down[l], u) \in Seq(Downward) BY <2>4
    <3> HIDE DEF okay, fail
    <3> QED BY <2>1, <3>1, <3>2 DEF SocketTypes
  <2>7. SocketTypes'
    <3>1. up' \in [Local -> Seq(Upward)] BY <1>2, <2>2 DEF AdbAnswers, SocketTypes
    <3>2. ended' \subseteq Local BY <1>2 DEF AdbAnswers, SocketTypes
    <3>3. conn' = conn BY <1>2 DEF AdbAnswers
    <3> QED BY <2>5, <3>1, <3>2, <3>3 DEF SocketTypes
  <2>6. DeviceTypes'
    <3> DEFINE k == Head(up[l]).kind
    <3>1. k \in Opening BY <1>2 DEF AdbAnswers
    <3>2. remote' = [remote EXCEPT ![l] = k] \/ remote' = remote BY <1>2 DEF AdbAnswers
    <3>3. busy' = busy BY <1>2 DEF AdbAnswers
    <3> HIDE DEF k
    <3> QED BY <3>1, <3>2, <3>3 DEF DeviceTypes
  <2>8. got' \in [Local -> Nat]
    <3> DEFINE g == IF Head(up[l]).kind = "service" THEN 1 ELSE got[l]
    <3>1. g \in Nat BY DEF HistoryTypes
    <3>2. got' = [got EXCEPT ![l] = g] \/ got' = got BY <1>2 DEF AdbAnswers
    <3> HIDE DEF g
    <3> QED BY <3>1, <3>2 DEF HistoryTypes
  <2>9. HistoryTypes' BY <1>2, <2>8 DEF AdbAnswers, HistoryTypes
  <2> QED BY <1>1, <2>6, <2>7, <2>9
<1>3. CASE ServiceReads(l)
  <2>1. Tail(up[l]) \in Seq(Upward) BY <1>3, HeadTail DEF ServiceReads, SocketTypes
  <2>2. up' \in [Local -> Seq(Upward)] BY <1>3, <2>1 DEF ServiceReads, SocketTypes
  <2>3. SocketTypes' BY <1>3, <2>2 DEF ServiceReads, SocketTypes
  <2> QED BY <1>1, <1>3, <2>3 DEF ServiceReads, DeviceTypes, HistoryTypes
<1>4. CASE ServiceBegins(l)
  BY <1>1, <1>4 DEF ServiceBegins, SocketTypes, DeviceTypes, HistoryTypes
<1>5. CASE ServiceSends(l)
  <2>1. [kind |-> "data", n |-> sent[l] + 1] \in Downward BY DEF Downward, HistoryTypes
  <2>2. SocketTypes' BY <1>5, <2>1, Appended DEF ServiceSends, SocketTypes
  <2> QED BY <1>1, <1>5, <2>2 DEF ServiceSends, DeviceTypes, HistoryTypes
<1>6. CASE ServiceEnds(l)
  BY <1>1, <1>6 DEF ServiceEnds, SocketTypes, DeviceTypes, HistoryTypes
<1>7. CASE Break(l)
  <2>1. SocketTypes' BY <1>7 DEF Break, SocketTypes
  <2>2. {down[l][i].n : i \in 1..Len(down[l])} \in SUBSET Nat
    BY NumbersOf, LenProperties DEF SocketTypes
  <2>3. lost[l] \cup ({down[l][i].n : i \in 1..Len(down[l])} \ {0}) \in SUBSET Nat
    BY <2>2 DEF HistoryTypes
  <2>4. DeviceTypes' /\ HistoryTypes' BY <1>7, <2>3 DEF Break, DeviceTypes, HistoryTypes
  <2> QED BY <1>1, <2>1, <2>4
<1> QED BY <1>2, <1>3, <1>4, <1>5, <1>6, <1>7 DEF Far

------------------------------------------------------------------------------
(* What the queues hold after an operation. *)

\* A sequence of one element.
LEMMA Single ==
  ASSUME NEW e
  PROVE  /\ Append(<<>>, e) = <<e>> /\ Tail(<<e>>) = <<>> /\ Head(<<e>>) = e
         /\ Len(<<e>>) = 1 /\ <<e>>[1] = e /\ <<e>> # <<>>
  OBVIOUS

\* A request behind the others.
LEMMA LineAppended ==
  ASSUME NEW s \in Seq(Upward), NEW g \in Nat, NEW u \in Upward,
         InLine(s, g), u.n = EndOf(s, g)
  PROVE  InLine(Append(s, u), g) /\ EndOf(Append(s, u), g) = Following(u)
<1> DEFINE t == Append(s, u)
<1>1. /\ Len(s) \in Nat /\ Len(t) = Len(s) + 1 /\ t[Len(s) + 1] = u
      /\ \A i \in 1..Len(s) : t[i] = s[i]
  BY Appended
<1>2. t # <<>> BY <1>1
<1> HIDE DEF t
<1>3. EndOf(t, g) = Following(u) BY <1>1, <1>2 DEF EndOf
<1>4. t[1].n = g + 1 BY <1>1 DEF InLine, EndOf
<1>5. \A i \in 1..Len(t) - 1 : t[i + 1].n = Following(t[i])
  <2> SUFFICES ASSUME NEW i \in 1..Len(t) - 1 PROVE t[i + 1].n = Following(t[i])
    OBVIOUS
  <2>1. CASE i = Len(s) BY <1>1, <2>1 DEF EndOf
  <2>2. CASE i # Len(s) BY <1>1, <2>2 DEF InLine
  <2> QED BY <2>1, <2>2
<1> QED BY <1>3, <1>4, <1>5 DEF InLine, t

\* The first request leaves, and is accepted with its last piece.
LEMMA LineTail ==
  ASSUME NEW s \in Seq(Upward), NEW g \in Nat, s # <<>>, InLine(s, g),
         NEW h \in Nat, h = IF Head(s).last THEN g + 1 ELSE g
  PROVE  InLine(Tail(s), h) /\ EndOf(Tail(s), h) = EndOf(s, g)
<1> DEFINE t == Tail(s)
<1>1. /\ Head(s) = s[1] /\ Len(s) \in Nat \ {0} /\ Len(t) = Len(s) - 1
      /\ \A i \in 1..Len(t) : t[i] = s[i + 1]
      /\ t \in Seq(Upward)
  BY HeadTail
<1>2. s[1].n = g + 1 /\ \A i \in 1..Len(s) - 1 : s[i + 1].n = Following(s[i])
  BY DEF InLine
<1>3. Following(s[1]) = h + 1 BY <1>1, <1>2 DEF Following
<1> HIDE DEF t
<1>4. t = <<>> <=> Len(s) = 1
  <2>1. t = <<>> <=> Len(t) = 0 BY <1>1, EmptySeq
  <2> QED BY <1>1, <2>1
<1>5. InLine(t, h)
  <2>1. t # <<>> => t[1].n = h + 1 BY <1>1, <1>2, <1>3, <1>4
  <2>2. \A i \in 1..Len(t) - 1 : t[i + 1].n = Following(t[i]) BY <1>1, <1>2
  <2> QED BY <2>1, <2>2 DEF InLine
<1>6. EndOf(t, h) = EndOf(s, g)
  <2>1. CASE Len(s) = 1 BY <1>1, <1>3, <1>4, <2>1 DEF EndOf
  <2>2. CASE Len(s) # 1 BY <1>1, <1>4, <2>2 DEF EndOf
  <2> QED BY <2>1, <2>2
<1> QED BY <1>5, <1>6 DEF t

\* A chunk behind the others.
LEMMA ChunkAppended ==
  ASSUME NEW s \in Seq(SUBSET Nat), NEW c \in SUBSET Nat
  PROVE  /\ Content(Append(s, c)) = Content(s) \cup c
         /\ Sorted(s) /\ Chunk(c) /\ Before(Content(s), c) => Sorted(Append(s, c))
<1> DEFINE t == Append(s, c)
<1>1. /\ Len(s) \in Nat /\ Len(t) = Len(s) + 1 /\ t[Len(s) + 1] = c
      /\ \A i \in 1..Len(s) : t[i] = s[i]
  BY Appended
<1> HIDE DEF t
<1>2. Content(t) = Content(s) \cup c
  <2>1. \A x \in Content(t) : x \in Content(s) \cup c BY <1>1 DEF Content
  <2>2. \A x \in Content(s) : x \in Content(t) BY <1>1 DEF Content
  <2>3. \A x \in c : x \in Content(t)
    <3>1. Len(s) + 1 \in 1..Len(t) BY <1>1
    <3> QED BY <1>1, <3>1 DEF Content
  <2> QED BY <2>1, <2>2, <2>3
<1>3. ASSUME Sorted(s), Chunk(c), Before(Content(s), c)
      PROVE  Sorted(t)
  <2>1. \A i \in 1..Len(t) : Chunk(t[i])
    <3> SUFFICES ASSUME NEW i \in 1..Len(t) PROVE Chunk(t[i]) OBVIOUS
    <3>1. i \in 1..Len(s) \/ i = Len(s) + 1 BY <1>1
    <3> QED BY <1>1, <1>3, <3>1 DEF Sorted
  <2>2. \A i \in 1..Len(s) : Before(s[i], c) BY <1>3 DEF Content, Before
  <2>3. \A i, j \in 1..Len(t) : i < j => Before(t[i], t[j])
    <3> SUFFICES ASSUME NEW i \in 1..Len(t), NEW j \in 1..Len(t), i < j
                 PROVE  Before(t[i], t[j])
      OBVIOUS
    <3>1. i \in 1..Len(s) BY <1>1
    <3>2. CASE j = Len(s) + 1 BY <1>1, <2>2, <3>1, <3>2
    <3>3. CASE j \in 1..Len(s) BY <1>1, <1>3, <3>1, <3>3 DEF Sorted
    <3> QED BY <1>1, <3>2, <3>3
  <2> QED BY <2>1, <2>3 DEF Sorted
<1> QED BY <1>2, <1>3 DEF t

\* The first chunk leaves.
LEMMA ChunkTail ==
  ASSUME NEW s \in Seq(SUBSET Nat), s # <<>>, Sorted(s)
  PROVE  /\ Content(s) = Head(s) \cup Content(Tail(s))
         /\ Chunk(Head(s)) /\ Before(Head(s), Content(Tail(s)))
         /\ Sorted(Tail(s))
<1> DEFINE t == Tail(s)
<1>1. /\ Head(s) = s[1] /\ Len(s) \in Nat \ {0} /\ Len(t) = Len(s) - 1
      /\ \A i \in 1..Len(t) : t[i] = s[i + 1]
  BY HeadTail
<1>2. 1 \in 1..Len(s) BY <1>1
<1>3. \A i \in 1..Len(t) : i + 1 \in 1..Len(s) BY <1>1
<1>4. \A i \in 1..Len(s) : i = 1 \/ (i - 1 \in 1..Len(t) /\ s[i] = t[i - 1]) BY <1>1
<1> HIDE DEF t
<1>5. Content(s) = Head(s) \cup Content(t)
  <2>1. \A x \in Content(s) : x \in Head(s) \cup Content(t)
    <3>1. SUFFICES ASSUME NEW i \in 1..Len(s), NEW x \in s[i]
                   PROVE  x \in Head(s) \cup Content(t)
      BY DEF Content
    <3>2. CASE i = 1 BY <1>1, <3>2
    <3>3. CASE i - 1 \in 1..Len(t) /\ s[i] = t[i - 1] BY <3>3 DEF Content
    <3> QED BY <1>4, <3>2, <3>3
  <2>2. \A x \in Head(s) : x \in Content(s) BY <1>1, <1>2 DEF Content
  <2>3. \A x \in Content(t) : x \in Content(s) BY <1>1, <1>3 DEF Content
  <2> QED BY <2>1, <2>2, <2>3
<1>6. Chunk(Head(s)) BY <1>1, <1>2 DEF Sorted
<1>7. \A i \in 1..Len(t) : Before(s[1], t[i])
  <2> SUFFICES ASSUME NEW i \in 1..Len(t) PROVE Before(s[1], t[i]) OBVIOUS
  <2>1. 1 < i + 1 BY <1>1
  <2> QED BY <1>1, <1>2, <1>3, <2>1 DEF Sorted
<1>8. Before(Head(s), Content(t)) BY <1>1, <1>7 DEF Content, Before
<1>9. Sorted(t)
  <2>1. \A i \in 1..Len(t) : Chunk(t[i]) BY <1>1, <1>3 DEF Sorted
  <2>2. \A i, j \in 1..Len(t) : i < j => Before(t[i], t[j])
    <3> SUFFICES ASSUME NEW i \in 1..Len(t), NEW j \in 1..Len(t), i < j
                 PROVE  Before(t[i], t[j])
      OBVIOUS
    <3>1. i + 1 < j + 1 BY <1>1
    <3> QED BY <1>1, <1>3, <3>1 DEF Sorted
  <2> QED BY <2>1, <2>2 DEF Sorted
<1> QED BY <1>5, <1>6, <1>8, <1>9 DEF t

\* One more payload in the socket, with the highest number; or a status, in an empty one.
LEMMA DownAppended ==
  ASSUME NEW s \in Seq(Downward), NEW d \in Downward, Rising(s),
         d.kind = "data" <=> d.n # 0,
         d.n # 0 => \A x \in Numbers(s) : x < d.n
  PROVE  /\ Rising(Append(s, d))
         /\ Numbers(Append(s, d)) = Numbers(s) \cup ({d.n} \ {0})
         /\ Kinds(Append(s, d)) = Kinds(s) \cup {d.kind}
<1> DEFINE t == Append(s, d)
<1>1. /\ Len(s) \in Nat /\ Len(t) = Len(s) + 1 /\ t[Len(s) + 1] = d
      /\ \A i \in 1..Len(s) : t[i] = s[i]
  BY Appended
<1>2. \A i \in 1..Len(t) : i \in 1..Len(s) \/ i = Len(s) + 1 BY <1>1
<1>3. Len(s) + 1 \in 1..Len(t) /\ \A i \in 1..Len(s) : i \in 1..Len(t) BY <1>1
<1> HIDE DEF t
<1>4. Numbers(t) = Numbers(s) \cup ({d.n} \ {0})
  <2>1. \A x \in Numbers(t) : x \in Numbers(s) \cup ({d.n} \ {0}) BY <1>1, <1>2 DEF Numbers
  <2>2. \A x \in Numbers(s) \cup ({d.n} \ {0}) : x \in Numbers(t) BY <1>1, <1>3 DEF Numbers
  <2> QED BY <2>1, <2>2
<1>5. Kinds(t) = Kinds(s) \cup {d.kind}
  <2>1. \A x \in Kinds(t) : x \in Kinds(s) \cup {d.kind} BY <1>1, <1>2 DEF Kinds
  <2>2. \A x \in Kinds(s) \cup {d.kind} : x \in Kinds(t) BY <1>1, <1>3 DEF Kinds
  <2> QED BY <2>1, <2>2
<1>6. Rising(t)
  <2>1. \A i \in 1..Len(t) : t[i].kind = "data" <=> t[i].n # 0 BY <1>1, <1>2 DEF Rising
  <2>2. \A i \in 1..Len(s) : s[i].n # 0 => s[i].n \in Numbers(s) BY DEF Numbers
  <2>3. \A i, j \in 1..Len(t) : i < j /\ t[i].n # 0 /\ t[j].n # 0 => t[i].n < t[j].n
    <3> SUFFICES ASSUME NEW i \in 1..Len(t), NEW j \in 1..Len(t), i < j, t[i].n # 0, t[j].n # 0
                 PROVE  t[i].n < t[j].n
      OBVIOUS
    <3>1. i \in 1..Len(s) BY <1>1
    <3>2. CASE j = Len(s) + 1 BY <1>1, <2>2, <3>1, <3>2
    <3>3. CASE j \in 1..Len(s) BY <1>1, <3>1, <3>3 DEF Rising
    <3> QED BY <1>2, <3>2, <3>3
  <2> QED BY <2>1, <2>3 DEF Rising
<1> QED BY <1>4, <1>5, <1>6 DEF t

\* The numbers of the first k elements of a socket, and the others.
FirstOf(s, k) == {s[i].n : i \in 1..k}
RestOf(s, k)  == SubSeq(s, k + 1, Len(s))

\* The first k elements leave the socket.
LEMMA DownDropped ==
  ASSUME NEW s \in Seq(Downward), Rising(s), NEW k \in 1..Len(s)
  PROVE  /\ Rising(RestOf(s, k))
         /\ Numbers(s) = (FirstOf(s, k) \ {0}) \cup Numbers(RestOf(s, k))
         /\ Before(FirstOf(s, k) \ {0}, Numbers(RestOf(s, k)))
         /\ Kinds(RestOf(s, k)) \subseteq Kinds(s)
         /\ Kinds(s) \subseteq {"data"} => 0 \notin FirstOf(s, k) /\ Chunk(FirstOf(s, k))
<1> DEFINE c == FirstOf(s, k)
           t == RestOf(s, k)
<1>0. c = {s[i].n : i \in 1..k} /\ t = SubSeq(s, k + 1, Len(s)) BY DEF FirstOf, RestOf
<1> HIDE DEF c, t
<1>1. /\ Len(s) \in Nat /\ Len(t) = Len(s) - k
      /\ \A i \in 1..Len(t) : t[i] = s[k + i]
  BY <1>0, Remaining
<1>2. /\ \A i \in 1..k : i \in 1..Len(s)
      /\ \A i \in 1..Len(t) : k + i \in 1..Len(s) /\ (\A j \in 1..k : j < k + i)
      /\ \A i \in 1..Len(s) : i \in 1..k \/ (i - k \in 1..Len(t) /\ s[i] = t[i - k])
  <2>1. \A i \in 1..k : i \in 1..Len(s) BY <1>1
  <2>2. \A i \in 1..Len(t) : k + i \in 1..Len(s) BY <1>1
  <2>3. \A i \in 1..Len(t) : \A j \in 1..k : j < k + i BY <1>1
  <2>4. \A i \in 1..Len(s) : i \in 1..k \/ (i - k \in 1..Len(t) /\ s[i] = t[i - k])
    <3> SUFFICES ASSUME NEW i \in 1..Len(s), i \notin 1..k
                 PROVE  i - k \in 1..Len(t) /\ s[i] = t[i - k]
      OBVIOUS
    <3>1. i - k \in 1..Len(t) BY <1>1
    <3>2. k + (i - k) = i BY <1>1
    <3> QED BY <1>1, <3>1, <3>2
  <2> QED BY <2>1, <2>2, <2>3, <2>4
<1>3. Numbers(s) = (c \ {0}) \cup Numbers(t)
  <2>1. \A x \in Numbers(s) : x \in (c \ {0}) \cup Numbers(t)
    <3> SUFFICES ASSUME NEW i \in 1..Len(s), s[i].n # 0
                 PROVE  s[i].n \in (c \ {0}) \cup Numbers(t)
      BY DEF Numbers
    <3>1. CASE i \in 1..k BY <1>0, <3>1
    <3>2. CASE i \notin 1..k
      <4>1. i - k \in 1..Len(t) /\ s[i] = t[i - k] BY <1>2, <3>2
      <4> QED BY <4>1 DEF Numbers
    <3> QED BY <3>1, <3>2
  <2>2. \A x \in c \ {0} : x \in Numbers(s) BY <1>0, <1>2 DEF Numbers
  <2>3. \A x \in Numbers(t) : x \in Numbers(s) BY <1>0, <1>1, <1>2 DEF Numbers
  <2> QED BY <2>1, <2>2, <2>3
<1>4. Before(c \ {0}, Numbers(t)) BY <1>0, <1>1, <1>2 DEF Before, Numbers, Rising
<1>5. Kinds(t) \subseteq Kinds(s) BY <1>1, <1>2 DEF Kinds
<1>6. Rising(t)
  <2>1. \A i \in 1..Len(t) : t[i].kind = "data" <=> t[i].n # 0 BY <1>1, <1>2 DEF Rising
  <2>2. \A i, j \in 1..Len(t) : i < j /\ t[i].n # 0 /\ t[j].n # 0 => t[i].n < t[j].n
    <3> SUFFICES ASSUME NEW i \in 1..Len(t), NEW j \in 1..Len(t), i < j, t[i].n # 0, t[j].n # 0
                 PROVE  t[i].n < t[j].n
      OBVIOUS
    <3>1. k + i < k + j BY <1>1
    <3> QED BY <1>1, <1>2, <3>1 DEF Rising
  <2> QED BY <2>1, <2>2 DEF Rising
<1>7. ASSUME Kinds(s) \subseteq {"data"}
      PROVE  0 \notin c /\ Chunk(c)
  <2>1. \A i \in 1..k : s[i].n # 0 BY <1>2, <1>7 DEF Kinds, Rising
  <2>5. 0 \notin c BY <1>0, <2>1
  <2>2. k \in 1..k BY <1>1
  <2>3. s[k].n \in c BY <1>0, <2>2
  <2>4. \A i \in 1..k : s[i].n <= s[k].n
    <3> SUFFICES ASSUME NEW i \in 1..k PROVE s[i].n <= s[k].n OBVIOUS
    <3>1. CASE i = k
      <4>1. s[k] \in Downward BY ElementOfSeq
      <4>2. s[k].n \in Nat BY <4>1 DEF Downward
      <4> QED BY <3>1, <4>2
    <3>2. CASE i < k
      <4>1. s[i].n < s[k].n BY <1>2, <2>1, <2>2, <3>2 DEF Rising
      <4>2. s[i] \in Downward /\ s[k] \in Downward BY <1>2, ElementOfSeq
      <4>3. s[i].n \in Nat /\ s[k].n \in Nat BY <4>2 DEF Downward
      <4> QED BY <4>1, <4>3
    <3>3. i = k \/ i < k BY <1>1
    <3> QED BY <3>1, <3>2, <3>3
  <2> QED BY <1>0, <2>3, <2>4, <2>5 DEF Chunk
<1> QED BY <1>3, <1>4, <1>5, <1>6, <1>7 DEF c, t

\* A status leaves the socket.
LEMMA DownTail ==
  ASSUME NEW s \in Seq(Downward), Rising(s), s # <<>>, s[1].n = 0
  PROVE  Rising(Tail(s)) /\ Numbers(Tail(s)) = Numbers(s)
<1> DEFINE t == Tail(s)
<1>1. /\ Len(s) \in Nat \ {0} /\ Len(t) = Len(s) - 1
      /\ \A i \in 1..Len(t) : t[i] = s[i + 1]
  BY HeadTail
<1>2. \A i \in 1..Len(t) : i + 1 \in 1..Len(s) BY <1>1
<1>3. \A i \in 1..Len(s) : i = 1 \/ (i - 1 \in 1..Len(t) /\ s[i] = t[i - 1]) BY <1>1
<1> HIDE DEF t
<1>4. Numbers(t) = Numbers(s)
  <2>1. \A x \in Numbers(t) : x \in Numbers(s) BY <1>1, <1>2 DEF Numbers
  <2>2. \A x \in Numbers(s) : x \in Numbers(t) BY <1>3 DEF Numbers
  <2> QED BY <2>1, <2>2
<1>5. Rising(t)
  <2>1. \A i \in 1..Len(t) : t[i].kind = "data" <=> t[i].n # 0 BY <1>1, <1>2 DEF Rising
  <2>2. \A i, j \in 1..Len(t) : i < j /\ t[i].n # 0 /\ t[j].n # 0 => t[i].n < t[j].n
    <3> SUFFICES ASSUME NEW i \in 1..Len(t), NEW j \in 1..Len(t), i < j, t[i].n # 0, t[j].n # 0
                 PROVE  t[i].n < t[j].n
      OBVIOUS
    <3>1. i + 1 < j + 1 BY <1>1
    <3> QED BY <1>1, <1>2, <3>1 DEF Rising
  <2> QED BY <2>1, <2>2 DEF Rising
<1> QED BY <1>4, <1>5 DEF t

------------------------------------------------------------------------------
(* A step of one stream leaves the others as they are. *)

SameOwner(m)   == phase'[m] = phase[m] /\ left'[m] = left[m] /\ (m \in streams' <=> m \in streams)
SameTask(m)    == chan'[m] = chan[m] /\ pump'[m] = pump[m] /\ hand'[m] = hand[m]
SameSocket(m)  ==
  conn'[m] = conn[m] /\ up'[m] = up[m] /\ down'[m] = down[m] /\ (m \in ended' <=> m \in ended)
SameDevice(m)  == remote'[m] = remote[m] /\ (m \in busy' <=> m \in busy)
SameData(m)    == sent'[m] = sent[m] /\ taken'[m] = taken[m] /\ lost'[m] = lost[m] /\ (m \in eof' <=> m \in eof)
SameHistory(m) ==
  requests'[m] = requests[m] /\ got'[m] = got[m] /\ acked'[m] = acked[m] /\ SameData(m)

Same(m) == SameOwner(m) /\ SameTask(m) /\ SameSocket(m) /\ SameDevice(m) /\ SameHistory(m)

LEMMA Frame ==
  ASSUME NEW m \in Local, StreamInv(m), Same(m)
  PROVE  StreamInv(m)'
<1> USE DEF Same, SameOwner, SameTask, SameSocket, SameDevice, SameHistory, SameData, StreamInv
<1>1. OpenInv(m)'
  BY DEF OpenInv, Fresh, Unopened, Transporting, Connecting
<1>2. LineInv(m)' BY DEF LineInv, Due
<1>3. DataInv(m)' BY DEF DataInv, OnTheWay, Promise!Unread
<1>4. DepthInv(m)' BY DEF DepthInv
<1> QED BY <1>1, <1>2, <1>3, <1>4

LEMMA Others ==
  ASSUME Types, NEW l \in Local, Owner(l) \/ Pump(l) \/ Far(l),
         NEW m \in Local, m # l
  PROVE  Same(m)
<1> USE DEF Same, SameOwner, SameTask, SameSocket, SameDevice, SameHistory, SameData,
            Types, OwnerTypes, TaskTypes, SocketTypes, DeviceTypes, HistoryTypes,
            owner, task, socket, device, history, At, Go, Put, HangUp, TakeStatus, Abort, Post
<1>1. CASE Owner(l)
  <2>1. CASE OpenStream(l) BY <2>1 DEF OpenStream
  <2>2. CASE TransportOkay(l) BY <2>2 DEF TransportOkay
  <2>3. CASE ServiceOkay(l) BY <2>3 DEF ServiceOkay
  <2>4. CASE OpenFails(l) BY <2>4 DEF OpenFails
  <2>5. CASE Write(l) BY <2>5 DEF Write
  <2>6. CASE WritePiece(l) BY <2>6 DEF WritePiece
  <2>7. CASE WriteFails(l) BY <2>7 DEF WriteFails
  <2>8. CASE Read(l) BY <2>8 DEF Read
  <2>9. CASE ReadClosed(l) BY <2>9 DEF ReadClosed
  <2>10. CASE CloseStream(l) BY <2>10 DEF CloseStream
  <2> QED BY <1>1, <2>1, <2>2, <2>3, <2>4, <2>5, <2>6, <2>7, <2>8, <2>9, <2>10 DEF Owner
<1>2. CASE Pump(l)
  <2>1. CASE PumpReads(l) BY <2>1 DEF PumpReads
  <2>2. CASE PumpSends(l) BY <2>2 DEF PumpSends
  <2>3. CASE PumpEnds(l) BY <2>3 DEF PumpEnds
  <2> QED BY <1>2, <2>1, <2>2, <2>3 DEF Pump
<1>3. CASE Far(l)
  <2>1. CASE AdbAnswers(l) BY <2>1 DEF AdbAnswers
  <2>2. CASE ServiceReads(l) BY <2>2 DEF ServiceReads
  <2>3. CASE ServiceBegins(l) BY <2>3 DEF ServiceBegins
  <2>4. CASE ServiceSends(l) BY <2>4 DEF ServiceSends
  <2>5. CASE ServiceEnds(l) BY <2>5 DEF ServiceEnds
  <2>6. CASE Break(l) BY <2>6 DEF Break
  <2> QED BY <1>3, <2>1, <2>2, <2>3, <2>4, <2>5, <2>6 DEF Far
<1> QED BY <1>1, <1>2, <1>3

------------------------------------------------------------------------------
(* A step of a stream keeps its invariant. *)

\* The types, for one stream.
TypesAt(l) ==
  /\ phase[l] \in Phase /\ left[l] \in Nat
  /\ chan[l] \in Seq(SUBSET Nat) /\ hand[l] \in SUBSET Nat
  /\ up[l] \in Seq(Upward) /\ down[l] \in Seq(Downward)
  /\ requests[l] \in Nat /\ got[l] \in Nat /\ acked[l] \in Nat /\ sent[l] \in Nat
  /\ taken[l] \in SUBSET Nat /\ lost[l] \in SUBSET Nat

LEMMA TypesOf == ASSUME Types, NEW l \in Local PROVE TypesAt(l)
BY DEF Types, TypesAt, OwnerTypes, TaskTypes, SocketTypes, HistoryTypes

LEMMA TypesOfNext == ASSUME Types', NEW l \in Local PROVE TypesAt(l)'
BY DEF Types, TypesAt, OwnerTypes, TaskTypes, SocketTypes, HistoryTypes

\* Unread payloads, when none was sent, taken or lost.
LEMMA SameUnread ==
  ASSUME NEW l \in Local, SameData(l)
  PROVE  Promise!Unread(l)' = Promise!Unread(l)
BY DEF SameData, Promise!Unread

\* Empty queues.
LEMMA EmptyQueues ==
  /\ Content(<<>>) = {} /\ Numbers(<<>>) = {} /\ Kinds(<<>>) = {}
  /\ Sorted(<<>>) /\ Rising(<<>>) /\ \A g \in Nat : InLine(<<>>, g) /\ EndOf(<<>>, g) = g + 1
  /\ Len(<<>>) = 0
<1>1. Len(<<>>) = 0 /\ 1..0 = {} OBVIOUS
<1>2. Content(<<>>) = {} /\ Numbers(<<>>) = {} /\ Kinds(<<>>) = {}
  BY <1>1 DEF Content, Numbers, Kinds
<1>3. Sorted(<<>>) /\ Rising(<<>>) BY <1>1 DEF Sorted, Rising
<1>4. \A g \in Nat : InLine(<<>>, g) /\ EndOf(<<>>, g) = g + 1 BY <1>1 DEF InLine, EndOf
<1> QED BY <1>1, <1>2, <1>3, <1>4

\* A request in an empty queue.
LEMMA OneRequest ==
  ASSUME NEW k \in {"transport", "service"}
  PROVE  /\ Request(k) \in Upward /\ InLine(<<Request(k)>>, 0)
         /\ Len(<<Request(k)>>) = 1 /\ <<Request(k)>> # <<>>
         /\ \A i \in 1..Len(<<Request(k)>>) : <<Request(k)>>[i].n = 1
<1>1. Request(k) \in Upward /\ Request(k).n = 1 BY DEF Request, Upward
<1>2. Len(<<Request(k)>>) = 1 /\ <<Request(k)>>[1] = Request(k) BY Single
<1>3. InLine(<<Request(k)>>, 0) BY <1>1, <1>2 DEF InLine
<1>4. \A i \in 1..Len(<<Request(k)>>) : <<Request(k)>>[i].n = 1 BY <1>1, <1>2
<1> QED BY <1>1, <1>2, <1>3, <1>4, Single

\* A status in an empty socket, and behind it nothing.
LEMMA OneAnswer ==
  ASSUME NEW k \in {"OKAY", "FAIL"}
  PROVE  /\ Answer(k) \in Downward /\ Rising(<<Answer(k)>>) /\ Numbers(<<Answer(k)>>) = {}
         /\ Len(<<Answer(k)>>) = 1 /\ Kinds(<<Answer(k)>>) = {k}
<1>1. Answer(k) \in Downward /\ Answer(k).n = 0 /\ Answer(k).kind = k BY DEF Answer, Downward
<1>2. Append(<<>>, Answer(k)) = <<Answer(k)>> BY Single
<1>3. <<>> \in Seq(Downward) OBVIOUS
<1>4. Rising(<<Answer(k)>>) /\ Numbers(<<Answer(k)>>) = {} /\ Kinds(<<Answer(k)>>) = {k}
  <2> DEFINE d == Answer(k)
             e == <<>>
  <2>1. d \in Downward /\ d.n = 0 /\ d.kind = k /\ Append(e, d) = <<Answer(k)>> /\ e \in Seq(Downward)
    BY <1>1, <1>2, <1>3
  <2>2. Rising(e) /\ Numbers(e) = {} /\ Kinds(e) = {} BY EmptyQueues
  <2> HIDE DEF d, e
  <2>3. /\ Rising(Append(e, d))
        /\ Numbers(Append(e, d)) = Numbers(e) \cup ({d.n} \ {0})
        /\ Kinds(Append(e, d)) = Kinds(e) \cup {d.kind}
    BY <2>1, <2>2, DownAppended
  <2> QED BY <2>1, <2>2, <2>3
<1> QED BY <1>1, <1>4, Single

\* Requests: an empty queue, and the only request of an open.
LEMMA NoLine ==
  ASSUME NEW l \in Local, up'[l] = <<>>, got'[l] \in Nat, got'[l] <= requests'[l],
         phase'[l] \in {"idle", "writing"} => conn'[l] # "up",
         phase'[l] = "writing" => left'[l] > 0
  PROVE  LineInv(l)'
<1>1. Len(up'[l]) = 0 /\ InLine(up'[l], got'[l]) BY EmptyQueues
<1> QED BY <1>1 DEF LineInv

LEMMA OneLine ==
  ASSUME NEW l \in Local, NEW k \in {"transport", "service"}, up'[l] = <<Request(k)>>,
         got'[l] = 0, requests'[l] = 1, phase'[l] \notin {"idle", "writing"}
  PROVE  LineInv(l)'
<1> DEFINE q == <<Request(k)>>
<1>1. InLine(q, 0) /\ \A i \in 1..Len(q) : q[i].n = 1 BY OneRequest
<1>2. up'[l] = q OBVIOUS
<1> HIDE DEF q
<1>3. InLine(up'[l], 0) BY <1>1, <1>2
<1>4. \A i \in 1..Len(up'[l]) : up'[l][i].n = 1 BY <1>1, <1>2
<1> QED BY <1>3, <1>4 DEF LineInv

\* Payloads: nothing of them moves; or all that was in the host is gone.
LEMMA DataKept ==
  ASSUME NEW l \in Local, DataInv(l), SameData(l), phase[l] # "over",
         chan'[l] = chan[l], hand'[l] = hand[l],
         Numbers(down'[l]) = Numbers(down[l]), Rising(down'[l]),
         pump'[l] = "sending" <=> pump[l] = "sending",
         pump'[l] = "done" => down'[l] = <<>> /\ (l \in ended' \/ conn'[l] # "up"),
         l \in eof => pump'[l] = "done"
  PROVE  DataInv(l)'
<1>1. Promise!Unread(l)' = Promise!Unread(l) BY SameUnread
<1>2. OnTheWay(l)' = OnTheWay(l) BY DEF OnTheWay
<1> QED BY <1>1, <1>2 DEF DataInv, SameData

LEMMA DataGone ==
  ASSUME NEW l \in Local, DataInv(l), SameData(l), phase'[l] = "over", conn'[l] # "up",
         chan'[l] = <<>>, hand'[l] = {}, down'[l] = <<>>, pump'[l] \in {"none", "done"},
         l \in eof => pump'[l] = "done"
  PROVE  DataInv(l)'
<1>1. OnTheWay(l)' = {} BY EmptyQueues DEF OnTheWay
<1>2. Content(chan'[l]) = {} /\ Sorted(chan'[l]) /\ Rising(down'[l]) BY EmptyQueues
<1> QED BY <1>1, <1>2 DEF DataInv, SameData, Before

\* Depths: queues of at most one element, or that have not grown.
LEMMA Shallow ==
  ASSUME NEW l \in Local, DepthInv(l), TypesAt(l), TypesAt(l)',
         Len(up'[l]) <= 1 \/ Len(up'[l]) <= Len(up[l]),
         Len(down'[l]) <= 1 \/ Len(down'[l]) <= Len(down[l]),
         Len(chan'[l]) <= Len(chan[l])
  PROVE  DepthInv(l)'
<1>1. Len(up[l]) \in Nat /\ Len(down[l]) \in Nat /\ Len(chan[l]) \in Nat
  <2>1. up[l] \in Seq(Upward) /\ down[l] \in Seq(Downward) /\ chan[l] \in Seq(SUBSET Nat)
    BY DEF TypesAt
  <2> QED BY ONLY <2>1
<1>2. Len(up'[l]) \in Nat /\ Len(down'[l]) \in Nat /\ Len(chan'[l]) \in Nat
  <2>1. up'[l] \in Seq(Upward) /\ down'[l] \in Seq(Downward) /\ chan'[l] \in Seq(SUBSET Nat)
    BY DEF TypesAt
  <2> QED BY ONLY <2>1
<1>3. Len(up'[l]) <= SocketDepth BY <1>1, <1>2, DepthAssumption DEF DepthInv
<1>4. Len(down'[l]) <= SocketDepth BY <1>1, <1>2, DepthAssumption DEF DepthInv
<1>5. Len(chan'[l]) <= QueueDepth BY <1>1, <1>2, DepthAssumption DEF DepthInv
<1> QED BY <1>3, <1>4, <1>5 DEF DepthInv

\* open_stream.
LEMMA OpenKeeps ==
  ASSUME Types, NEW l \in Local, StreamInv(l), OpenStream(l)
  PROVE  StreamInv(l)'
<1> USE DEF StreamInv, At, Go, Put
<1>1. Fresh(l) /\ phase[l] = "none" BY DEF OpenStream, OpenInv
<1>2. /\ requests'[l] = 1 /\ SameTask(l) /\ SameDevice(l) /\ SameData(l)
      /\ down'[l] = <<>> /\ got'[l] = 0 /\ acked'[l] = 0 /\ left'[l] = left[l]
      /\ l \notin ended' /\ l \notin streams'
  BY <1>1 DEF OpenStream, Types, HistoryTypes, Fresh, Unopened, OpenInv, Open,
              SameTask, SameDevice, SameData, task, device
<1> DEFINE q == <<Request("transport")>>
<1>3. \/ conn'[l] = "up" /\ up'[l] = q /\ phase'[l] = "transport"
      \/ conn'[l] = "none" /\ up'[l] = <<>> /\ phase'[l] = "over"
  <2> DEFINE u == Request("transport")
  <2>1. \/ conn' = [conn EXCEPT ![l] = "up"] /\ up' = [up EXCEPT ![l] = Append(@, u)]
           /\ phase' = [phase EXCEPT ![l] = "transport"]
        \/ conn' = conn /\ up' = up /\ phase' = [phase EXCEPT ![l] = "over"]
    BY DEF OpenStream, Request
  <2>2. up[l] = <<>> /\ conn[l] = "none" BY <1>1 DEF Fresh, OpenInv
  <2>3. Append(<<>>, u) = q BY Single
  <2> HIDE DEF u, q
  <2> QED BY <2>1, <2>2, <2>3 DEF Types, OwnerTypes, SocketTypes
<1>8. /\ q \in Seq(Upward) /\ InLine(q, 0) /\ Len(q) = 1 /\ q # <<>>
      /\ \A i \in 1..Len(q) : q[i].n = 1
  BY OneRequest
<1>4. OpenInv(l)'
  BY <1>1, <1>2, <1>3, EmptyQueues
     DEF OpenInv, Fresh, Unopened, Transporting, Asking, Open, SameTask, SameDevice, SameData
<1> HIDE DEF q
<1>5. LineInv(l)'
  <2>1. CASE up'[l] = q
    <3>1. InLine(up'[l], 0) BY <1>8, <2>1
    <3>2. \A i \in 1..Len(up'[l]) : up'[l][i].n = 1 BY <1>8, <2>1
    <3>3. phase'[l] \notin {"idle", "writing"} BY <1>3
    <3> QED BY <1>2, <3>1, <3>2, <3>3 DEF LineInv
  <2>2. CASE up'[l] = <<>>
    <3>1. Len(up'[l]) = 0 /\ InLine(up'[l], 0) BY <2>2, EmptyQueues
    <3> QED BY <1>2, <1>3, <3>1 DEF LineInv
  <2> QED BY <1>3, <2>1, <2>2
<1>6. DataInv(l)'
  BY <1>1, <1>2, EmptyQueues DEF DataInv, OnTheWay, Promise!Unread, Fresh, Unopened,
     SameTask, SameData, Before
<1>7. DepthInv(l)'
  <2>1. Len(chan'[l]) = 0 /\ Len(down'[l]) = 0
    BY <1>1, <1>2, EmptyQueues DEF Fresh, Unopened, SameTask
  <2>2. CASE up'[l] = q
    <3>1. Len(up'[l]) = 1 BY <1>8, <2>2
    <3> QED BY <2>1, <3>1, DepthAssumption DEF DepthInv
  <2>3. CASE up'[l] = <<>>
    <3>1. Len(up'[l]) = 0 BY <2>3
    <3> QED BY <2>1, <3>1, DepthAssumption DEF DepthInv
  <2> QED BY <1>3, <2>2, <2>3
<1> QED BY <1>4, <1>5, <1>6, <1>7

\* The two answers of an open.
LEMMA OkayKeeps ==
  ASSUME Types, Types', NEW l \in Local, StreamInv(l), TransportOkay(l) \/ ServiceOkay(l)
  PROVE  StreamInv(l)'
<1> USE DEF StreamInv, At, Go, Put, TakeStatus, task, device, history
<1>1. TypesAt(l) /\ TypesAt(l)' BY TypesOf, TypesOfNext
<1>2. phase[l] \in Asking /\ down[l] # <<>> /\ Head(down[l]).kind = "OKAY"
  BY DEF TransportOkay, ServiceOkay, Status, Asking
<1>3. conn[l] = "up" BY <1>2 DEF OpenInv, Asking
<1>4. CASE TransportOkay(l)
  <2>1. up[l] = <<>> /\ down[l] = <<Answer("OKAY")>> /\ l \notin ended
    BY <1>2, <1>3, <1>4, Single DEF TransportOkay, OpenInv, Transporting, Answer
  <2>2. up'[l] = <<Request("service")>> /\ down'[l] = <<>> /\ phase'[l] = "service"
    <3> DEFINE u == Request("service")
    <3>1. up' = [up EXCEPT ![l] = Append(@, u)] BY <1>4 DEF TransportOkay, Request
    <3>2. Append(<<>>, u) = <<u>> BY Single
    <3>3. down' = [down EXCEPT ![l] = Tail(@)] /\ phase' = [phase EXCEPT ![l] = "service"]
      BY <1>4 DEF TransportOkay
    <3>4. Tail(down[l]) = <<>> BY <2>1, Single
    <3> HIDE DEF u
    <3> QED BY <2>1, <3>1, <3>2, <3>3, <3>4 DEF Types, OwnerTypes, SocketTypes, u
  <2>3. /\ SameTask(l) /\ SameDevice(l) /\ SameHistory(l) /\ conn'[l] = conn[l]
        /\ l \notin ended' /\ l \notin streams'
    BY <1>2, <1>4, <2>1 DEF TransportOkay, SameTask, SameDevice, SameHistory, SameData,
       OpenInv, Open, Asking
  <2>4. phase[l] = "transport" /\ Unopened(l) /\ Transporting(l) /\ requests[l] = 1
    BY <1>4 DEF TransportOkay, OpenInv, Asking
  <2>5. OpenInv(l)'
    BY <1>3, <2>2, <2>3, <2>4 DEF OpenInv, Asking, Open, Unopened, Transporting, Connecting,
       SameTask, SameDevice, SameHistory, SameData
  <2>6. LineInv(l)' BY <2>2, <2>3, <2>4, OneLine DEF SameHistory, Transporting
  <2>7. Numbers(down'[l]) = Numbers(down[l]) /\ Rising(down'[l])
    BY <2>1, <2>2, OneAnswer, EmptyQueues
  <2>8. DataInv(l)' BY <2>3, <2>4, <2>7, DataKept DEF SameTask, SameHistory, Unopened
  <2>9. DepthInv(l)'
    <3>1. Len(up'[l]) = 1 BY <2>2, OneRequest
    <3>2. Len(down'[l]) = 0 /\ Len(chan'[l]) = Len(chan[l]) /\ Len(chan[l]) \in Nat
      BY <1>1, <2>2, <2>3 DEF SameTask, TypesAt
    <3>3. Len(up'[l]) <= 1 /\ Len(down'[l]) <= 1 /\ Len(chan'[l]) <= Len(chan[l])
      BY <3>1, <3>2
    <3> QED BY ONLY <1>1, <3>3, Shallow, DepthInv(l)
  <2> QED BY <2>5, <2>6, <2>8, <2>9
<1>5. CASE ServiceOkay(l)
  <2>1. /\ up[l] = <<>> /\ down[l][1] = Answer("OKAY") /\ got[l] = 1
        /\ Kinds(Tail(down[l])) \subseteq {"data"}
    <3>1. Head(<<Answer("FAIL")>>).kind = "FAIL" BY Single DEF Answer
    <3> QED BY <1>2, <1>3, <1>5, <3>1 DEF ServiceOkay, OpenInv, Connecting
  <2>2. phase[l] = "service" /\ Unopened(l) /\ requests[l] = 1
    BY <1>5 DEF ServiceOkay, OpenInv, Asking
  <2>3. /\ phase'[l] = "idle" /\ down'[l] = Tail(down[l]) /\ pump'[l] = "reading"
        /\ l \in streams' /\ acked'[l] = 1 /\ up'[l] = <<>> /\ conn'[l] = "up"
        /\ chan'[l] = chan[l] /\ hand'[l] = hand[l] /\ requests'[l] = 1 /\ got'[l] = 1
        /\ SameData(l)
    BY <1>3, <1>5, <2>1, <2>2
       DEF ServiceOkay, SameData, Types, OwnerTypes, TaskTypes, SocketTypes, HistoryTypes
  <2>4. OpenInv(l)'
    BY <2>1, <2>3, EmptyQueues DEF OpenInv, Asking, Open
  <2>5. LineInv(l)'
    <3>1. Len(up'[l]) = 0 /\ InLine(up'[l], 1) /\ EndOf(up'[l], 1) = 2
      BY <2>3, EmptyQueues
    <3>2. Due(l)' = 2 BY <2>3 DEF Due
    <3> QED BY <2>3, <3>1, <3>2 DEF LineInv
  <2>6. Numbers(down'[l]) = Numbers(down[l]) /\ Rising(down'[l])
    <3>1. down[l][1].n = 0 BY <2>1 DEF Answer
    <3> QED BY <1>1, <1>2, <2>3, <3>1, DownTail DEF TypesAt, DataInv
  <2>7. DataInv(l)' BY <2>2, <2>3, <2>6, DataKept DEF Unopened
  <2>8. DepthInv(l)'
    <3>1. Len(Tail(down[l])) = Len(down[l]) - 1 /\ Len(down[l]) \in Nat \ {0}
      BY <1>1, <1>2, HeadTail DEF TypesAt
    <3>2. /\ Len(up'[l]) = 0 /\ Len(chan'[l]) = Len(chan[l]) /\ Len(chan[l]) \in Nat
          /\ Len(down'[l]) = Len(down[l]) - 1
      BY <1>1, <2>3, <3>1 DEF TypesAt
    <3> QED BY <1>1, <3>1, <3>2, Shallow
  <2> QED BY <2>4, <2>5, <2>7, <2>8
<1> QED BY <1>4, <1>5

\* An open that fails.
LEMMA OpenFailsKeeps ==
  ASSUME Types, Types', NEW l \in Local, StreamInv(l), OpenFails(l)
  PROVE  StreamInv(l)'
<1> USE DEF StreamInv, At, Go, HangUp, task, device, history
<1>1. TypesAt(l) /\ TypesAt(l)' BY TypesOf, TypesOfNext
<1>2. phase[l] \in Asking /\ Unopened(l) /\ requests[l] = 1 /\ conn[l] \in {"up", "down"}
  BY DEF OpenFails, OpenInv, Asking, Opening
<1>3. up[l] = <<>> /\ got[l] <= requests[l]
  <2>1. got[l] <= requests[l] BY DEF LineInv
  <2>2. CASE conn[l] = "down" BY <2>1, <2>2 DEF OpenInv
  <2>3. CASE conn[l] = "up"
    <3>1. \/ down[l] # <<>> /\ Head(down[l]).kind = "FAIL"
          \/ down[l] = <<>> /\ l \in ended
      <4>1. Status(l, "FAIL") \/ (down[l] = <<>> /\ (l \in ended \/ conn[l] = "down"))
        BY DEF OpenFails
      <4>2. CASE Status(l, "FAIL") BY <4>2 DEF Status
      <4>3. CASE down[l] = <<>> /\ (l \in ended \/ conn[l] = "down") BY <2>3, <4>3
      <4> QED BY <4>1, <4>2, <4>3
    <3>2. Head(<<Answer("OKAY")>>).kind # "FAIL" BY Single DEF Answer
    <3>3. Head(down[l]) = down[l][1] \/ down[l] = <<>> BY <1>1, HeadTail DEF TypesAt
    <3>4. Answer("OKAY").kind # "FAIL" BY DEF Answer
    <3>5. CASE phase[l] = "transport"
      BY <2>1, <2>3, <3>1, <3>2, <3>5 DEF OpenInv, Transporting
    <3>6. CASE phase[l] = "service"
      BY <2>1, <2>3, <3>1, <3>3, <3>4, <3>6 DEF OpenInv, Connecting
    <3> QED BY <1>2, <3>5, <3>6 DEF Asking
  <2> QED BY <1>2, <2>2, <2>3
<1>4. /\ phase'[l] = "over" /\ down'[l] = <<>> /\ up'[l] = <<>> /\ conn'[l] \in {"closing", "down"}
      /\ SameTask(l) /\ SameDevice(l) /\ SameHistory(l) /\ (l \in streams' <=> l \in streams)
  BY <1>2, <1>3 DEF OpenFails, SameTask, SameDevice, SameHistory, SameData,
     Types, OwnerTypes, SocketTypes
<1>5. OpenInv(l)'
  <2>1. l \notin streams BY <1>2 DEF OpenInv, Asking, Open
  <2>2. Kinds(up'[l]) = {} /\ Kinds(down'[l]) = {} BY <1>4, EmptyQueues
  <2> QED BY <1>2, <1>4, <2>1, <2>2 DEF OpenInv, Asking, Open, Unopened, SameTask
<1>6. LineInv(l)'
  <2>1. got'[l] \in Nat /\ got'[l] <= requests'[l] BY <1>1, <1>3, <1>4 DEF TypesAt, SameHistory
  <2> QED BY <1>4, <2>1, NoLine
<1>7. DataInv(l)' BY <1>2, <1>4, DataGone DEF SameTask, SameHistory, Unopened
<1>8. DepthInv(l)'
  <2>1. Len(up'[l]) <= 1 /\ Len(down'[l]) <= 1 /\ Len(chan'[l]) <= Len(chan[l])
    <3>1. Len(up'[l]) = 0 /\ Len(down'[l]) = 0 BY <1>4, EmptyQueues
    <3>2. Len(chan'[l]) = Len(chan[l]) /\ Len(chan[l]) \in Nat BY <1>1, <1>4 DEF TypesAt, SameTask
    <3> QED BY <3>1, <3>2
  <2> QED BY ONLY <1>1, <2>1, Shallow, DepthInv(l), l \in Local
<1> QED BY <1>5, <1>6, <1>7, <1>8

\* write, up to its first piece.
LEMMA WriteKeeps ==
  ASSUME Types, Types', NEW l \in Local, StreamInv(l), Write(l)
  PROVE  StreamInv(l)'
<1> USE DEF StreamInv, At, Go, task, socket, device
<1>1. TypesAt(l) /\ TypesAt(l)' BY TypesOf, TypesOfNext
<1>2. /\ phase[l] = "idle" /\ phase'[l] = "writing" /\ requests'[l] = requests[l] + 1
      /\ left'[l] > 0 /\ (l \in streams' <=> l \in streams)
      /\ SameTask(l) /\ SameSocket(l) /\ SameDevice(l) /\ SameData(l)
      /\ got'[l] = got[l] /\ acked'[l] = acked[l]
  BY DEF Write, SameTask, SameSocket, SameDevice, SameData, Types, OwnerTypes, HistoryTypes
<1>3. OpenInv(l)'
  BY <1>1, <1>2 DEF OpenInv, Asking, Open, SameTask, SameSocket, TypesAt
<1>4. LineInv(l)'
  <2>1. got'[l] <= requests'[l] BY <1>1, <1>2 DEF LineInv, TypesAt
  <2>2. \A i \in 1..Len(up'[l]) : up'[l][i].n <= requests'[l]
    <3> SUFFICES ASSUME NEW i \in 1..Len(up[l]) PROVE up[l][i].n <= requests[l] + 1
      BY <1>2 DEF SameSocket
    <3>1. up[l][i] \in Upward BY <1>1, ElementOfSeq DEF TypesAt
    <3>2. up[l][i].n \in Nat BY <3>1 DEF Upward
    <3>3. up[l][i].n <= requests[l] BY DEF LineInv
    <3> DEFINE n == up[l][i].n
               r == requests[l]
    <3>4. n \in Nat /\ r \in Nat /\ n <= r BY <1>1, <3>2, <3>3 DEF TypesAt
    <3> HIDE DEF n, r
    <3>5. n <= r + 1 BY ONLY <3>4
    <3> QED BY <3>5 DEF n, r
  <2>3. Due(l)' = Due(l) BY <1>2 DEF Due
  <2> QED BY <1>2, <2>1, <2>2, <2>3 DEF LineInv, SameSocket
<1>5. DataInv(l)' BY <1>2, DataKept DEF DataInv, SameTask, SameSocket
<1>6. DepthInv(l)' BY <1>2 DEF DepthInv, SameTask, SameSocket
<1> QED BY <1>3, <1>4, <1>5, <1>6

\* A piece of a write.
LEMMA WritePieceKeeps ==
  ASSUME Types, Types', NEW l \in Local, StreamInv(l), WritePiece(l)
  PROVE  StreamInv(l)'
<1> USE DEF StreamInv, At, Go, Put, task, device
<1>1. TypesAt(l) /\ TypesAt(l)' BY TypesOf, TypesOfNext
<1> DEFINE u == [kind |-> "piece", n |-> requests[l], last |-> left[l] = 1]
<1>2. u \in Upward /\ u.n = requests[l] /\ u.kind = "piece" /\ u.last = (left[l] = 1)
  BY <1>1 DEF Upward, TypesAt
<1>3. up' = [up EXCEPT ![l] = Append(@, u)] BY DEF WritePiece
<1> HIDE DEF u
<1>4. up'[l] = Append(up[l], u) BY <1>3 DEF Types, SocketTypes
<1>5. /\ phase[l] = "writing" /\ conn[l] = "up" /\ Len(up[l]) < SocketDepth
      /\ conn'[l] = "up" /\ (l \in streams' <=> l \in streams) /\ left'[l] = left[l] - 1
      /\ SameTask(l) /\ SameDevice(l) /\ SameData(l) /\ down'[l] = down[l]
      /\ (l \in ended' <=> l \in ended) /\ got'[l] = got[l] /\ requests'[l] = requests[l]
  BY DEF WritePiece, SameTask, SameDevice, SameData, Types, OwnerTypes
<1>6. \/ left[l] = 1 /\ phase'[l] = "idle" /\ acked'[l] = requests[l]
      \/ left[l] # 1 /\ phase'[l] = "writing" /\ acked'[l] = acked[l]
  BY <1>5 DEF WritePiece, Types, OwnerTypes, HistoryTypes
<1>7. /\ Len(up'[l]) = Len(up[l]) + 1 /\ Len(up[l]) \in Nat /\ up'[l][Len(up[l]) + 1] = u
      /\ \A i \in 1..Len(up[l]) : up'[l][i] = up[l][i]
  BY <1>1, <1>2, <1>4, Appended DEF TypesAt
<1>8. OpenInv(l)'
  <2>1. Kinds(up'[l]) \subseteq {"piece"}
    <3>1. Kinds(up[l]) \subseteq {"piece"} BY <1>5 DEF OpenInv, Asking
    <3> SUFFICES ASSUME NEW i \in 1..Len(up'[l]) PROVE up'[l][i].kind = "piece" BY DEF Kinds
    <3>2. CASE i = Len(up[l]) + 1 BY <1>2, <1>7, <3>2
    <3>3. CASE i \in 1..Len(up[l]) BY <1>7, <3>1, <3>3 DEF Kinds
    <3> QED BY <1>7, <3>2, <3>3
  <2> QED BY <1>1, <1>5, <1>6, <2>1 DEF OpenInv, Asking, Open, SameTask, TypesAt
<1>9. LineInv(l)'
  <2>1. requests[l] = EndOf(up[l], got[l]) /\ InLine(up[l], got[l])
    BY <1>5 DEF LineInv, Due
  <2>2. InLine(up'[l], got[l]) /\ EndOf(up'[l], got[l]) = Following(u)
    BY <1>1, <1>2, <1>4, <2>1, LineAppended DEF TypesAt
  <2>3. Due(l)' = Following(u) BY <1>2, <1>5, <1>6 DEF Due, Following
  <2>4. \A i \in 1..Len(up'[l]) : up'[l][i].n <= requests[l]
    <3> SUFFICES ASSUME NEW i \in 1..Len(up'[l]) PROVE up'[l][i].n <= requests[l] OBVIOUS
    <3>1. CASE i = Len(up[l]) + 1 BY <1>1, <1>2, <1>7, <3>1 DEF TypesAt
    <3>2. CASE i \in 1..Len(up[l]) BY <1>7, <3>2 DEF LineInv
    <3> QED BY <1>7, <3>1, <3>2
  <2>5. phase'[l] = "writing" => left'[l] > 0
    BY <1>1, <1>5, <1>6 DEF LineInv, TypesAt
  <2>6. got[l] <= requests[l] BY DEF LineInv
  <2> QED BY <1>5, <2>2, <2>3, <2>4, <2>5, <2>6 DEF LineInv
<1>10. DataInv(l)' BY <1>5, DataKept DEF DataInv, SameTask
<1>11. DepthInv(l)' BY <1>5, <1>7, DepthAssumption DEF DepthInv, SameTask
<1> QED BY <1>8, <1>9, <1>10, <1>11

\* A write that fails.
LEMMA WriteFailsKeeps ==
  ASSUME Types, Types', NEW l \in Local, StreamInv(l), WriteFails(l)
  PROVE  StreamInv(l)'
<1> USE DEF StreamInv, At, Go, task, socket, device, history
<1>1. /\ phase[l] = "writing" /\ phase'[l] = "failed" /\ conn[l] = "down"
      /\ SameTask(l) /\ SameSocket(l) /\ SameDevice(l) /\ SameHistory(l)
      /\ (l \in streams' <=> l \in streams)
  BY DEF WriteFails, SameTask, SameSocket, SameDevice, SameHistory, SameData, Types, OwnerTypes
<1>2. OpenInv(l)' BY <1>1 DEF OpenInv, Asking, Open, SameTask, SameSocket, SameHistory
<1>3. LineInv(l)' BY <1>1 DEF LineInv, SameSocket, SameHistory
<1>4. DataInv(l)' BY <1>1, DataKept DEF DataInv, SameTask, SameSocket, SameHistory
<1>5. DepthInv(l)' BY <1>1 DEF DepthInv, SameTask, SameSocket
<1> QED BY <1>2, <1>3, <1>4, <1>5

\* read, of a chunk.
LEMMA ReadKeeps ==
  ASSUME Types, Types', NEW l \in Local, StreamInv(l), Read(l)
  PROVE  StreamInv(l)'
<1> USE DEF StreamInv, At, owner, socket, device
<1>1. TypesAt(l) /\ TypesAt(l)' BY TypesOf, TypesOfNext
<1>2. /\ phase[l] = "idle" /\ chan[l] # <<>> /\ SameOwner(l) /\ SameSocket(l) /\ SameDevice(l)
      /\ chan'[l] = Tail(chan[l]) /\ taken'[l] = taken[l] \cup Head(chan[l])
      /\ pump'[l] = pump[l] /\ hand'[l] = hand[l] /\ sent'[l] = sent[l] /\ lost'[l] = lost[l]
      /\ requests'[l] = requests[l] /\ got'[l] = got[l] /\ acked'[l] = acked[l]
      /\ (l \in eof' <=> l \in eof)
  BY DEF Read, SameOwner, SameSocket, SameDevice, Types, TaskTypes, HistoryTypes
<1>3. /\ Content(chan[l]) = Head(chan[l]) \cup Content(chan'[l]) /\ Chunk(Head(chan[l]))
      /\ Before(Head(chan[l]), Content(chan'[l])) /\ Sorted(chan'[l])
  BY <1>1, <1>2, ChunkTail DEF TypesAt, DataInv
<1>4. OpenInv(l)' BY <1>2 DEF OpenInv, Asking, Open, SameOwner, SameSocket
<1>5. LineInv(l)' BY <1>2 DEF LineInv, Due, SameOwner, SameSocket
<1>6. DataInv(l)'
  <2>1. OnTheWay(l) = Head(chan[l]) \cup OnTheWay(l)'
    BY <1>2, <1>3 DEF OnTheWay, SameSocket
  <2>2. Before(Head(chan[l]), OnTheWay(l)')
    BY <1>2, <1>3 DEF DataInv, OnTheWay, SameSocket, Before
  <2>3. OnTheWay(l) \subseteq Promise!Unread(l) /\ Promise!Unread(l) \subseteq OnTheWay(l)
    BY <1>2 DEF DataInv
  <2>4. Head(chan[l]) \subseteq 1..sent[l] BY <2>1, <2>3 DEF Promise!Unread
  <2>5. Promise!Unread(l)' = Promise!Unread(l) \ Head(chan[l])
    BY <1>2 DEF Promise!Unread
  <2>6. \A x \in OnTheWay(l)' : x \notin Head(chan[l])
    <3> SUFFICES ASSUME NEW x \in OnTheWay(l)', x \in Head(chan[l]) PROVE FALSE OBVIOUS
    <3>1. x < x BY <2>2 DEF Before
    <3>2. x \in Nat BY <2>4
    <3> QED BY <3>1, <3>2
  <2>7. OnTheWay(l)' = Promise!Unread(l)' BY <2>1, <2>3, <2>5, <2>6
  <2>8. Before(Content(chan'[l]), hand[l] \cup Numbers(down[l])) BY <1>3 DEF DataInv, Before
  <2>9. (taken[l] \cup lost[l])' \subseteq 1..sent'[l] BY <1>2, <2>4 DEF DataInv
  <2>10. l \notin eof BY <1>2 DEF DataInv
  <2> QED BY <1>2, <1>3, <2>7, <2>8, <2>9, <2>10 DEF DataInv, SameSocket, SameOwner
<1>7. DepthInv(l)'
  <2>1. Len(chan'[l]) = Len(chan[l]) - 1 /\ Len(chan[l]) \in Nat
    BY <1>1, <1>2, HeadTail DEF TypesAt
  <2> QED BY <1>2, <2>1, DepthAssumption DEF DepthInv, SameSocket
<1> QED BY <1>4, <1>5, <1>6, <1>7

\* read, of the end.
LEMMA ReadClosedKeeps ==
  ASSUME Types, Types', NEW l \in Local, StreamInv(l), ReadClosed(l)
  PROVE  StreamInv(l)' /\ Promise!Unread(l) = {}
<1> USE DEF StreamInv, At, owner, task, socket, device
<1>1. /\ phase[l] = "idle" /\ chan[l] = <<>> /\ pump[l] = "done"
      /\ SameOwner(l) /\ SameTask(l) /\ SameSocket(l) /\ SameDevice(l)
      /\ sent'[l] = sent[l] /\ lost'[l] = lost[l] /\ taken'[l] = taken[l]
      /\ requests'[l] = requests[l] /\ got'[l] = got[l] /\ acked'[l] = acked[l]
  BY DEF ReadClosed, SameOwner, SameTask, SameSocket, SameDevice
<1>2. Promise!Unread(l) = {}
  <2>1. OnTheWay(l) = {} BY <1>1, EmptyQueues DEF OnTheWay, DataInv
  <2> QED BY <1>1, <2>1 DEF DataInv
<1>3. OpenInv(l)' BY <1>1 DEF OpenInv, Asking, Open, SameOwner, SameTask, SameSocket
<1>4. LineInv(l)' BY <1>1 DEF LineInv, Due, SameOwner, SameSocket
<1>5. DataInv(l)'
  <2>1. Promise!Unread(l)' = Promise!Unread(l) BY <1>1 DEF Promise!Unread
  <2>2. OnTheWay(l)' = OnTheWay(l) BY <1>1 DEF OnTheWay, SameTask, SameSocket
  <2> QED BY <1>1, <2>1, <2>2 DEF DataInv, SameOwner, SameTask, SameSocket
<1>6. DepthInv(l)' BY <1>1 DEF DepthInv, SameTask, SameSocket
<1> QED BY <1>2, <1>3, <1>4, <1>5, <1>6

\* close_stream, or Drop, of one stream.
Closes(l) ==
  /\ phase[l] \in {"none", "idle", "failed", "over"} /\ phase'[l] = "over"
  /\ l \notin streams' /\ left'[l] = left[l]
  /\ chan'[l] = <<>> /\ hand'[l] = {} /\ down'[l] = <<>> /\ up'[l] = up[l]
  /\ pump'[l] = IF l \in streams THEN "done" ELSE pump[l]
  /\ conn'[l] = IF l \in streams /\ conn[l] = "up" THEN "closing" ELSE conn[l]
  /\ (l \in ended' <=> l \in ended) /\ SameDevice(l) /\ SameHistory(l)

LEMMA CloseKeeps ==
  ASSUME Types, Types', NEW l \in Local, StreamInv(l), Closes(l)
  PROVE  StreamInv(l)'
<1> USE DEF StreamInv
<1>1. TypesAt(l) /\ TypesAt(l)' BY TypesOf, TypesOfNext
<1>2. pump'[l] \in {"none", "done"} /\ (l \in eof => pump'[l] = "done")
  <2>1. l \in streams <=> phase[l] \in Open BY DEF OpenInv
  <2>2. CASE phase[l] = "none" BY <2>1, <2>2 DEF Closes, OpenInv, Fresh, Unopened, Open
  <2>3. CASE phase[l] = "over" BY <2>1, <2>3 DEF Closes, OpenInv, DataInv, Open
  <2>4. CASE phase[l] \in Open BY <2>1, <2>4 DEF Closes
  <2> QED BY <2>2, <2>3, <2>4 DEF Closes, Open
<1>3. conn'[l] # "up" BY DEF Closes, OpenInv, Open
<1>4. OpenInv(l)'
  <2>1. Kinds(up'[l]) \subseteq {"piece"} BY DEF Closes, OpenInv, Asking
  <2>2. Kinds(down'[l]) = {} BY EmptyQueues DEF Closes
  <2>3. conn'[l] \notin {"up", "closing"} => up'[l] = <<>> BY DEF Closes, OpenInv
  <2> QED BY <1>2, <1>3, <2>1, <2>2, <2>3 DEF Closes, OpenInv, Asking, Open
<1>5. LineInv(l)' BY DEF Closes, LineInv, SameHistory
<1>6. DataInv(l)' BY <1>2, <1>3, DataGone DEF Closes, SameHistory
<1>7. DepthInv(l)'
  <2>1. Len(chan'[l]) = 0 /\ Len(down'[l]) = 0 BY EmptyQueues DEF Closes
  <2> QED BY <2>1, DepthAssumption DEF DepthInv, Closes
<1> QED BY <1>4, <1>5, <1>6, <1>7

LEMMA CloseStreamCloses ==
  ASSUME Types, NEW l \in Local, CloseStream(l)
  PROVE  Closes(l)
BY DEF CloseStream, Closes, Abort, HangUp, Go, device, history, SameDevice, SameHistory, SameData,
       Types, OwnerTypes, TaskTypes, SocketTypes

LEMMA DropCloses ==
  ASSUME Types, NEW l \in Local, DropServer
  PROVE  Closes(l)
BY DEF DropServer, Closes, At, device, history, SameDevice, SameHistory, SameData,
       Types, OwnerTypes, TaskTypes, SocketTypes

\* The pump reads.
LEMMA PumpReadsKeeps ==
  ASSUME Types, Types', NEW l \in Local, StreamInv(l), PumpReads(l)
  PROVE  StreamInv(l)'
<1> USE DEF StreamInv, owner, device, history
<1>1. TypesAt(l) /\ TypesAt(l)' BY TypesOf, TypesOfNext
<1>2. PICK k \in 1..Len(down[l]) :
        /\ hand' = [hand EXCEPT ![l] = {down[l][i].n : i \in 1..k}]
        /\ down' = [down EXCEPT ![l] = SubSeq(@, k + 1, Len(@))]
  BY DEF PumpReads
<1> DEFINE c == FirstOf(down[l], k)
<1>3. hand'[l] = c /\ down'[l] = RestOf(down[l], k)
  BY <1>2 DEF Types, TaskTypes, SocketTypes, FirstOf, RestOf
<1> HIDE DEF c
<1>4. /\ pump[l] = "reading" /\ pump'[l] = "sending" /\ SameOwner(l) /\ SameDevice(l)
      /\ SameHistory(l) /\ chan'[l] = chan[l] /\ conn'[l] = conn[l] /\ up'[l] = up[l]
      /\ (l \in ended' <=> l \in ended)
  BY DEF PumpReads, SameOwner, SameDevice, SameHistory, SameData, Types, TaskTypes
<1>5. phase[l] \in Open
  BY <1>1, <1>4 DEF OpenInv, Fresh, Unopened, Asking, Open, TypesAt, Phase, Opening
<1>6. /\ Rising(down'[l]) /\ Numbers(down[l]) = (c \ {0}) \cup Numbers(down'[l])
      /\ Before(c \ {0}, Numbers(down'[l])) /\ Kinds(down'[l]) \subseteq Kinds(down[l])
      /\ Kinds(down[l]) \subseteq {"data"} => 0 \notin c /\ Chunk(c)
  <2>1. down[l] \in Seq(Downward) /\ Rising(down[l]) BY <1>1 DEF TypesAt, DataInv
  <2> QED BY <1>3, <2>1, DownDropped DEF c
<1>7. Kinds(down[l]) \subseteq {"data"} BY <1>5 DEF OpenInv, Asking, Open
<1>8. OpenInv(l)'
  <2>1. conn[l] \in {"up", "closing"}
    <3>1. down[l] # <<>> BY <1>2, EmptyQueues
    <3> QED BY <3>1 DEF OpenInv
  <2>2. conn'[l] \in {"up", "closing"} BY <1>4, <2>1
  <2> QED BY <1>4, <1>5, <1>6, <1>7, <2>2
          DEF OpenInv, Asking, Open, SameOwner, SameHistory
<1>9. LineInv(l)' BY <1>4 DEF LineInv, Due, SameOwner, SameHistory
<1>10. DataInv(l)'
  <2>1. Promise!Unread(l)' = Promise!Unread(l) BY <1>4, SameUnread DEF SameHistory
  <2>2. hand[l] = {} /\ hand'[l] = c \ {0} BY <1>3, <1>4, <1>6, <1>7 DEF DataInv
  <2>3. OnTheWay(l)' = OnTheWay(l) BY <1>4, <1>6, <2>2 DEF OnTheWay
  <2>4. hand'[l] \cup Numbers(down'[l]) = hand[l] \cup Numbers(down[l]) BY <1>6, <2>2
  <2>5. l \notin eof' BY <1>4 DEF DataInv, SameHistory, SameData
  <2>6. (taken[l] \cup lost[l])' \subseteq 1..sent'[l] BY <1>4 DEF DataInv, SameHistory, SameData
  <2>7. /\ OnTheWay(l)' \subseteq Promise!Unread(l)'
        /\ phase'[l] # "over" => Promise!Unread(l)' \subseteq OnTheWay(l)'
    BY <1>4, <2>1, <2>3 DEF DataInv, SameOwner
  <2>8. Before(Content(chan'[l]), (hand[l] \cup Numbers(down[l]))') BY <1>4, <2>4 DEF DataInv
  <2>9. Before(hand'[l], Numbers(down'[l])) BY <1>6, <2>2
  <2>10. Sorted(chan'[l]) BY <1>4 DEF DataInv
  <2>11. Rising(down'[l]) /\ Chunk(hand'[l]) BY <1>3, <1>6, <1>7
  <2> QED BY <1>4, <2>5, <2>6, <2>7, <2>8, <2>9, <2>10, <2>11 DEF DataInv
<1>11. DepthInv(l)'
  <2>1. Len(down'[l]) = Len(down[l]) - k /\ Len(down[l]) \in Nat
    <3>1. down[l] \in Seq(Downward) /\ k \in 0..Len(down[l])
      BY <1>1 DEF TypesAt
    <3>2. down'[l] = SubSeq(down[l], k + 1, Len(down[l]))
      BY <1>3 DEF RestOf
    <3> QED BY <3>1, <3>2, Remaining
  <2>2. Len(down'[l]) <= Len(down[l]) BY ONLY <2>1, k \in 1..Len(down[l])
  <2>3. Len(down[l]) <= SocketDepth /\ Len(up[l]) <= SocketDepth /\ Len(chan[l]) <= QueueDepth
    BY DEF DepthInv
  <2>4. Len(down'[l]) \in Nat BY <1>1, LenProperties DEF TypesAt
  <2>5. Len(down'[l]) <= SocketDepth BY ONLY <2>1, <2>2, <2>3, <2>4, DepthAssumption
  <2> QED BY <1>4, <2>3, <2>5 DEF DepthInv
<1> QED BY <1>8, <1>9, <1>10, <1>11

\* The pump sends.
LEMMA PumpSendsKeeps ==
  ASSUME Types, Types', NEW l \in Local, StreamInv(l), PumpSends(l)
  PROVE  StreamInv(l)'
<1> USE DEF StreamInv, owner, socket, device, history
<1>1. TypesAt(l) /\ TypesAt(l)' BY TypesOf, TypesOfNext
<1>2. /\ pump[l] = "sending" /\ Len(chan[l]) < QueueDepth
      /\ chan'[l] = Append(chan[l], hand[l]) /\ hand'[l] = {} /\ pump'[l] = "reading"
      /\ SameOwner(l) /\ SameSocket(l) /\ SameDevice(l) /\ SameHistory(l)
  BY DEF PumpSends, SameOwner, SameSocket, SameDevice, SameHistory, SameData, Types, TaskTypes
<1>3. phase[l] \in Open
  BY <1>1, <1>2 DEF OpenInv, Fresh, Unopened, Asking, Open, TypesAt, Phase, Opening
<1>4. Content(chan'[l]) = Content(chan[l]) \cup hand[l] /\ Sorted(chan'[l])
  <2>1. Before(Content(chan[l]), hand[l]) BY DEF DataInv, Before
  <2>2. Sorted(chan[l]) /\ Chunk(hand[l]) BY <1>2 DEF DataInv
  <2> QED BY <1>1, <1>2, <2>1, <2>2, ChunkAppended DEF TypesAt
<1>5. OpenInv(l)'
  BY <1>2, <1>3 DEF OpenInv, Asking, Open, SameOwner, SameSocket, SameHistory
<1>6. LineInv(l)' BY <1>2 DEF LineInv, Due, SameOwner, SameSocket, SameHistory
<1>7. DataInv(l)'
  <2>1. Promise!Unread(l)' = Promise!Unread(l) BY <1>2, SameUnread DEF SameHistory
  <2>2. OnTheWay(l)' = OnTheWay(l) BY <1>2, <1>4 DEF OnTheWay, SameSocket
  <2>3. Before(Content(chan'[l]), Numbers(down[l])) BY <1>4 DEF DataInv, Before
  <2>4. Before(Content(chan'[l]), hand'[l] \cup Numbers(down'[l]))
    BY <1>2, <2>3 DEF SameSocket
  <2>5. Before(hand'[l], Numbers(down'[l])) BY <1>2 DEF Before
  <2>6. l \notin eof BY <1>2 DEF DataInv
  <2> QED BY <1>2, <1>3, <1>4, <2>1, <2>2, <2>4, <2>5, <2>6
          DEF DataInv, SameOwner, SameSocket, SameHistory, SameData
<1>8. DepthInv(l)'
  <2>1. Len(chan'[l]) = Len(chan[l]) + 1 /\ Len(chan[l]) \in Nat
    BY <1>1, <1>2, Appended DEF TypesAt
  <2> QED BY <1>2, <2>1, DepthAssumption DEF DepthInv, SameSocket
<1> QED BY <1>5, <1>6, <1>7, <1>8

\* The pump ends.
LEMMA PumpEndsKeeps ==
  ASSUME Types, Types', NEW l \in Local, StreamInv(l), PumpEnds(l)
  PROVE  StreamInv(l)'
<1> USE DEF StreamInv, owner, socket, device, history
<1>1. TypesAt(l) BY TypesOf
<1>2. /\ pump[l] = "reading" /\ down[l] = <<>> /\ (l \in ended \/ conn[l] = "down")
      /\ pump'[l] = "done" /\ chan'[l] = chan[l] /\ hand'[l] = hand[l]
      /\ SameOwner(l) /\ SameSocket(l) /\ SameDevice(l) /\ SameHistory(l)
  BY DEF PumpEnds, SameOwner, SameSocket, SameDevice, SameHistory, SameData, Types, TaskTypes
<1>3. phase[l] \in Open
  BY <1>1, <1>2 DEF OpenInv, Fresh, Unopened, Asking, Open, TypesAt, Phase, Opening
<1>4. OpenInv(l)'
  BY <1>2, <1>3 DEF OpenInv, Asking, Open, SameOwner, SameSocket, SameHistory
<1>5. LineInv(l)' BY <1>2 DEF LineInv, Due, SameOwner, SameSocket, SameHistory
<1>6. DataInv(l)' BY <1>2, <1>3, DataKept DEF DataInv, Open, SameSocket, SameHistory
<1>7. DepthInv(l)' BY <1>2 DEF DepthInv, SameSocket
<1> QED BY <1>4, <1>5, <1>6, <1>7

\* The adb server answers a request of an open.
LEMMA AdbAnswersKeeps ==
  ASSUME Types, Types', NEW l \in Local, StreamInv(l), AdbAnswers(l)
  PROVE  StreamInv(l)' /\ requests[l] = 1 /\ got[l] = 0
<1> USE DEF StreamInv, owner, task
<1>1. TypesAt(l) /\ TypesAt(l)' BY TypesOf, TypesOfNext
<1>2. conn[l] \in {"up", "closing"} /\ up[l] # <<>> /\ Head(up[l]).kind \in Asking
  BY DEF AdbAnswers, Asking, Opening
<1>3. phase[l] \in Asking
  <2> SUFFICES ASSUME phase[l] \notin Asking PROVE FALSE OBVIOUS
  <2>1. Kinds(up[l]) \subseteq {"piece"} BY DEF OpenInv
  <2>2. Len(up[l]) \in Nat \ {0} /\ Head(up[l]) = up[l][1] BY <1>1, <1>2, HeadTail DEF TypesAt
  <2>3. 1 \in 1..Len(up[l]) BY <2>2
  <2>4. Head(up[l]).kind \in Kinds(up[l]) BY <2>2, <2>3 DEF Kinds
  <2> QED BY <1>2, <2>1, <2>4 DEF Asking
<1>4. Unopened(l) /\ requests[l] = 1 /\ conn[l] = "up" BY <1>2, <1>3 DEF OpenInv, Asking
<1>5. /\ down[l] = <<>> /\ l \notin ended /\ got[l] = 0 /\ up[l] = <<Request(phase[l])>>
      /\ sent[l] = 0 /\ l \notin busy
      /\ phase[l] = "transport" => remote[l] \in {"none", "transport"}
  BY <1>2, <1>3, <1>4 DEF OpenInv, Asking, Transporting, Connecting
<1>6. Head(up[l]).kind = phase[l] /\ Tail(up[l]) = <<>> BY <1>5, Single DEF Request
<1>7. /\ up'[l] = <<>> /\ SameOwner(l) /\ SameTask(l) /\ SameData(l) /\ conn'[l] = conn[l]
      /\ (l \in busy' <=> l \in busy) /\ requests'[l] = requests[l] /\ acked'[l] = acked[l]
  BY <1>6 DEF AdbAnswers, SameOwner, SameTask, SameData, Types, SocketTypes
<1>8. \/ /\ down'[l] = <<Answer("OKAY")>> /\ remote'[l] = phase[l] /\ l \notin ended'
         /\ got'[l] = IF phase[l] = "service" THEN 1 ELSE got[l]
      \/ down'[l] = <<Answer("FAIL")>> /\ got'[l] = got[l] /\ remote'[l] = remote[l] /\ l \in ended'
  <2> DEFINE okay == Answer("OKAY")
             fail == Answer("FAIL")
  <2>1. \/ /\ down' = [down EXCEPT ![l] = IF conn[l] = "up" THEN Append(@, okay) ELSE @]
           /\ remote' = [remote EXCEPT ![l] = phase[l]]
           /\ got' = [got EXCEPT ![l] = IF phase[l] = "service" THEN 1 ELSE @]
           /\ ended' = ended
        \/ /\ down' = [down EXCEPT ![l] = IF conn[l] = "up" THEN Append(@, fail) ELSE @]
           /\ ended' = ended \cup {l} /\ remote' = remote /\ got' = got
    BY <1>6 DEF AdbAnswers, Post, Answer
  <2>2. Append(<<>>, okay) = <<okay>> /\ Append(<<>>, fail) = <<fail>> BY Single
  <2> HIDE DEF okay, fail
  <2> QED BY <1>4, <1>5, <2>1, <2>2 DEF Types, SocketTypes, DeviceTypes, HistoryTypes, okay, fail
<1>9. OpenInv(l)'
  <2>1. CASE down'[l] = <<Answer("OKAY")>> /\ phase[l] = "transport"
    <3>1. Answer("OKAY") # Answer("FAIL") BY DEF Answer
    <3>2. <<Answer("OKAY")>>[1] # <<Answer("FAIL")>>[1] BY <3>1, Single
    <3>3. Transporting(l)'
      BY <1>5, <1>7, <1>8, <2>1, <3>2 DEF Transporting, SameData, OpenInv
    <3> QED BY <1>4, <1>7, <2>1, <3>3 DEF OpenInv, Asking, Open, Unopened, SameOwner, SameTask, SameData
  <2>2. CASE down'[l] = <<Answer("OKAY")>> /\ phase[l] = "service"
    <3>1. Answer("OKAY") # Answer("FAIL") BY DEF Answer
    <3>2. <<Answer("OKAY")>>[1] # <<Answer("FAIL")>>[1] BY <3>1, Single
    <3>3. got'[l] = 1 BY <1>8, <2>2, <3>2
    <3>4. Tail(down'[l]) = <<>> /\ down'[l][1] = Answer("OKAY") /\ down'[l] # <<>>
      BY <2>2, Single
    <3>5. Kinds(Tail(down'[l])) = {} BY <3>4, EmptyQueues
    <3>6. Connecting(l)' BY <1>7, <3>3, <3>4, <3>5 DEF Connecting
    <3> QED BY <1>4, <1>7, <2>2, <3>6 DEF OpenInv, Asking, Open, Unopened, SameOwner, SameTask, SameData
  <2>3. CASE down'[l] = <<Answer("FAIL")>>
    <3>1. Answer("OKAY") # Answer("FAIL") BY DEF Answer
    <3>2. <<Answer("OKAY")>>[1] # <<Answer("FAIL")>>[1] BY <3>1, Single
    <3>3. got'[l] = 0 /\ remote'[l] = remote[l] /\ l \in ended' BY <1>5, <1>8, <2>3, <3>2
    <3>4. phase[l] = "transport" => Transporting(l)'
      BY <1>5, <1>7, <2>3, <3>3 DEF Transporting, SameData, OpenInv
    <3>5. phase[l] = "service" => Connecting(l)'
      BY <1>7, <2>3, <3>3 DEF Connecting
    <3> QED BY <1>3, <1>4, <1>7, <3>4, <3>5 DEF OpenInv, Asking, Open, Unopened, SameOwner, SameTask, SameData
  <2> QED BY <1>3, <1>8, <2>1, <2>2, <2>3 DEF Asking
<1>10. LineInv(l)'
  <2>1. got'[l] \in Nat /\ got'[l] <= requests'[l] BY <1>4, <1>5, <1>7, <1>8
  <2>2. phase'[l] \in Asking BY <1>3, <1>7 DEF SameOwner
  <2> QED BY <1>7, <2>1, <2>2, NoLine DEF Asking
<1>11. DataInv(l)'
  <2>1. Numbers(down'[l]) = Numbers(down[l]) /\ Rising(down'[l])
    <3>1. Numbers(down[l]) = {} BY <1>5, EmptyQueues
    <3> QED BY <1>8, <3>1, OneAnswer
  <2>2. pump'[l] = "none" /\ pump[l] = "none" BY <1>4, <1>7 DEF Unopened, SameTask
  <2>3. phase[l] # "over" /\ l \notin eof BY <1>3, <1>4 DEF Asking, Unopened
  <2> QED BY <1>7, <2>1, <2>2, <2>3, DataKept DEF SameTask
<1>12. DepthInv(l)'
  <2>1. Len(up'[l]) <= 1 /\ Len(down'[l]) <= 1 /\ Len(chan'[l]) <= Len(chan[l])
    <3>1. Len(up'[l]) = 0 BY <1>7, EmptyQueues
    <3>2. Len(down'[l]) = 1 BY <1>8, OneAnswer
    <3>3. Len(chan'[l]) = Len(chan[l]) /\ Len(chan[l]) \in Nat BY <1>1, <1>7 DEF TypesAt, SameTask
    <3> QED BY <3>1, <3>2, <3>3
  <2> QED BY ONLY <1>1, <2>1, Shallow, DepthInv(l), l \in Local
<1> QED BY <1>4, <1>5, <1>9, <1>10, <1>11, <1>12

\* A stream that the service has: its open is past the transport, and its status, if the open
\* still waits for it, is there.
LEMMA Served ==
  ASSUME Types, NEW l \in Local, StreamInv(l), remote[l] = "service",
         conn[l] = "up" \/ (conn[l] = "closing" /\ up[l] # <<>>)
  PROVE  /\ phase[l] \in Open \cup {"service", "over"}
         /\ phase[l] = "over" => conn[l] = "closing"
         /\ phase[l] = "service" =>
              /\ Unopened(l) /\ conn[l] = "up" /\ up[l] = <<>>
              /\ \/ /\ down[l] # <<>> /\ down[l][1] = Answer("OKAY")
                    /\ Kinds(Tail(down[l])) \subseteq {"data"} /\ got[l] = 1
                 \/ l \in ended
<1> USE DEF StreamInv
<1>1. phase[l] \in Phase BY TypesOf DEF TypesAt
<1>2. phase[l] # "none" BY DEF OpenInv, Fresh
<1>3. phase[l] # "transport" BY DEF OpenInv, Transporting
<1>4. phase[l] = "over" => conn[l] = "closing" BY DEF OpenInv
<1>5. phase[l] = "service" =>
        /\ Unopened(l) /\ conn[l] = "up" /\ up[l] = <<>>
        /\ \/ /\ down[l] # <<>> /\ down[l][1] = Answer("OKAY")
              /\ Kinds(Tail(down[l])) \subseteq {"data"} /\ got[l] = 1
           \/ l \in ended
  BY DEF OpenInv, Asking, Connecting
<1> QED BY <1>1, <1>2, <1>3, <1>4, <1>5 DEF Phase, Opening, Open

\* The service reads.
LEMMA ServiceReadsKeeps ==
  ASSUME Types, Types', NEW l \in Local, StreamInv(l), ServiceReads(l)
  PROVE  /\ StreamInv(l)'
         /\ got'[l] = got[l] \/ (got'[l] = got[l] + 1 /\ got[l] < requests[l])
<1> USE DEF StreamInv, owner, task, device
<1>1. TypesAt(l) /\ TypesAt(l)' BY TypesOf, TypesOfNext
<1>2. /\ conn[l] \in {"up", "closing"} /\ remote[l] = "service" /\ up[l] # <<>>
      /\ up'[l] = Tail(up[l])
      /\ got'[l] = IF Head(up[l]).last THEN got[l] + 1 ELSE got[l]
      /\ SameOwner(l) /\ SameTask(l) /\ SameDevice(l) /\ SameData(l)
      /\ conn'[l] = conn[l] /\ down'[l] = down[l] /\ (l \in ended' <=> l \in ended)
      /\ requests'[l] = requests[l] /\ acked'[l] = acked[l]
  BY DEF ServiceReads, SameOwner, SameTask, SameDevice, SameData, Types, SocketTypes, HistoryTypes
<1>3. phase[l] \in Open \cup {"over"} BY <1>2, Served
<1>4. /\ Len(up'[l]) = Len(up[l]) - 1 /\ Len(up[l]) \in Nat \ {0} /\ Head(up[l]) = up[l][1]
      /\ \A i \in 1..Len(up'[l]) : up'[l][i] = up[l][i + 1]
  BY <1>1, <1>2, HeadTail DEF TypesAt
<1>5. InLine(up'[l], got'[l]) /\ EndOf(up'[l], got'[l]) = EndOf(up[l], got[l])
  <2> DEFINE s == up[l]
             g == got[l]
             h == got'[l]
  <2>1. s \in Seq(Upward) /\ g \in Nat /\ h \in Nat /\ s # <<>> /\ InLine(s, g)
    BY <1>1, <1>2 DEF TypesAt, LineInv
  <2>2. h = IF Head(s).last THEN g + 1 ELSE g BY <1>2
  <2> HIDE DEF s, g, h
  <2>3. InLine(Tail(s), h) /\ EndOf(Tail(s), h) = EndOf(s, g) BY ONLY <2>1, <2>2, LineTail
  <2> QED BY <1>2, <2>3 DEF s, g, h
<1>6. got[l] < requests[l]
  <2>1. up[l][1].n = got[l] + 1 BY <1>2 DEF LineInv, InLine
  <2>2. 1 \in 1..Len(up[l]) BY <1>4
  <2>3. up[l][1].n <= requests[l] BY <2>2 DEF LineInv
  <2> QED BY <1>1, <2>1, <2>3 DEF TypesAt
<1>7. OpenInv(l)'
  <2>1. Kinds(up[l]) \subseteq {"piece"} BY <1>3 DEF OpenInv, Open, Asking
  <2>2. Kinds(up'[l]) \subseteq {"piece"}
    <3> SUFFICES ASSUME NEW i \in 1..Len(up'[l]) PROVE up'[l][i].kind = "piece" BY DEF Kinds
    <3>1. i + 1 \in 1..Len(up[l]) BY <1>4
    <3> QED BY <1>4, <2>1, <3>1 DEF Kinds
  <2> QED BY <1>2, <1>3, <2>2 DEF OpenInv, Open, Asking, SameOwner, SameTask
<1>8. LineInv(l)'
  <2>1. \A i \in 1..Len(up'[l]) : up'[l][i].n <= requests[l]
    <3> SUFFICES ASSUME NEW i \in 1..Len(up'[l]) PROVE up'[l][i].n <= requests[l] OBVIOUS
    <3>1. i + 1 \in 1..Len(up[l]) BY <1>4
    <3> QED BY <1>4, <3>1 DEF LineInv
  <2>2. got'[l] <= requests[l] BY <1>1, <1>2, <1>6 DEF TypesAt
  <2>3. Due(l)' = Due(l) BY <1>2 DEF Due, SameOwner
  <2> QED BY <1>2, <1>5, <2>1, <2>2, <2>3 DEF LineInv, SameOwner
<1>9. DataInv(l)'
  <2>1. Promise!Unread(l)' = Promise!Unread(l) BY <1>2, SameUnread
  <2>2. OnTheWay(l)' = OnTheWay(l) BY <1>2 DEF OnTheWay, SameTask
  <2> QED BY <1>2, <2>1, <2>2 DEF DataInv, SameOwner, SameTask, SameData
<1>10. DepthInv(l)' BY <1>2, <1>4, DepthAssumption DEF DepthInv, SameTask
<1> QED BY <1>1, <1>2, <1>6, <1>7, <1>8, <1>9, <1>10

\* The service starts to write.
LEMMA ServiceBeginsKeeps ==
  ASSUME Types, Types', NEW l \in Local, StreamInv(l), ServiceBegins(l)
  PROVE  StreamInv(l)'
<1> USE DEF StreamInv, owner, task, socket, history
<1>1. /\ conn[l] = "up" /\ remote[l] = "service" /\ remote'[l] = remote[l]
      /\ SameOwner(l) /\ SameTask(l) /\ SameSocket(l) /\ SameHistory(l)
  BY DEF ServiceBegins, Serving, SameOwner, SameTask, SameSocket, SameHistory, SameData
<1>2. OpenInv(l)'
  <2>1. phase[l] \in Open \cup {"service"} BY <1>1, Served
  <2>2. CASE phase[l] = "service"
    BY <1>1, <2>2 DEF OpenInv, Asking, Open, Connecting, Unopened, SameOwner, SameTask, SameSocket,
       SameHistory, SameData
  <2>3. CASE phase[l] \in Open
    BY <1>1, <2>3 DEF OpenInv, Asking, Open, SameOwner, SameTask, SameSocket, SameHistory
  <2> QED BY <2>1, <2>2, <2>3
<1>3. LineInv(l)' BY <1>1 DEF LineInv, Due, SameOwner, SameSocket, SameHistory
<1>4. DataInv(l)'
  <2>1. phase[l] # "over" BY <1>1 DEF OpenInv
  <2> QED BY <1>1, <2>1, DataKept DEF DataInv, SameTask, SameSocket, SameHistory
<1>5. DepthInv(l)' BY <1>1 DEF DepthInv, SameTask, SameSocket
<1> QED BY <1>2, <1>3, <1>4, <1>5

\* The service ends.
LEMMA ServiceEndsKeeps ==
  ASSUME Types, Types', NEW l \in Local, StreamInv(l), ServiceEnds(l)
  PROVE  StreamInv(l)'
<1> USE DEF StreamInv, owner, task, history
<1>1. /\ conn[l] = "up" /\ remote[l] = "service" /\ l \notin ended /\ remote'[l] = remote[l]
      /\ conn'[l] = conn[l] /\ up'[l] = up[l] /\ down'[l] = down[l]
      /\ SameOwner(l) /\ SameTask(l) /\ SameHistory(l)
  BY DEF ServiceEnds, Serving, SameOwner, SameTask, SameHistory, SameData
<1>0. l \in ended' BY DEF ServiceEnds
<1>2. OpenInv(l)'
  <2>1. phase[l] \in Open \cup {"service"} BY <1>1, Served
  <2>2. CASE phase[l] = "service"
    <3>1. /\ Unopened(l) /\ up[l] = <<>> /\ down[l] # <<>> /\ down[l][1] = Answer("OKAY")
          /\ Kinds(Tail(down[l])) \subseteq {"data"} /\ got[l] = 1
      BY <1>1, <2>2, Served
    <3>2. Connecting(l)' BY <1>1, <3>1 DEF Connecting, SameHistory
    <3> QED BY <1>1, <2>2, <3>1, <3>2 DEF OpenInv, Asking, Open, Unopened, SameOwner, SameTask,
       SameHistory, SameData
  <2>3. CASE phase[l] \in Open
    BY <1>1, <2>3 DEF OpenInv, Asking, Open, SameOwner, SameTask, SameHistory
  <2> QED BY <2>1, <2>2, <2>3
<1>3. LineInv(l)' BY <1>1 DEF LineInv, Due, SameOwner, SameHistory
<1>4. DataInv(l)'
  <2>1. phase[l] # "over" BY <1>1 DEF OpenInv
  <2> QED BY <1>0, <1>1, <2>1, DataKept DEF DataInv, SameTask, SameHistory
<1>5. DepthInv(l)' BY <1>1 DEF DepthInv, SameTask
<1> QED BY <1>2, <1>3, <1>4, <1>5

\* A payload behind what is in a socket that is not empty: the first element stays.
LEMMA DownBehind ==
  ASSUME NEW s \in Seq(Downward), NEW d \in Downward, s # <<>>
  PROVE  /\ Append(s, d) # <<>> /\ Append(s, d)[1] = s[1]
         /\ Kinds(Tail(Append(s, d))) \subseteq Kinds(Tail(s)) \cup {d.kind}
<1> DEFINE t == Append(s, d)
<1>1. /\ Len(s) \in Nat \ {0} /\ Len(t) = Len(s) + 1 /\ t[Len(s) + 1] = d /\ t \in Seq(Downward)
      /\ \A i \in 1..Len(s) : t[i] = s[i]
  BY Appended, HeadTail
<1>2. t # <<>> BY <1>1
<1> HIDE DEF t
<1> DEFINE r == Tail(t)
           q == Tail(s)
<1>3. Len(r) = Len(s) /\ \A i \in 1..Len(r) : r[i] = t[i + 1] BY <1>1, <1>2, HeadTail
<1>4. Len(q) = Len(s) - 1 /\ \A i \in 1..Len(q) : q[i] = s[i + 1] BY HeadTail
<1> HIDE DEF r, q
<1>5. Kinds(r) \subseteq Kinds(q) \cup {d.kind}
  <2> SUFFICES ASSUME NEW i \in 1..Len(r) PROVE r[i].kind \in Kinds(q) \cup {d.kind}
    BY DEF Kinds
  <2>1. CASE i = Len(s) BY <1>1, <1>3, <2>1
  <2>2. CASE i # Len(s)
    <3>1. i \in 1..Len(q) /\ i + 1 \in 1..Len(s) BY <1>1, <1>3, <1>4, <2>2
    <3>2. r[i] = q[i] BY <1>1, <1>3, <1>4, <3>1
    <3> QED BY <3>1, <3>2 DEF Kinds
  <2> QED BY <2>1, <2>2
<1>6. t[1] = s[1] BY <1>1
<1> QED BY <1>2, <1>5, <1>6 DEF t, r, q

\* The service sends.
LEMMA ServiceSendsKeeps ==
  ASSUME Types, Types', NEW l \in Local, StreamInv(l), ServiceSends(l)
  PROVE  StreamInv(l)' /\ l \notin eof
<1> USE DEF StreamInv, owner, task
<1>1. TypesAt(l) /\ TypesAt(l)' BY TypesOf, TypesOfNext
<1> DEFINE d == [kind |-> "data", n |-> sent[l] + 1]
<1>2. d \in Downward /\ d.kind = "data" /\ d.n = sent[l] + 1 /\ sent[l] \in Nat
  BY <1>1 DEF Downward, TypesAt
<1>3. down' = [down EXCEPT ![l] = IF conn[l] = "up" THEN Append(@, d) ELSE @]
  BY DEF ServiceSends, Post
<1> HIDE DEF d
<1>4. /\ conn[l] = "up" /\ remote[l] = "service" /\ l \notin ended /\ remote'[l] = remote[l]
      /\ conn'[l] = conn[l] /\ up'[l] = up[l] /\ (l \in ended' <=> l \in ended)
      /\ Len(down[l]) < SocketDepth /\ sent'[l] = sent[l] + 1
      /\ taken'[l] = taken[l] /\ lost'[l] = lost[l] /\ (l \in eof' <=> l \in eof)
      /\ requests'[l] = requests[l] /\ got'[l] = got[l] /\ acked'[l] = acked[l]
      /\ SameOwner(l) /\ SameTask(l)
  BY DEF ServiceSends, Serving, SameOwner, SameTask, Types, HistoryTypes
<1>5. down'[l] = Append(down[l], d) BY <1>3, <1>4 DEF Types, SocketTypes
<1>6. pump[l] # "done" /\ l \notin eof BY <1>4 DEF DataInv
<1>7. phase[l] \in Open \cup {"service"} BY <1>4, Served
<1>8. OnTheWay(l) = Promise!Unread(l) BY <1>7 DEF DataInv, Open
<1>9. \A x \in OnTheWay(l) : x < sent[l] + 1 BY <1>2, <1>8 DEF Promise!Unread
<1>10. /\ Rising(down'[l]) /\ Numbers(down'[l]) = Numbers(down[l]) \cup {sent[l] + 1}
       /\ Kinds(down'[l]) = Kinds(down[l]) \cup {"data"}
  <2>1. \A x \in Numbers(down[l]) : x < d.n BY <1>2, <1>9 DEF OnTheWay
  <2>2. Rising(down[l]) /\ down[l] \in Seq(Downward) BY <1>1 DEF DataInv, TypesAt
  <2>3. d.n # 0 /\ {d.n} \ {0} = {sent[l] + 1} BY <1>2
  <2> QED BY <1>2, <1>5, <2>1, <2>2, <2>3, DownAppended
<1>11. OpenInv(l)'
  <2>1. CASE phase[l] = "service"
    <3>1. /\ Unopened(l) /\ up[l] = <<>> /\ down[l] # <<>> /\ down[l][1] = Answer("OKAY")
          /\ Kinds(Tail(down[l])) \subseteq {"data"} /\ got[l] = 1
      BY <1>4, <2>1, Served
    <3>2. /\ down'[l] # <<>> /\ down'[l][1] = Answer("OKAY")
          /\ Kinds(Tail(down'[l])) \subseteq {"data"}
      BY <1>1, <1>2, <1>5, <3>1, DownBehind DEF TypesAt
    <3>3. Connecting(l)' BY <1>4, <3>1, <3>2 DEF Connecting
    <3> QED BY <1>4, <2>1, <3>1, <3>3 DEF OpenInv, Asking, Open, Unopened, SameOwner, SameTask
  <2>2. CASE phase[l] \in Open
    BY <1>4, <1>10, <2>2 DEF OpenInv, Asking, Open, SameOwner, SameTask
  <2> QED BY <1>7, <2>1, <2>2
<1>12. LineInv(l)' BY <1>4 DEF LineInv, Due, SameOwner
<1>13. DataInv(l)'
  <2>1. (taken[l] \cup lost[l])' \subseteq 1..sent'[l]
    BY <1>2, <1>4 DEF DataInv
  <2>2. sent[l] + 1 \notin taken[l] /\ sent[l] + 1 \notin lost[l] BY <1>2 DEF DataInv
  <2>3. Promise!Unread(l)' = Promise!Unread(l) \cup {sent[l] + 1}
    BY <1>2, <1>4, <2>2 DEF Promise!Unread
  <2>4. OnTheWay(l)' = OnTheWay(l) \cup {sent[l] + 1} BY <1>4, <1>10 DEF OnTheWay, SameTask
  <2>5. OnTheWay(l)' = Promise!Unread(l)' BY <1>8, <2>3, <2>4
  <2>6. Before(Content(chan'[l]), (hand[l] \cup Numbers(down[l]))')
    BY <1>4, <1>9, <1>10 DEF DataInv, OnTheWay, Before, SameTask
  <2>7. Before(hand'[l], Numbers(down'[l]))
    BY <1>4, <1>9, <1>10 DEF DataInv, OnTheWay, Before, SameTask
  <2> QED BY <1>4, <1>6, <1>10, <2>1, <2>5, <2>6, <2>7 DEF DataInv, SameOwner, SameTask
<1>14. DepthInv(l)'
  <2>1. Len(down'[l]) = Len(down[l]) + 1 /\ Len(down[l]) \in Nat
    BY <1>1, <1>2, <1>5, Appended DEF TypesAt
  <2> QED BY <1>4, <2>1, DepthAssumption DEF DepthInv, SameTask
<1> QED BY <1>6, <1>11, <1>12, <1>13, <1>14

\* The connection breaks.
LEMMA BreakKeeps ==
  ASSUME Types, Types', NEW l \in Local, StreamInv(l), Break(l)
  PROVE  StreamInv(l)' /\ lost'[l] = lost[l] \cup Numbers(down[l])
<1> USE DEF StreamInv, owner, task
<1>1. TypesAt(l) /\ TypesAt(l)' BY TypesOf, TypesOfNext
<1>2. /\ conn[l] \in {"up", "closing"} /\ conn'[l] = "down" /\ up'[l] = <<>> /\ down'[l] = <<>>
      /\ l \notin busy' /\ remote'[l] = remote[l] /\ (l \in ended' <=> l \in ended)
      /\ lost'[l] = lost[l] \cup Numbers(down[l])
      /\ SameOwner(l) /\ SameTask(l) /\ sent'[l] = sent[l] /\ taken'[l] = taken[l]
      /\ (l \in eof' <=> l \in eof)
      /\ requests'[l] = requests[l] /\ got'[l] = got[l] /\ acked'[l] = acked[l]
  BY DEF Break, SameOwner, SameTask, Types, SocketTypes, HistoryTypes, Numbers
<1>3. Kinds(up'[l]) = {} /\ Kinds(down'[l]) = {} /\ Numbers(down'[l]) = {} /\ Rising(down'[l])
  BY <1>2, EmptyQueues
<1>4. OpenInv(l)'
  <2>1. phase[l] # "none" BY <1>2 DEF OpenInv
  <2>2. ASSUME phase[l] = "transport" PROVE Transporting(l)'
    <3>1. Transporting(l) BY <2>2 DEF OpenInv
    <3>2. Numbers(down[l]) = {}
      <4>1. conn[l] = "up" BY <1>2, <2>2 DEF OpenInv, Asking
      <4> QED BY <3>1, <4>1, OneAnswer, EmptyQueues DEF Transporting
    <3> QED BY <1>2, <3>1, <3>2 DEF Transporting
  <2>3. Connecting(l)' BY <1>2 DEF Connecting
  <2> QED BY <1>2, <1>3, <2>1, <2>2, <2>3 DEF OpenInv, Asking, Open, Unopened, SameOwner, SameTask
<1>5. LineInv(l)'
  <2>1. got'[l] \in Nat /\ got'[l] <= requests'[l] BY <1>1, <1>2 DEF TypesAt, LineInv
  <2>2. phase'[l] = "writing" => left'[l] > 0 BY <1>2 DEF LineInv, SameOwner
  <2> QED BY <1>2, <2>1, <2>2, NoLine
<1>6. DataInv(l)'
  <2>1. Numbers(down[l]) \subseteq Promise!Unread(l) BY DEF DataInv, OnTheWay
  <2>2. (taken[l] \cup lost[l])' \subseteq 1..sent'[l]
    BY <1>2, <2>1 DEF DataInv, Promise!Unread
  <2>3. Promise!Unread(l)' = Promise!Unread(l) \ Numbers(down[l])
    BY <1>2 DEF Promise!Unread
  <2>4. OnTheWay(l) = OnTheWay(l)' \cup Numbers(down[l])
    BY <1>2, <1>3 DEF OnTheWay, SameTask
  <2>5. \A x \in OnTheWay(l)' : x \notin Numbers(down[l])
    <3> SUFFICES ASSUME NEW x \in OnTheWay(l)', x \in Numbers(down[l]) PROVE FALSE OBVIOUS
    <3>1. x \in Content(chan[l]) \cup hand[l] BY <1>2, <1>3 DEF OnTheWay, SameTask
    <3>2. x < x BY <3>1 DEF DataInv, Before
    <3>3. x \in Nat BY <2>1 DEF Promise!Unread
    <3> QED BY <3>2, <3>3
  <2>6. OnTheWay(l)' \subseteq Promise!Unread(l)' BY <2>3, <2>4, <2>5 DEF DataInv
  <2>7. phase[l] # "over" => Promise!Unread(l)' \subseteq OnTheWay(l)'
    BY <2>3, <2>4 DEF DataInv
  <2>8. Before(Content(chan'[l]), (hand[l] \cup Numbers(down[l]))')
    BY <1>2, <1>3 DEF DataInv, Before, SameTask
  <2>9. Before(hand'[l], Numbers(down'[l])) BY <1>3 DEF Before
  <2> QED BY <1>2, <1>3, <2>2, <2>6, <2>7, <2>8, <2>9 DEF DataInv, SameOwner, SameTask
<1>7. DepthInv(l)'
  <2>1. Len(up'[l]) = 0 /\ Len(down'[l]) = 0 BY <1>2, EmptyQueues
  <2> QED BY <1>2, <2>1, DepthAssumption DEF DepthInv, SameTask
<1> QED BY <1>2, <1>4, <1>5, <1>6, <1>7

------------------------------------------------------------------------------
(* The invariant of the specification. *)

LEMMA InitInv == Init => ServerInv
<1> SUFFICES ASSUME Init, NEW l \in Local PROVE StreamInv(l) BY DEF ServerInv
<1>1. /\ phase[l] = "none" /\ Fresh(l) /\ conn[l] = "none" /\ l \notin streams /\ left[l] = 0
      /\ taken[l] = {} /\ lost[l] = {} /\ pump[l] = "none" /\ hand[l] = {} /\ l \notin eof
  BY DEF Init, Fresh, Unopened
<1>2. /\ up[l] = <<>> /\ down[l] = <<>> /\ chan[l] = <<>> /\ got[l] = 0 /\ requests[l] = 0
      /\ sent[l] = 0
  BY <1>1 DEF Fresh, Unopened
<1>3. /\ Kinds(up[l]) = {} /\ Kinds(down[l]) = {} /\ Content(chan[l]) = {} /\ Numbers(down[l]) = {}
      /\ Sorted(chan[l]) /\ Rising(down[l]) /\ InLine(up[l], got[l])
      /\ Len(up[l]) = 0 /\ Len(down[l]) = 0 /\ Len(chan[l]) = 0
  BY <1>2, EmptyQueues
<1>4. OpenInv(l) BY <1>1, <1>2, <1>3 DEF OpenInv, Asking, Open
<1>5. LineInv(l) BY <1>1, <1>2, <1>3 DEF LineInv
<1>6. DataInv(l) BY <1>1, <1>2, <1>3 DEF DataInv, OnTheWay, Before, Promise!Unread
<1>7. DepthInv(l) BY <1>3, DepthAssumption DEF DepthInv
<1> QED BY <1>4, <1>5, <1>6, <1>7 DEF StreamInv

LEMMA InvType ==
  ASSUME Types, ServerInv, [Next]_vars
  PROVE  Types'
<1>1. CASE UNCHANGED vars
  BY <1>1 DEF vars, owner, task, socket, device, history, Types, OwnerTypes, TaskTypes,
     SocketTypes, DeviceTypes, HistoryTypes
<1>2. CASE DropServer BY <1>2, DropType
<1>3. ASSUME NEW l \in Local, Owner(l) \/ Pump(l) \/ Far(l) PROVE Types'
  <2>1. phase[l] = "writing" => left[l] > 0 BY DEF ServerInv, StreamInv, LineInv
  <2> QED BY <1>3, <2>1, OwnerType, PumpType, FarType
<1> QED BY <1>1, <1>2, <1>3 DEF Next, Far

LEMMA StreamKeeps ==
  ASSUME Types, Types', NEW l \in Local, StreamInv(l), Owner(l) \/ Pump(l) \/ Far(l)
  PROVE  StreamInv(l)'
<1>1. CASE Owner(l)
  <2>1. CASE OpenStream(l) BY <2>1, OpenKeeps
  <2>2. CASE TransportOkay(l) \/ ServiceOkay(l) BY <2>2, OkayKeeps
  <2>3. CASE OpenFails(l) BY <2>3, OpenFailsKeeps
  <2>4. CASE Write(l) BY <2>4, WriteKeeps
  <2>5. CASE WritePiece(l) BY <2>5, WritePieceKeeps
  <2>6. CASE WriteFails(l) BY <2>6, WriteFailsKeeps
  <2>7. CASE Read(l) BY <2>7, ReadKeeps
  <2>8. CASE ReadClosed(l) BY <2>8, ReadClosedKeeps
  <2>9. CASE CloseStream(l) BY <2>9, CloseStreamCloses, CloseKeeps
  <2> QED BY <1>1, <2>1, <2>2, <2>3, <2>4, <2>5, <2>6, <2>7, <2>8, <2>9 DEF Owner
<1>2. CASE Pump(l) BY <1>2, PumpReadsKeeps, PumpSendsKeeps, PumpEndsKeeps DEF Pump
<1>3. CASE Far(l)
  BY <1>3, AdbAnswersKeeps, ServiceReadsKeeps, ServiceBeginsKeeps, ServiceSendsKeeps,
     ServiceEndsKeeps, BreakKeeps DEF Far
<1> QED BY <1>1, <1>2, <1>3

LEMMA NextInv ==
  ASSUME Types, ServerInv, [Next]_vars
  PROVE  ServerInv'
<1> SUFFICES ASSUME NEW m \in Local PROVE StreamInv(m)' BY DEF ServerInv
<1>1. Types' BY InvType
<1>2. StreamInv(m) BY DEF ServerInv
<1>3. CASE UNCHANGED vars
  <2>1. Same(m)
    BY <1>3 DEF vars, owner, task, socket, device, history, Same, SameOwner, SameTask,
       SameSocket, SameDevice, SameHistory, SameData
  <2> QED BY <1>2, <2>1, Frame
<1>4. CASE DropServer BY <1>1, <1>2, <1>4, DropCloses, CloseKeeps
<1>5. ASSUME NEW l \in Local, Owner(l) \/ Pump(l) \/ Far(l) PROVE StreamInv(m)'
  <2>1. CASE m = l BY <1>1, <1>2, <1>5, <2>1, StreamKeeps
  <2>2. CASE m # l
    <3>1. Same(m) BY <1>5, <2>2, Others
    <3> QED BY <1>2, <3>1, Frame
  <2> QED BY <2>1, <2>2
<1> QED BY <1>3, <1>4, <1>5 DEF Next, Far

LEMMA Invariant == Spec => [](Types /\ ServerInv)
<1>1. Init => Types /\ ServerInv BY InitType, InitInv
<1>2. Types /\ ServerInv /\ [Next]_vars => Types' /\ ServerInv' BY InvType, NextInv
<1> QED BY <1>1, <1>2, PTL DEF Spec

\* Every variable of AdbServer holds a value of its type and no queue grows past its depth:
\* a pump waits when the channel of its stream is full, a write when the socket is
\* (server.rs:108, 264).
THEOREM TypeCorrect == Spec => []TypeOK
<1>1. Types /\ ServerInv => TypeOK BY DEF Types, ServerInv, StreamInv, DepthInv, TypeOK
<1> QED BY <1>1, Invariant, PTL

------------------------------------------------------------------------------
(* The refinement: each step of a stream is one of ByteStream's, or none. *)

\* Nothing of what ByteStream sees changes.
Quiet == UNCHANGED history

LEMMA QuietStutters == ASSUME Quiet PROVE UNCHANGED Promise!vars
BY DEF Quiet, history, Promise!vars

\* The chunk that a read returns is what is unread up to the last payload in it.
LEMMA ReadTakes ==
  ASSUME Types, NEW l \in Local, StreamInv(l), Read(l)
  PROVE  Promise!Take(l)
<1> USE DEF StreamInv, At
<1>1. TypesAt(l) BY TypesOf
<1> DEFINE c == Head(chan[l])
           rest == Content(Tail(chan[l])) \cup hand[l] \cup Numbers(down[l])
<1>2. /\ phase[l] = "idle" /\ chan[l] # <<>> /\ taken' = [taken EXCEPT ![l] = @ \cup c]
      /\ UNCHANGED <<requests, got, acked, sent, lost, eof>>
  BY DEF Read
<1>3. /\ Content(chan[l]) = c \cup Content(Tail(chan[l])) /\ Chunk(c)
      /\ Before(c, Content(Tail(chan[l])))
  BY <1>1, <1>2, ChunkTail DEF TypesAt, DataInv
<1> HIDE DEF c
<1>4. OnTheWay(l) = Promise!Unread(l) BY <1>2 DEF DataInv
<1>5. OnTheWay(l) = c \cup rest BY <1>3 DEF OnTheWay
<1>6. Before(c, rest) BY <1>3 DEF DataInv, Before
<1> HIDE DEF rest
<1>7. PICK n \in c : \A x \in c : x <= n BY <1>3 DEF Chunk
<1>8. n \in Promise!Unread(l) BY <1>4, <1>5
<1>9. Promise!Unread(l) \subseteq Nat BY <1>1 DEF Promise!Unread, TypesAt
<1>10. {m \in Promise!Unread(l) : m <= n} = c
  <2>1. \A m \in rest : ~(m <= n)
    <3> SUFFICES ASSUME NEW m \in rest, m <= n PROVE FALSE OBVIOUS
    <3>1. n < m BY <1>6, <1>7 DEF Before
    <3>2. n \in Nat /\ m \in Nat BY <1>4, <1>5, <1>8, <1>9
    <3> QED BY <3>1, <3>2
  <2> QED BY <1>4, <1>5, <1>7, <2>1
<1>11. l \notin eof BY <1>2 DEF DataInv
<1> QED BY <1>2, <1>8, <1>10, <1>11 DEF Promise!Take

LEMMA OwnerStep ==
  ASSUME Types, Types', NEW l \in Local, StreamInv(l), Owner(l)
  PROVE  Promise!Next \/ UNCHANGED Promise!vars
<1> USE DEF At, Go
<1>1. CASE OpenStream(l)
  <2>1. requests[l] = 0 BY <1>1 DEF OpenStream, StreamInv, OpenInv, Fresh
  <2>2. Promise!Request(l) BY <1>1, <2>1 DEF OpenStream, Promise!Request
  <2> QED BY <2>2 DEF Promise!Next
<1>2. CASE ServiceOkay(l)
  <2>1. phase[l] = "service" /\ Status(l, "OKAY") BY <1>2 DEF ServiceOkay
  <2>2. conn[l] = "up" /\ requests[l] = 1
    BY <2>1 DEF StreamInv, OpenInv, Asking, Status
  <2>3. got[l] = 1
    <3>1. Head(<<Answer("FAIL")>>).kind = "FAIL" BY Single DEF Answer
    <3> QED BY <2>1, <2>2, <3>1 DEF StreamInv, OpenInv, Connecting, Status
  <2>4. Promise!ReturnOk(l) BY <1>2, <2>2, <2>3 DEF ServiceOkay, Promise!ReturnOk
  <2> QED BY <2>4 DEF Promise!Next
<1>3. CASE Write(l)
  <2>1. Promise!Request(l) BY <1>3 DEF Write, Promise!Request
  <2> QED BY <2>1 DEF Promise!Next
<1>4. CASE WritePiece(l)
  <2>1. CASE left[l] = 1
    <3>1. acked[l] # 0
      <4>1. acked[l] > 0 /\ acked[l] \in Nat
        BY <1>4, TypesOf DEF WritePiece, StreamInv, OpenInv, Open, TypesAt
      <4> QED BY <4>1
    <3>2. Promise!ReturnOk(l) BY <1>4, <2>1, <3>1 DEF WritePiece, Promise!ReturnOk
    <3> QED BY <3>2 DEF Promise!Next
  <2>2. CASE left[l] # 1
    <3>1. Quiet BY <1>4, <2>2 DEF WritePiece, Quiet, history
    <3> QED BY <3>1, QuietStutters
  <2> QED BY <2>1, <2>2
<1>5. CASE Read(l)
  <2>1. Promise!Take(l) BY <1>5, ReadTakes
  <2> QED BY <2>1 DEF Promise!Next
<1>6. CASE ReadClosed(l)
  <2>1. Promise!Unread(l) = {} BY <1>6, ReadClosedKeeps
  <2>2. Promise!TellClosed(l) BY <1>6, <2>1 DEF ReadClosed, Promise!TellClosed
  <2> QED BY <2>2 DEF Promise!Next
<1>7. CASE TransportOkay(l) \/ OpenFails(l) \/ WriteFails(l) \/ CloseStream(l)
  <2>1. Quiet BY <1>7 DEF TransportOkay, OpenFails, WriteFails, CloseStream, Quiet
  <2> QED BY <2>1, QuietStutters
<1> QED BY <1>1, <1>2, <1>3, <1>4, <1>5, <1>6, <1>7 DEF Owner

LEMMA FarStep ==
  ASSUME Types, Types', NEW l \in Local, StreamInv(l), Far(l)
  PROVE  Promise!Next \/ UNCHANGED Promise!vars
<1>1. CASE AdbAnswers(l)
  <2>1. requests[l] = 1 /\ got[l] = 0 BY <1>1, AdbAnswersKeeps
  <2>2. /\ UNCHANGED <<requests, acked, sent, taken, lost, eof>>
        /\ got' = [got EXCEPT ![l] = 1] \/ got' = got
    <3>1. \/ got' = [got EXCEPT ![l] = IF Head(up[l]).kind = "service" THEN 1 ELSE @]
          \/ got' = got
      BY <1>1 DEF AdbAnswers
    <3>2. [got EXCEPT ![l] = got[l]] = got BY DEF Types, HistoryTypes
    <3> QED BY <1>1, <3>1, <3>2 DEF AdbAnswers
  <2>3. CASE got' = [got EXCEPT ![l] = 1]
    <3>1. Promise!Accept(l) BY <2>1, <2>2, <2>3 DEF Promise!Accept
    <3> QED BY <3>1 DEF Promise!Next
  <2>4. CASE got' = got BY <2>2, <2>4 DEF Promise!vars
  <2> QED BY <2>2, <2>3, <2>4
<1>2. CASE ServiceReads(l)
  <2>1. got'[l] = got[l] \/ (got'[l] = got[l] + 1 /\ got[l] < requests[l])
    BY <1>2, ServiceReadsKeeps
  <2>2. /\ UNCHANGED <<requests, acked, sent, taken, lost, eof>>
        /\ got' = [got EXCEPT ![l] = IF Head(up[l]).last THEN @ + 1 ELSE @]
    BY <1>2 DEF ServiceReads
  <2>3. got' = [got EXCEPT ![l] = got'[l]] BY <2>2 DEF Types, HistoryTypes
  <2>4. CASE got'[l] = got[l]
    <3>1. got' = got BY <2>3, <2>4 DEF Types, HistoryTypes
    <3> QED BY <2>2, <3>1 DEF Promise!vars
  <2>5. CASE got'[l] = got[l] + 1 /\ got[l] < requests[l]
    <3>1. Promise!Accept(l) BY <2>2, <2>3, <2>5 DEF Promise!Accept
    <3> QED BY <3>1 DEF Promise!Next
  <2> QED BY <2>1, <2>4, <2>5
<1>3. CASE ServiceSends(l)
  <2>1. l \notin eof BY <1>3, ServiceSendsKeeps
  <2>2. Promise!Send(l) BY <1>3, <2>1 DEF ServiceSends, Promise!Send
  <2> QED BY <2>2 DEF Promise!Next
<1>4. CASE Break(l)
  <2>1. Numbers(down[l]) \subseteq Promise!Unread(l) BY DEF StreamInv, DataInv, OnTheWay
  <2>2. /\ lost' = [lost EXCEPT ![l] = @ \cup Numbers(down[l])]
        /\ UNCHANGED <<requests, got, acked, sent, taken, eof>>
    BY <1>4 DEF Break, Numbers
  <2>3. Promise!Lose(l) BY <2>1, <2>2 DEF Promise!Lose
  <2> QED BY <2>3 DEF Promise!Next
<1>5. CASE ServiceBegins(l) \/ ServiceEnds(l)
  <2>1. Quiet BY <1>5 DEF ServiceBegins, ServiceEnds, Quiet
  <2> QED BY <2>1, QuietStutters
<1> QED BY <1>1, <1>2, <1>3, <1>4, <1>5 DEF Far

LEMMA StepRefines ==
  ASSUME Types, ServerInv, [Next]_vars
  PROVE  [Promise!Next]_(Promise!vars)
<1>1. Types' BY InvType
<1>2. CASE UNCHANGED vars BY <1>2 DEF vars, history, Promise!vars
<1>3. CASE DropServer
  <2>1. Quiet BY <1>3 DEF DropServer, Quiet
  <2> QED BY <2>1, QuietStutters
<1>4. ASSUME NEW l \in Local, Owner(l) \/ Pump(l) \/ Far(l)
      PROVE  Promise!Next \/ UNCHANGED Promise!vars
  <2>1. StreamInv(l) BY DEF ServerInv
  <2>2. CASE Owner(l) BY <1>1, <2>1, <2>2, OwnerStep
  <2>3. CASE Pump(l)
    <3>1. Quiet BY <2>3 DEF Pump, PumpReads, PumpSends, PumpEnds, Quiet
    <3> QED BY <3>1, QuietStutters
  <2>4. CASE Far(l) BY <1>1, <2>1, <2>4, FarStep
  <2> QED BY <1>4, <2>2, <2>3, <2>4
<1> QED BY <1>2, <1>3, <1>4 DEF Next, Far

\* A stream over the local adb server is what Transport promises its owner: payloads are read
\* in order and each once, nothing is lost but what a broken connection held, Closed is told
\* only when nothing is left, and an open that returns Ok was accepted by the device
\* (crates/transport/src/adb/server.rs, all of it).
THEOREM ImplementsStream == Spec => KeepsPromise
<1>1. Init => Promise!Init
  BY DEF Init, Promise!Init
<1>2. Types /\ ServerInv /\ [Next]_vars => [Promise!Next]_(Promise!vars) BY StepRefines
<1> QED BY <1>1, <1>2, Invariant, PTL DEF Spec, KeepsPromise, Promise!Spec

=================================================================================
