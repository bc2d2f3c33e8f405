--------------------------- MODULE AdbClientProofs ---------------------------
(***************************************************************************)
(* Theorems about AdbClient, for every value of its constants.             *)
(***************************************************************************)
EXTENDS AdbClient, TLAPS

\* What the client and adbd put on the link are packets.
LEMMA PacketTypes ==
  ASSUME NEW l \in Local
  PROVE  /\ NoPacket \in Packet /\ NoHeader \in Transfer
         /\ \A c \in {"OKAY", "WRTE", "CLSE"} : \A n \in Nat : Reply(c, l, n) \in Packet
         /\ \A c \in {"OPEN", "WRTE", "CLSE", "OKAY"} :
              Payload(c, l) \in Transfer /\ \A more \in BOOLEAN : Header(c, l, more) \in Transfer
<1>1. 1 \in Local
  BY BoundsAssumption, SMT DEF Local
<1> QED
  BY <1>1 DEF Header, Payload, Reply, NoPacket, NoHeader, Transfer, Packet

\* Init has the right types.
LEMMA InitType == Init => TypeOK
<1>1. 1 \in Local
  BY BoundsAssumption, SMT DEF Local
<1> QED
  BY <1>1 DEF Init, TypeOK, CallerTypes, TablesTypes, ReaderTypes, WiresTypes, DeviceTypes,
             HistoryTypes, NoPacket, NoHeader, Transfer, Packet, Phase

\* The first packet of a nonempty queue is one of its packets.
LEMMA HeadTail ==
  ASSUME NEW S, NEW s \in Seq(S), s # <<>>
  PROVE  /\ Head(s) \in S /\ Tail(s) \in Seq(S)
         /\ Len(s) \in Nat \ {0} /\ Len(Tail(s)) = Len(s) - 1
         /\ Head(s) = s[1]
         /\ \A i \in 1..Len(Tail(s)) : Tail(s)[i] = s[i + 1]
  OBVIOUS

\* A packet more.
LEMMA Appended ==
  ASSUME NEW S, NEW s \in Seq(S), NEW e \in S
  PROVE  /\ Append(s, e) \in Seq(S)
         /\ Len(s) \in Nat /\ Len(Append(s, e)) = Len(s) + 1
         /\ Append(s, e)[Len(s) + 1] = e
         /\ \A i \in 1..Len(s) : Append(s, e)[i] = s[i]
  OBVIOUS

\* The calls of a stream's owner keep the types.
LEMMA CallerType ==
  ASSUME TypeOK, NEW l \in Local, Caller(l)
  PROVE  TypeOK'
<1> USE DEF caller, tables, wires, device, history, At, Go, Return, DropSlot, NewWaiter, Issue
<1>1. CASE OpenStream(l)
  <2>1. CallerTypes' BY <1>1 DEF TypeOK, OpenStream, CallerTypes, Phase, Sending, Waiting
  <2>2. TablesTypes' BY <1>1 DEF TypeOK, OpenStream, TablesTypes
  <2>3. HistoryTypes' BY <1>1 DEF TypeOK, OpenStream, HistoryTypes
  <2>4. ReaderTypes' /\ WiresTypes' /\ DeviceTypes'
    BY <1>1 DEF TypeOK, OpenStream, ReaderTypes, WiresTypes, DeviceTypes
  <2> QED BY <2>1, <2>2, <2>3, <2>4 DEF TypeOK
<1>2. CASE Write(l)
  <2>1. CallerTypes' BY <1>2 DEF TypeOK, Write, CallerTypes, Phase, Sending, Waiting
  <2>2. TablesTypes' BY <1>2 DEF TypeOK, Write, TablesTypes
  <2>3. HistoryTypes' BY <1>2 DEF TypeOK, Write, HistoryTypes
  <2>4. ReaderTypes' /\ WiresTypes' /\ DeviceTypes'
    BY <1>2 DEF TypeOK, Write, ReaderTypes, WiresTypes, DeviceTypes
  <2> QED BY <2>1, <2>2, <2>3, <2>4 DEF TypeOK
<1>3. CASE CloseStream(l)
  <2>1. CallerTypes' BY <1>3 DEF TypeOK, CloseStream, CallerTypes, Phase, Sending, Waiting
  <2>2. TablesTypes' BY <1>3 DEF TypeOK, CloseStream, TablesTypes
  <2>3. ReaderTypes' /\ WiresTypes' /\ DeviceTypes' /\ HistoryTypes'
    BY <1>3 DEF TypeOK, CloseStream, ReaderTypes, WiresTypes, DeviceTypes, HistoryTypes
  <2> QED BY <2>1, <2>2, <2>3 DEF TypeOK
<1>4. CASE SendHeader(l)
  <2>1. CallerTypes' BY <1>4 DEF TypeOK, SendHeader, CallerTypes, Phase, Sending, Waiting, Transmit
  <2>2. WiresTypes'
    <3>1. \E c \in {"OPEN", "WRTE", "CLSE"} : \E more \in BOOLEAN : Transmit(Header(c, l, more))
      BY <1>4 DEF SendHeader
    <3> QED BY <3>1, PacketTypes DEF TypeOK, WiresTypes, Transmit
  <2>3. TablesTypes' /\ ReaderTypes' /\ DeviceTypes' /\ HistoryTypes'
    BY <1>4 DEF TypeOK, SendHeader, TablesTypes, ReaderTypes, DeviceTypes, HistoryTypes, Transmit
  <2> QED BY <2>1, <2>2, <2>3 DEF TypeOK
<1>5. CASE SendPayload(l)
  <2>1. CallerTypes' BY <1>5 DEF TypeOK, SendPayload, CallerTypes, Phase, Sending, Waiting, Transmit
  <2>2. WiresTypes'
    <3>1. \E c \in {"OPEN", "WRTE"} : Transmit(Payload(c, l))
      BY <1>5 DEF SendPayload
    <3> QED BY <3>1, PacketTypes, Appended DEF TypeOK, WiresTypes, Transmit
  <2>3. TablesTypes' /\ ReaderTypes' /\ DeviceTypes' /\ HistoryTypes'
    BY <1>5 DEF TypeOK, SendPayload, TablesTypes, ReaderTypes, DeviceTypes, HistoryTypes, Transmit
  <2> QED BY <2>1, <2>2, <2>3 DEF TypeOK
<1>6. CASE SendFails(l)
  <2>1. CallerTypes' BY <1>6 DEF TypeOK, SendFails, CallerTypes, Phase, Sending, Waiting
  <2>2. TablesTypes' BY <1>6 DEF TypeOK, SendFails, TablesTypes
  <2>3. ReaderTypes' /\ WiresTypes' /\ DeviceTypes' /\ HistoryTypes'
    BY <1>6 DEF TypeOK, SendFails, ReaderTypes, WiresTypes, DeviceTypes, HistoryTypes
  <2> QED BY <2>1, <2>2, <2>3 DEF TypeOK
<1>7. CASE OpenOk(l)
  <2>1. CallerTypes' BY <1>7 DEF TypeOK, OpenOk, CallerTypes, Phase, Sending, Waiting
  <2>2. TablesTypes' BY <1>7 DEF TypeOK, OpenOk, TablesTypes
  <2>3. HistoryTypes' BY <1>7 DEF TypeOK, OpenOk, HistoryTypes
  <2>4. ReaderTypes' /\ WiresTypes' /\ DeviceTypes'
    BY <1>7 DEF TypeOK, OpenOk, ReaderTypes, WiresTypes, DeviceTypes
  <2> QED BY <2>1, <2>2, <2>3, <2>4 DEF TypeOK
<1>8. CASE OpenRefused(l)
  <2>1. CallerTypes' BY <1>8 DEF TypeOK, OpenRefused, CallerTypes, Phase, Sending, Waiting
  <2>2. TablesTypes' BY <1>8 DEF TypeOK, OpenRefused, TablesTypes
  <2>3. ReaderTypes' BY <1>8 DEF TypeOK, OpenRefused, ReaderTypes
  <2>4. WiresTypes' /\ DeviceTypes' /\ HistoryTypes'
    BY <1>8 DEF TypeOK, OpenRefused, WiresTypes, DeviceTypes, HistoryTypes
  <2> QED BY <2>1, <2>2, <2>3, <2>4 DEF TypeOK
<1>9. CASE OpenTimeout(l)
  <2>1. CallerTypes' BY <1>9 DEF TypeOK, OpenTimeout, CallerTypes, Phase, Sending, Waiting
  <2>2. TablesTypes' BY <1>9 DEF TypeOK, OpenTimeout, TablesTypes
  <2>3. ReaderTypes' BY <1>9 DEF TypeOK, OpenTimeout, ReaderTypes
  <2>4. HistoryTypes' BY <1>9 DEF TypeOK, OpenTimeout, HistoryTypes
  <2>5. WiresTypes' /\ DeviceTypes'
    BY <1>9 DEF TypeOK, OpenTimeout, WiresTypes, DeviceTypes
  <2> QED BY <2>1, <2>2, <2>3, <2>4, <2>5 DEF TypeOK
<1>10. CASE WriteAcked(l)
  <2>1. CallerTypes' BY <1>10 DEF TypeOK, WriteAcked, CallerTypes, Phase, Sending, Waiting
  <2>2. TablesTypes' BY <1>10 DEF TypeOK, WriteAcked, TablesTypes
  <2>3. HistoryTypes' BY <1>10 DEF TypeOK, WriteAcked, HistoryTypes
  <2>4. ReaderTypes' /\ WiresTypes' /\ DeviceTypes'
    BY <1>10 DEF TypeOK, WriteAcked, ReaderTypes, WiresTypes, DeviceTypes
  <2> QED BY <2>1, <2>2, <2>3, <2>4 DEF TypeOK
<1>11. CASE WriteClosed(l)
  <2>1. CallerTypes' BY <1>11 DEF TypeOK, WriteClosed, CallerTypes, Phase, Sending, Waiting
  <2>2. TablesTypes' BY <1>11 DEF TypeOK, WriteClosed, TablesTypes
  <2>3. ReaderTypes' /\ WiresTypes' /\ DeviceTypes' /\ HistoryTypes'
    BY <1>11 DEF TypeOK, WriteClosed, ReaderTypes, WiresTypes, DeviceTypes, HistoryTypes
  <2> QED BY <2>1, <2>2, <2>3 DEF TypeOK
<1>12. CASE WriteTimeout(l)
  <2>1. CallerTypes' BY <1>12 DEF TypeOK, WriteTimeout, CallerTypes, Phase, Sending, Waiting
  <2>2. TablesTypes' BY <1>12 DEF TypeOK, WriteTimeout, TablesTypes
  <2>3. ReaderTypes' /\ WiresTypes' /\ DeviceTypes' /\ HistoryTypes'
    BY <1>12 DEF TypeOK, WriteTimeout, ReaderTypes, WiresTypes, DeviceTypes, HistoryTypes
  <2> QED BY <2>1, <2>2, <2>3 DEF TypeOK
<1>13. CASE CloseReturns(l)
  <2>1. CallerTypes' BY <1>13 DEF TypeOK, CloseReturns, CallerTypes, Phase, Sending, Waiting
  <2>2. TablesTypes' BY <1>13 DEF TypeOK, CloseReturns, TablesTypes
  <2>3. ReaderTypes' BY <1>13 DEF TypeOK, CloseReturns, ReaderTypes
  <2>4. WiresTypes' /\ DeviceTypes' /\ HistoryTypes'
    BY <1>13 DEF TypeOK, CloseReturns, WiresTypes, DeviceTypes, HistoryTypes
  <2> QED BY <2>1, <2>2, <2>3, <2>4 DEF TypeOK
<1>14. CASE Read(l)
  <2>1. ReaderTypes' BY <1>14, HeadTail DEF TypeOK, Read, ReaderTypes
  <2>2. HistoryTypes' BY <1>14, HeadTail DEF TypeOK, Read, HistoryTypes, ReaderTypes
  <2>3. CallerTypes' /\ TablesTypes' /\ WiresTypes' /\ DeviceTypes'
    BY <1>14 DEF TypeOK, Read, CallerTypes, TablesTypes, WiresTypes, DeviceTypes
  <2> QED BY <2>1, <2>2, <2>3 DEF TypeOK
<1>15. CASE ReadClosed(l)
  <2>1. HistoryTypes' BY <1>15 DEF TypeOK, ReadClosed, HistoryTypes
  <2>2. CallerTypes' /\ TablesTypes' /\ ReaderTypes' /\ WiresTypes' /\ DeviceTypes'
    BY <1>15 DEF TypeOK, ReadClosed, CallerTypes, TablesTypes, ReaderTypes, WiresTypes, DeviceTypes
  <2> QED BY <2>1, <2>2 DEF TypeOK
<1> QED BY <1>1, <1>2, <1>3, <1>4, <1>5, <1>6, <1>7, <1>8, <1>9, <1>10, <1>11, <1>12, <1>13, <1>14, <1>15 DEF Caller

\* The reader task keeps the types.
LEMMA ReaderType ==
  ASSUME TypeOK, Reader
  PROVE  TypeOK'
<1> USE DEF caller, tables, wires, device, history
<1> 1 \in Local BY BoundsAssumption DEF Local
<1>1. CASE ReadOkay
  <2>1. TablesTypes' BY <1>1, HeadTail DEF TypeOK, ReadOkay, TablesTypes, Received, Wake, WiresTypes, Packet
  <2>2. WiresTypes' BY <1>1, HeadTail DEF TypeOK, ReadOkay, WiresTypes, Received
  <2>3. CallerTypes' /\ ReaderTypes' /\ DeviceTypes' /\ HistoryTypes'
    BY <1>1 DEF TypeOK, ReadOkay, CallerTypes, ReaderTypes, DeviceTypes, HistoryTypes
  <2> QED BY <2>1, <2>2, <2>3 DEF TypeOK
<1>2. CASE ReadWrte
  <2>1. ReaderTypes' BY <1>2, HeadTail DEF TypeOK, ReadWrte, ReaderTypes, Received, WiresTypes
  <2>2. WiresTypes' BY <1>2, HeadTail DEF TypeOK, ReadWrte, WiresTypes, Received
  <2>3. CallerTypes' /\ TablesTypes' /\ DeviceTypes' /\ HistoryTypes'
    BY <1>2 DEF TypeOK, ReadWrte, CallerTypes, TablesTypes, DeviceTypes, HistoryTypes
  <2> QED BY <2>1, <2>2, <2>3 DEF TypeOK
<1>3. CASE SendOkay
  <2>1. ReaderTypes' BY <1>3 DEF TypeOK, SendOkay, ReaderTypes, Transmit
  <2>2. WiresTypes'
    <3>1. reader.pkt.local \in Local
      BY DEF TypeOK, ReaderTypes, Packet
    <3>2. Header("OKAY", reader.pkt.local, FALSE) \in Transfer
      BY <3>1, PacketTypes
    <3>3. PICK t \in Transfer : toDevice' = Append(toDevice, t) /\ UNCHANGED <<toHost, link>>
      BY <1>3, <3>2, Zenon DEF SendOkay, Transmit
    <3> QED BY <3>2, <3>3 DEF TypeOK, WiresTypes
  <2>3. CallerTypes' /\ TablesTypes' /\ DeviceTypes' /\ HistoryTypes'
    BY <1>3 DEF TypeOK, SendOkay, CallerTypes, TablesTypes, DeviceTypes, HistoryTypes, Transmit
  <2> QED BY <2>1, <2>2, <2>3 DEF TypeOK
<1>4. CASE Deliver
  <2>1. ReaderTypes'
    <3>1. reader.pkt.local \in Local /\ reader.pkt.n \in Nat /\ NoPacket \in Packet
      BY PacketTypes DEF TypeOK, ReaderTypes, Packet
    <3>2. rx' = rx \/ rx' = [rx EXCEPT ![reader.pkt.local] = Append(@, reader.pkt.n)]
      BY <1>4 DEF Deliver
    <3>3. Append(rx[reader.pkt.local], reader.pkt.n) \in Seq(Nat)
      BY <3>1 DEF TypeOK, ReaderTypes
    <3>4. rx' \in [Local -> Seq(Nat)]
      BY <3>1, <3>2, <3>3 DEF TypeOK, ReaderTypes
    <3> QED BY <1>4, <3>1, <3>4 DEF TypeOK, Deliver, ReaderTypes
  <2>2. HistoryTypes'
    <3>1. reader.pkt.local \in Local /\ reader.pkt.n \in Nat
      BY DEF TypeOK, ReaderTypes, Packet
    <3>2. \/ lost' = lost
          \/ lost' = [lost EXCEPT ![reader.pkt.local] = @ \cup {reader.pkt.n}]
      BY <1>4 DEF Deliver
    <3>3. lost' \in [Local -> SUBSET Nat]
      BY <3>1, <3>2 DEF TypeOK, HistoryTypes
    <3> QED BY <1>4, <3>3 DEF TypeOK, Deliver, HistoryTypes
  <2>3. CallerTypes' /\ TablesTypes' /\ WiresTypes' /\ DeviceTypes'
    BY <1>4 DEF TypeOK, Deliver, CallerTypes, TablesTypes, WiresTypes, DeviceTypes
  <2> QED BY <2>1, <2>2, <2>3 DEF TypeOK
<1>5. CASE ReadClse
  <2>1. TablesTypes' BY <1>5, HeadTail DEF TypeOK, ReadClse, TablesTypes, Received, Wake, WiresTypes, Packet
  <2>2. WiresTypes' BY <1>5, HeadTail DEF TypeOK, ReadClse, WiresTypes, Received
  <2>3. CallerTypes' /\ ReaderTypes' /\ DeviceTypes' /\ HistoryTypes'
    BY <1>5 DEF TypeOK, ReadClse, CallerTypes, ReaderTypes, DeviceTypes, HistoryTypes
  <2> QED BY <2>1, <2>2, <2>3 DEF TypeOK
<1>6. CASE ReaderEnds
  <2>1. ReaderTypes' BY <1>6, PacketTypes DEF TypeOK, ReaderEnds, ReaderTypes
  <2>2. CallerTypes' /\ TablesTypes' /\ WiresTypes' /\ DeviceTypes' /\ HistoryTypes'
    BY <1>6 DEF TypeOK, ReaderEnds, CallerTypes, TablesTypes, WiresTypes, DeviceTypes, HistoryTypes
  <2> QED BY <2>1, <2>2 DEF TypeOK
<1> QED BY <1>1, <1>2, <1>3, <1>4, <1>5, <1>6 DEF Reader

\* The device and the link keep the types.
LEMMA DeviceType ==
  ASSUME TypeOK, NEW l \in Local,
         AdbdReads \/ LinkFails \/ AdbdAnswers(l) \/ AdbdSends(l) \/ AdbdCloses(l)
  PROVE  TypeOK'
<1> USE DEF caller, tables, wires, device, history
<1>1. CASE AdbdTakesHeader
  <2> DEFINE h == Head(toDevice)
  <2>1. h \in Transfer /\ h.local \in Local /\ toDevice' \in Seq(Transfer)
    <3>1. toDevice \in Seq(Transfer) /\ toDevice # <<>> /\ toDevice' = Tail(toDevice)
      BY <1>1 DEF TypeOK, AdbdTakesHeader, WiresTypes
    <3>2. h \in Transfer /\ toDevice' \in Seq(Transfer)
      BY <3>1, HeadTail
    <3> QED BY <3>2 DEF Transfer
  <2>2. toHost' = toHost \/ toHost' = Append(toHost, Reply("CLSE", h.local, 0))
    BY <1>1 DEF AdbdTakesHeader, Post
  <2>3. WiresTypes'
    <3>1. toHost \in Seq(Packet) /\ Reply("CLSE", h.local, 0) \in Packet
      BY <2>1, PacketTypes DEF TypeOK, WiresTypes
    <3>2. toHost' \in Seq(Packet)
      BY <2>2, <3>1, Appended
    <3>3. link' = link /\ link \in {"up", "down"}
      BY <1>1 DEF TypeOK, AdbdTakesHeader, WiresTypes
    <3> QED BY <2>1, <3>2, <3>3 DEF WiresTypes
  <2>4. /\ expect' \in {expect, h} /\ owes' \subseteq owes \cup {h.local} /\ sent' = sent
        /\ socket' = socket \/ socket' = [socket EXCEPT ![h.local] = "closed"]
        /\ ready' \subseteq ready \cup {h.local}
        /\ got' = got \/ got' = [got EXCEPT ![h.local] = @ + 1]
    BY <1>1 DEF AdbdTakesHeader, Accept
  <2>5. DeviceTypes'
    <3>1. expect' \in Transfer /\ owes' \subseteq Local /\ ready' \subseteq Local /\ sent' \in [Local -> Nat]
      BY <2>1, <2>4 DEF TypeOK, DeviceTypes
    <3>2. socket' \in [Local -> {"none", "open", "closed"}]
      BY <2>1, <2>4 DEF TypeOK, DeviceTypes
    <3>3. got' \in [Local -> Nat]
      BY <2>1, <2>4 DEF TypeOK, DeviceTypes
    <3> QED BY <3>1, <3>2, <3>3 DEF DeviceTypes
  <2>6. CallerTypes' /\ TablesTypes' /\ ReaderTypes' /\ HistoryTypes'
    BY <1>1 DEF TypeOK, AdbdTakesHeader, CallerTypes, TablesTypes, ReaderTypes, HistoryTypes
  <2> QED BY <2>3, <2>5, <2>6 DEF TypeOK
<1>2. CASE AdbdTakesPayload
  <2>1. expect.local \in Local /\ toDevice' \in Seq(Transfer)
    BY <1>2, HeadTail DEF TypeOK, AdbdTakesPayload, WiresTypes, DeviceTypes, Transfer
  <2>2. toHost' = toHost \/ toHost' = Append(toHost, Reply("CLSE", expect.local, 0))
    BY <1>2 DEF AdbdTakesPayload, Post
  <2>3. WiresTypes'
    <3>1. toHost \in Seq(Packet) /\ Reply("CLSE", expect.local, 0) \in Packet
      BY <2>1, PacketTypes DEF TypeOK, WiresTypes
    <3>2. toHost' \in Seq(Packet)
      BY <2>2, <3>1, Appended
    <3>3. link' = link /\ link \in {"up", "down"}
      BY <1>2 DEF TypeOK, AdbdTakesPayload, WiresTypes
    <3> QED BY <2>1, <3>2, <3>3 DEF WiresTypes
  <2>4. /\ expect' = NoHeader /\ owes' \subseteq owes \cup {expect.local} /\ sent' = sent
        /\ socket' = socket \/ socket' = [socket EXCEPT ![expect.local] = "open"]
        /\ ready' \subseteq ready \cup {expect.local}
        /\ got' = got \/ got' = [got EXCEPT ![expect.local] = @ + 1]
    BY <1>2 DEF AdbdTakesPayload, Accept
  <2>5. DeviceTypes'
    <3>1. expect' \in Transfer /\ owes' \subseteq Local /\ ready' \subseteq Local /\ sent' \in [Local -> Nat]
      BY <2>1, <2>4, PacketTypes DEF TypeOK, DeviceTypes
    <3>2. socket' \in [Local -> {"none", "open", "closed"}]
      BY <2>1, <2>4 DEF TypeOK, DeviceTypes
    <3>3. got' \in [Local -> Nat]
      <4>1. got \in [Local -> Nat] BY DEF TypeOK, DeviceTypes
      <4>2. got' = got \/ got' = [got EXCEPT ![expect.local] = @ + 1] BY <2>4
      <4> QED BY <2>1, <4>1, <4>2
    <3> QED BY <3>1, <3>2, <3>3 DEF DeviceTypes
  <2>6. CallerTypes' /\ TablesTypes' /\ ReaderTypes' /\ HistoryTypes'
    BY <1>2 DEF TypeOK, AdbdTakesPayload, CallerTypes, TablesTypes, ReaderTypes, HistoryTypes
  <2> QED BY <2>3, <2>5, <2>6 DEF TypeOK
<1>3. CASE Disconnect
  <2>1. WiresTypes' BY <1>3 DEF TypeOK, Disconnect, WiresTypes
  <2>2. DeviceTypes' BY <1>3, PacketTypes DEF TypeOK, Disconnect, DeviceTypes
  <2>3. CallerTypes' /\ TablesTypes' /\ ReaderTypes' /\ HistoryTypes'
    BY <1>3 DEF TypeOK, Disconnect, CallerTypes, TablesTypes, ReaderTypes, HistoryTypes
  <2> QED BY <2>1, <2>2, <2>3 DEF TypeOK
<1>4. CASE AdbdAnswers(l)
  <2>1. WiresTypes' BY <1>4, PacketTypes DEF TypeOK, AdbdAnswers, WiresTypes, Post
  <2>2. DeviceTypes' BY <1>4 DEF TypeOK, AdbdAnswers, DeviceTypes
  <2>3. CallerTypes' /\ TablesTypes' /\ ReaderTypes' /\ HistoryTypes'
    BY <1>4 DEF TypeOK, AdbdAnswers, CallerTypes, TablesTypes, ReaderTypes, HistoryTypes
  <2> QED BY <2>1, <2>2, <2>3 DEF TypeOK
<1>5. CASE AdbdSends(l)
  <2>1. WiresTypes' BY <1>5, PacketTypes DEF TypeOK, AdbdSends, WiresTypes, Post, DeviceTypes
  <2>2. DeviceTypes' BY <1>5 DEF TypeOK, AdbdSends, DeviceTypes, Opened
  <2>3. CallerTypes' /\ TablesTypes' /\ ReaderTypes' /\ HistoryTypes'
    BY <1>5 DEF TypeOK, AdbdSends, CallerTypes, TablesTypes, ReaderTypes, HistoryTypes
  <2> QED BY <2>1, <2>2, <2>3 DEF TypeOK
<1>6. CASE AdbdCloses(l)
  <2>1. WiresTypes' BY <1>6, PacketTypes DEF TypeOK, AdbdCloses, WiresTypes, Post
  <2>2. DeviceTypes' BY <1>6 DEF TypeOK, AdbdCloses, DeviceTypes, Opened
  <2>3. CallerTypes' /\ TablesTypes' /\ ReaderTypes' /\ HistoryTypes'
    BY <1>6 DEF TypeOK, AdbdCloses, CallerTypes, TablesTypes, ReaderTypes, HistoryTypes
  <2> QED BY <2>1, <2>2, <2>3 DEF TypeOK
<1> QED BY <1>1, <1>2, <1>3, <1>4, <1>5, <1>6 DEF AdbdReads, AdbdRejects, LinkFails

\* Every variable of the ADB client keeps a value of its type, whatever callers, reader, adbd
\* and the link do, and for any number of streams and any depths.
THEOREM TypeCorrect == Spec => []TypeOK
<1>1. TypeOK /\ [Next]_vars => TypeOK'
  <2> SUFFICES ASSUME TypeOK, [Next]_vars PROVE TypeOK'
    OBVIOUS
  <2>1. CASE \E l \in Local : Caller(l)
    BY <2>1, CallerType
  <2>2. CASE Reader
    BY <2>2, ReaderType
  <2>3. CASE AdbdReads \/ LinkFails
    <3> 1 \in Local BY BoundsAssumption DEF Local
    <3> QED BY <2>3, DeviceType
  <2>4. CASE \E l \in Local : AdbdAnswers(l) \/ AdbdSends(l) \/ AdbdCloses(l)
    BY <2>4, DeviceType
  <2>5. CASE UNCHANGED vars
    BY <2>5 DEF vars, caller, tables, wires, device, history, TypeOK, CallerTypes, TablesTypes,
                ReaderTypes, WiresTypes, DeviceTypes, HistoryTypes
  <2> QED
    BY <2>1, <2>2, <2>3, <2>4, <2>5 DEF Next
<1> QED
  BY InitType, <1>1, PTL DEF Spec

------------------------------------------------------------------------------
(***************************************************************************)
(* The invariant behind OkMeansAccepted and IdleMeansSettled. It follows a *)
(* stream's one request from the call that issues it to the answer the     *)
(* caller takes: at any time it is with the host, in the link on its way   *)
(* to adbd, or accepted and its one answer owed, in the link or held.      *)
(***************************************************************************)

IsRequest(t, l) == t.part = "header" /\ t.command \in {"OPEN", "WRTE"} /\ t.local = l
IsOkay(p, l)    == p.command = "OKAY" /\ p.local = l

NoRequest(l) ==
  ~IsRequest(expect, l) /\ \A i \in 1..Len(toDevice) : ~IsRequest(toDevice[i], l)
OneRequest(l) ==
  /\ IsRequest(expect, l) => \A i \in 1..Len(toDevice) : ~IsRequest(toDevice[i], l)
  /\ \A i, j \in 1..Len(toDevice) :
       IsRequest(toDevice[i], l) /\ IsRequest(toDevice[j], l) => i = j

NoOkay(l)  == \A i \in 1..Len(toHost) : ~IsOkay(toHost[i], l)
OneOkay(l) == \A i, j \in 1..Len(toHost) : IsOkay(toHost[i], l) /\ IsOkay(toHost[j], l) => i = j

\* No request is open and none is under way.
Settled(l) ==
  /\ requests[l] = acked[l] /\ got[l] = acked[l]
  /\ NoRequest(l) /\ l \notin owes /\ NoOkay(l)

\* The request is issued and not yet written to the link.
Prepared(l) ==
  /\ requests[l] = acked[l] + 1 /\ got[l] = acked[l]
  /\ NoRequest(l) /\ l \notin owes /\ NoOkay(l) /\ ack[l] # "okay"

\* It is in the link, or lost with it: adbd has not accepted it.
Asked(l) ==
  /\ requests[l] = acked[l] + 1 /\ got[l] = acked[l]
  /\ OneRequest(l) /\ l \notin owes /\ NoOkay(l) /\ ack[l] # "okay"

\* adbd accepted it; at most one answer is owed, under way or held by the call.
Granted(l) ==
  /\ requests[l] = acked[l] + 1 /\ got[l] = requests[l]
  /\ NoRequest(l) /\ OneOkay(l)
  /\ l \in owes => NoOkay(l) /\ ack[l] # "okay"
  /\ ack[l] = "okay" => NoOkay(l)

StreamInv(l) ==
  /\ acked[l] <= got[l]
  /\ phase[l] \in {"none", "idle"} => Settled(l)
  /\ phase[l] \in {"open_header", "write_header"} => Prepared(l)
  /\ phase[l] \in {"open_payload", "open_wait", "write_payload", "write_wait"} => Asked(l) \/ Granted(l)

AnswerInv == \A l \in Local : StreamInv(l)

\* A stream keeps its invariant in a step that is not about it.
LEMMA Frame ==
  ASSUME NEW l \in Local, StreamInv(l),
         phase'[l] = phase[l], requests'[l] = requests[l], acked'[l] = acked[l],
         got'[l] = got[l], ack'[l] = ack[l] \/ ack'[l] # "okay", l \in owes' => l \in owes,
         NoRequest(l) => NoRequest(l)', OneRequest(l) => OneRequest(l)',
         NoOkay(l) => NoOkay(l)', OneOkay(l) => OneOkay(l)'
  PROVE  StreamInv(l)'
<1>1. /\ Settled(l) => Settled(l)'
      /\ Prepared(l) => Prepared(l)'
      /\ Asked(l) => Asked(l)'
      /\ Granted(l) => Granted(l)'
  BY DEF Settled, Prepared, Asked, Granted
<1> QED
  BY <1>1 DEF StreamInv

\* What adbd can still read of a stream's request when the host writes a transfer.
LEMMA WritesToDevice ==
  ASSUME TypeOK, NEW t \in Transfer, NEW l \in Local,
         toDevice' = Append(toDevice, t), expect' = expect
  PROVE  /\ ~IsRequest(t, l) /\ NoRequest(l) => NoRequest(l)'
         /\ ~IsRequest(t, l) /\ OneRequest(l) => OneRequest(l)'
         /\ NoRequest(l) => OneRequest(l)'
<1>1. toDevice \in Seq(Transfer)
  BY DEF TypeOK, WiresTypes
<1>2. /\ Len(toDevice) \in Nat /\ Len(toDevice') = Len(toDevice) + 1
      /\ \A i \in 1..Len(toDevice) : toDevice'[i] = toDevice[i]
      /\ toDevice'[Len(toDevice) + 1] = t
  BY <1>1
<1>3. \A i \in 1..Len(toDevice') : i \in 1..Len(toDevice) \/ i = Len(toDevice) + 1
  BY <1>2
<1>4. \A i \in 1..Len(toDevice') : IsRequest(toDevice'[i], l) =>
        (i \in 1..Len(toDevice) /\ IsRequest(toDevice[i], l)) \/ (i = Len(toDevice) + 1 /\ IsRequest(t, l))
  BY <1>2, <1>3
<1>5. ASSUME ~IsRequest(t, l), NoRequest(l) PROVE NoRequest(l)'
  BY <1>4, <1>5 DEF NoRequest
<1>6. ASSUME ~IsRequest(t, l), OneRequest(l) PROVE OneRequest(l)'
  BY <1>4, <1>6 DEF OneRequest
<1>7. ASSUME NoRequest(l) PROVE OneRequest(l)'
  BY <1>4, <1>7 DEF NoRequest, OneRequest
<1> QED
  BY <1>5, <1>6, <1>7

\* The same when adbd takes the first transfer, and keeps it if it announces a payload.
LEMMA DeviceReads ==
  ASSUME TypeOK, NEW l \in Local, toDevice # <<>>, toDevice' = Tail(toDevice),
         expect' = expect \/ expect' = Head(toDevice) \/ ~IsRequest(expect', l)
  PROVE  /\ NoRequest(l) => NoRequest(l)' /\ ~IsRequest(Head(toDevice), l) /\ ~IsRequest(expect, l)
         /\ OneRequest(l) => OneRequest(l)'
         /\ OneRequest(l) /\ IsRequest(Head(toDevice), l) /\ ~IsRequest(expect', l) => NoRequest(l)'
         /\ OneRequest(l) /\ IsRequest(expect, l) /\ ~IsRequest(expect', l) => NoRequest(l)'
<1> DEFINE n == Len(Tail(toDevice))
<1>1. toDevice \in Seq(Transfer)
  BY DEF TypeOK, WiresTypes
<1>2. /\ Len(toDevice) \in Nat \ {0} /\ n = Len(toDevice) - 1 /\ Head(toDevice) = toDevice[1]
      /\ \A i \in 1..n : toDevice'[i] = toDevice[i + 1]
  BY <1>1, HeadTail
<1> HIDE DEF n
<1>3. 1 \in 1..Len(toDevice) /\ Len(toDevice') = n /\ n \in Nat
      /\ \A i \in 1..n : i + 1 \in 1..Len(toDevice) /\ i + 1 # 1
  BY <1>2 DEF n
<1>4. ASSUME NoRequest(l)
      PROVE  NoRequest(l)' /\ ~IsRequest(Head(toDevice), l) /\ ~IsRequest(expect, l)
  BY <1>2, <1>3, <1>4 DEF NoRequest
<1>5. ASSUME OneRequest(l), IsRequest(Head(toDevice), l)
      PROVE  /\ ~IsRequest(expect, l)
             /\ \A i \in 1..n : ~IsRequest(toDevice'[i], l)
  BY <1>2, <1>3, <1>5 DEF OneRequest
<1>6. ASSUME OneRequest(l), IsRequest(expect, l)
      PROVE  ~IsRequest(Head(toDevice), l) /\ \A i \in 1..n : ~IsRequest(toDevice'[i], l)
  BY <1>2, <1>3, <1>6 DEF OneRequest
<1>7. ASSUME OneRequest(l)
      PROVE  \A i, j \in 1..n : IsRequest(toDevice'[i], l) /\ IsRequest(toDevice'[j], l) => i = j
  <2>1. \A i, j \in 1..n : IsRequest(toDevice'[i], l) /\ IsRequest(toDevice'[j], l) => i + 1 = j + 1
    BY <1>2, <1>3, <1>7 DEF OneRequest
  <2> QED BY <1>3, <2>1
<1>8. ASSUME OneRequest(l) PROVE OneRequest(l)'
  BY <1>3, <1>5, <1>6, <1>7, <1>8 DEF OneRequest
<1> QED
  BY <1>3, <1>4, <1>5, <1>6, <1>8 DEF NoRequest

\* The answers of a stream still on their way, when adbd posts a packet.
LEMMA DevicePosts ==
  ASSUME TypeOK, NEW p \in Packet, NEW l \in Local, toHost' = Append(toHost, p)
  PROVE  /\ ~IsOkay(p, l) /\ NoOkay(l) => NoOkay(l)'
         /\ ~IsOkay(p, l) /\ OneOkay(l) => OneOkay(l)'
         /\ NoOkay(l) => OneOkay(l)'
<1>1. toHost \in Seq(Packet)
  BY DEF TypeOK, WiresTypes
<1>2. /\ Len(toHost) \in Nat /\ Len(toHost') = Len(toHost) + 1
      /\ \A i \in 1..Len(toHost) : toHost'[i] = toHost[i]
      /\ toHost'[Len(toHost) + 1] = p
  BY <1>1
<1>3. \A i \in 1..Len(toHost') : i \in 1..Len(toHost) \/ i = Len(toHost) + 1
  BY <1>2
<1>4. \A i \in 1..Len(toHost') : IsOkay(toHost'[i], l) =>
        (i \in 1..Len(toHost) /\ IsOkay(toHost[i], l)) \/ (i = Len(toHost) + 1 /\ IsOkay(p, l))
  BY <1>2, <1>3
<1>5. ASSUME ~IsOkay(p, l), NoOkay(l) PROVE NoOkay(l)'
  BY <1>4, <1>5 DEF NoOkay
<1>6. ASSUME ~IsOkay(p, l), OneOkay(l) PROVE OneOkay(l)'
  BY <1>4, <1>6 DEF OneOkay
<1>7. ASSUME NoOkay(l) PROVE OneOkay(l)'
  BY <1>4, <1>7 DEF NoOkay, OneOkay
<1> QED
  BY <1>5, <1>6, <1>7

\* The same when the reader takes the first packet.
LEMMA HostReads ==
  ASSUME TypeOK, NEW l \in Local, toHost # <<>>, toHost' = Tail(toHost)
  PROVE  /\ NoOkay(l) => NoOkay(l)' /\ ~IsOkay(Head(toHost), l)
         /\ OneOkay(l) => OneOkay(l)'
         /\ OneOkay(l) /\ IsOkay(Head(toHost), l) => NoOkay(l)'
<1> DEFINE n == Len(Tail(toHost))
<1>1. toHost \in Seq(Packet)
  BY DEF TypeOK, WiresTypes
<1>2. /\ Len(toHost) \in Nat \ {0} /\ n = Len(toHost) - 1 /\ Head(toHost) = toHost[1]
      /\ \A i \in 1..n : toHost'[i] = toHost[i + 1]
  BY <1>1, HeadTail
<1> HIDE DEF n
<1>3. 1 \in 1..Len(toHost) /\ Len(toHost') = n /\ n \in Nat
      /\ \A i \in 1..n : i + 1 \in 1..Len(toHost) /\ i + 1 # 1
  BY <1>2 DEF n
<1>4. ASSUME NoOkay(l) PROVE NoOkay(l)' /\ ~IsOkay(Head(toHost), l)
  BY <1>2, <1>3, <1>4 DEF NoOkay
<1>5. ASSUME OneOkay(l) PROVE OneOkay(l)'
  <2>1. \A i, j \in 1..n : IsOkay(toHost'[i], l) /\ IsOkay(toHost'[j], l) => i + 1 = j + 1
    BY <1>2, <1>3, <1>5 DEF OneOkay
  <2>2. \A i, j \in 1..n : IsOkay(toHost'[i], l) /\ IsOkay(toHost'[j], l) => i = j
    BY <1>3, <2>1
  <2> QED BY <1>3, <2>2 DEF OneOkay
<1>6. ASSUME OneOkay(l), IsOkay(Head(toHost), l) PROVE NoOkay(l)'
  BY <1>2, <1>3, <1>5, <1>6 DEF OneOkay, NoOkay
<1> QED
  BY <1>4, <1>5, <1>6

\* What is under way for a stream depends on nothing but the queues.
LEMMA SameRequests ==
  ASSUME NEW l, toDevice' = toDevice, expect' = expect
  PROVE  (NoRequest(l)' <=> NoRequest(l)) /\ (OneRequest(l)' <=> OneRequest(l))
  BY DEF NoRequest, OneRequest, IsRequest

LEMMA SameOkays ==
  ASSUME NEW l, toHost' = toHost
  PROVE  (NoOkay(l)' <=> NoOkay(l)) /\ (OneOkay(l)' <=> OneOkay(l))
  BY DEF NoOkay, OneOkay, IsOkay

\* A call of one owner leaves the other streams alone.
LEMMA CallerOthers ==
  ASSUME TypeOK, NEW m \in Local, NEW l \in Local, l # m, StreamInv(l), Caller(m)
  PROVE  StreamInv(l)'
<1> USE DEF wires, device, history, At, Go, Return, DropSlot, NewWaiter, Issue, TypeOK, CallerTypes,
            TablesTypes, HistoryTypes
<1> DEFINE Apart == /\ phase'[l] = phase[l] /\ requests'[l] = requests[l] /\ acked'[l] = acked[l]
                    /\ ack'[l] = ack[l] /\ got' = got /\ owes' = owes /\ expect' = expect
                    /\ toHost' = toHost
<1>1. CASE OpenStream(m)
  <2>1. Apart /\ toDevice' = toDevice
    BY <1>1 DEF OpenStream, tables, caller
  <2> QED BY <2>1, SameRequests, SameOkays, Frame
<1>2. CASE Write(m)
  <2>1. Apart /\ toDevice' = toDevice
    BY <1>2 DEF Write, tables, caller
  <2> QED BY <2>1, SameRequests, SameOkays, Frame
<1>3. CASE CloseStream(m)
  <2>1. Apart /\ toDevice' = toDevice
    BY <1>3 DEF CloseStream, tables, caller
  <2> QED BY <2>1, SameRequests, SameOkays, Frame
<1>4. CASE SendHeader(m)
  <2>1. PICK t \in Transfer : t.local = m /\ toDevice' = Append(toDevice, t)
    BY <1>4, PacketTypes, Zenon DEF SendHeader, Transmit, Header, Payload
  <2>2. Apart
    BY <1>4 DEF SendHeader, Transmit, tables
  <2>3. ~IsRequest(t, l)
    BY <2>1 DEF IsRequest
  <2> QED BY <2>1, <2>2, <2>3, WritesToDevice, SameOkays, Frame
<1>5. CASE SendPayload(m)
  <2>1. PICK t \in Transfer : t.local = m /\ toDevice' = Append(toDevice, t)
    BY <1>5, PacketTypes, Zenon DEF SendPayload, Transmit, Header, Payload
  <2>2. Apart
    BY <1>5 DEF SendPayload, Transmit, tables
  <2>3. ~IsRequest(t, l)
    BY <2>1 DEF IsRequest
  <2> QED BY <2>1, <2>2, <2>3, WritesToDevice, SameOkays, Frame
<1>6. CASE SendFails(m)
  <2>1. Apart /\ toDevice' = toDevice
    BY <1>6 DEF SendFails, tables, caller
  <2> QED BY <2>1, SameRequests, SameOkays, Frame
<1>7. CASE OpenOk(m)
  <2>1. Apart /\ toDevice' = toDevice
    BY <1>7 DEF OpenOk, tables, caller
  <2> QED BY <2>1, SameRequests, SameOkays, Frame
<1>8. CASE OpenRefused(m)
  <2>1. Apart /\ toDevice' = toDevice
    BY <1>8 DEF OpenRefused, tables, caller
  <2> QED BY <2>1, SameRequests, SameOkays, Frame
<1>9. CASE OpenTimeout(m)
  <2>1. Apart /\ toDevice' = toDevice
    BY <1>9 DEF OpenTimeout, tables, caller
  <2> QED BY <2>1, SameRequests, SameOkays, Frame
<1>10. CASE WriteAcked(m)
  <2>1. Apart /\ toDevice' = toDevice
    BY <1>10 DEF WriteAcked, tables, caller
  <2> QED BY <2>1, SameRequests, SameOkays, Frame
<1>11. CASE WriteClosed(m)
  <2>1. Apart /\ toDevice' = toDevice
    BY <1>11 DEF WriteClosed, tables, caller
  <2> QED BY <2>1, SameRequests, SameOkays, Frame
<1>12. CASE WriteTimeout(m)
  <2>1. Apart /\ toDevice' = toDevice
    BY <1>12 DEF WriteTimeout, tables, caller
  <2> QED BY <2>1, SameRequests, SameOkays, Frame
<1>13. CASE CloseReturns(m)
  <2>1. Apart /\ toDevice' = toDevice
    BY <1>13 DEF CloseReturns, tables, caller
  <2> QED BY <2>1, SameRequests, SameOkays, Frame
<1>14. CASE Read(m)
  <2>1. Apart /\ toDevice' = toDevice
    BY <1>14 DEF Read, tables, caller
  <2> QED BY <2>1, SameRequests, SameOkays, Frame
<1>15. CASE ReadClosed(m)
  <2>1. Apart /\ toDevice' = toDevice
    BY <1>15 DEF ReadClosed, tables, caller
  <2> QED BY <2>1, SameRequests, SameOkays, Frame
<1> QED BY <1>1, <1>2, <1>3, <1>4, <1>5, <1>6, <1>7, <1>8, <1>9, <1>10, <1>11, <1>12, <1>13, <1>14, <1>15 DEF Caller

\* A call moves its own stream from one stage of a request to the next.
LEMMA CallerOwn ==
  ASSUME TypeOK, NEW l \in Local, StreamInv(l), Caller(l)
  PROVE  StreamInv(l)'
<1> USE DEF wires, device, history, At, Go, Return, DropSlot, NewWaiter, Issue
<1> /\ phase \in [Local -> Phase] /\ ack \in [Local -> {"none", "okay", "closed"}]
    /\ requests \in [Local -> Nat] /\ acked \in [Local -> Nat] /\ got \in [Local -> Nat]
  BY DEF TypeOK, CallerTypes, TablesTypes, HistoryTypes, DeviceTypes
<1> DEFINE Still == /\ got' = got /\ owes' = owes /\ expect' = expect /\ toHost' = toHost
<1>1. CASE OpenStream(l)
  <2>1. Still /\ toDevice' = toDevice
    BY <1>1 DEF OpenStream, tables, caller
  <2>2. Settled(l) /\ phase'[l] \in {"open_header", "write_header"}
    BY <1>1 DEF OpenStream, StreamInv
  <2>3. Prepared(l)'
    BY <1>1, <2>1, <2>2, SameRequests, SameOkays DEF OpenStream, Settled, Prepared
  <2> QED BY <2>1, <2>2, <2>3, <1>1 DEF OpenStream, StreamInv, Settled
<1>2. CASE Write(l)
  <2>1. Still /\ toDevice' = toDevice
    BY <1>2 DEF Write, tables, caller
  <2>2. Settled(l) /\ phase'[l] \in {"open_header", "write_header"}
    BY <1>2 DEF Write, StreamInv
  <2>3. Prepared(l)'
    BY <1>2, <2>1, <2>2, SameRequests, SameOkays DEF Write, Settled, Prepared
  <2> QED BY <2>1, <2>2, <2>3, <1>2 DEF Write, StreamInv, Settled
<1>3. CASE CloseStream(l)
  <2>1. Still /\ acked' = acked /\ phase'[l] \in {"close_header"}
    BY <1>3 DEF CloseStream, tables, caller
  <2> QED BY <2>1 DEF StreamInv
<1>4. CASE SendHeader(l)
  <2>1. PICK t \in Transfer : toDevice' = Append(toDevice, t)
    BY <1>4, PacketTypes, Zenon DEF SendHeader, Transmit
  <2>2. Still /\ requests' = requests /\ acked' = acked /\ ack' = ack
    BY <1>4 DEF SendHeader, Transmit, tables
  <2>3. CASE phase[l] = "close_header"
    <3>1. phase'[l] = "close_wait"
      BY <1>4, <2>3 DEF SendHeader
    <3> QED BY <2>2, <3>1 DEF StreamInv
  <2>4. CASE phase[l] # "close_header"
    <3>1. Prepared(l) /\ phase'[l] \in {"open_payload", "write_payload", "write_wait"}
      BY <1>4, <2>4 DEF SendHeader, StreamInv
    <3>2. OneRequest(l)'
      BY <2>1, <2>2, <3>1, WritesToDevice DEF Prepared
    <3>3. Asked(l)'
      BY <2>2, <3>1, <3>2, SameOkays DEF Prepared, Asked
    <3> QED BY <2>2, <3>1, <3>3 DEF StreamInv, Prepared
  <2> QED BY <2>3, <2>4
<1>5. CASE SendPayload(l)
  <2>1. PICK t \in Transfer : t.part = "payload" /\ toDevice' = Append(toDevice, t)
    BY <1>5, PacketTypes, Zenon DEF SendPayload, Transmit, Payload
  <2>2. Still /\ requests' = requests /\ acked' = acked /\ ack' = ack
    BY <1>5 DEF SendPayload, Transmit, tables
  <2>3. /\ phase[l] \in {"open_payload", "write_payload"}
        /\ phase'[l] \in {"open_wait", "write_wait"}
    BY <1>5 DEF SendPayload
  <2>4. ~IsRequest(t, l)
    BY <2>1 DEF IsRequest
  <2>5. (NoRequest(l) => NoRequest(l)') /\ (OneRequest(l) => OneRequest(l)')
    BY <2>1, <2>2, <2>4, WritesToDevice
  <2>6. (Asked(l) => Asked(l)') /\ (Granted(l) => Granted(l)')
    BY <2>2, <2>5, SameOkays DEF Asked, Granted
  <2> QED BY <2>2, <2>3, <2>6 DEF StreamInv
<1>6. CASE SendFails(l)
  <2>1. Still /\ acked' = acked /\ phase'[l] \in {"over", "failed", "close_wait"}
    BY <1>6 DEF SendFails, tables, caller
  <2> QED BY <2>1 DEF StreamInv
<1>7. CASE OpenOk(l)
  <2>1. Still /\ toDevice' = toDevice /\ ack[l] = "okay"
    BY <1>7 DEF OpenOk, tables, caller
  <2>2. Granted(l)
    BY <1>7 DEF OpenOk, StreamInv, Asked
  <2>3. NoRequest(l)' /\ NoOkay(l)' /\ l \notin owes' /\ acked'[l] = got'[l]
    BY <1>7, <2>1, <2>2, SameRequests, SameOkays DEF OpenOk, Granted
  <2>4. Settled(l)' /\ phase'[l] = "idle"
    BY <1>7, <2>1, <2>2, <2>3 DEF OpenOk, Granted, Settled
  <2> QED BY <2>1, <2>3, <2>4 DEF StreamInv
<1>8. CASE OpenRefused(l)
  <2>1. Still /\ acked' = acked /\ phase'[l] \in {"over"}
    BY <1>8 DEF OpenRefused, tables, caller
  <2> QED BY <2>1 DEF StreamInv
<1>9. CASE OpenTimeout(l)
  <2>1. Still /\ acked' = acked /\ phase'[l] \in {"over"}
    BY <1>9 DEF OpenTimeout, tables, caller
  <2> QED BY <2>1 DEF StreamInv
<1>10. CASE WriteAcked(l)
  <2>1. Still /\ toDevice' = toDevice /\ ack[l] = "okay"
    BY <1>10 DEF WriteAcked, tables, caller
  <2>2. Granted(l)
    BY <1>10 DEF WriteAcked, StreamInv, Asked
  <2>3. NoRequest(l)' /\ NoOkay(l)' /\ l \notin owes' /\ acked'[l] = got'[l]
    BY <1>10, <2>1, <2>2, SameRequests, SameOkays DEF WriteAcked, Granted
  <2>4. \/ Prepared(l)' /\ phase'[l] = "write_header"
        \/ Settled(l)' /\ phase'[l] = "idle"
    BY <1>10, <2>1, <2>2, <2>3 DEF WriteAcked, Granted, Prepared, Settled
  <2> QED BY <2>1, <2>3, <2>4 DEF StreamInv
<1>11. CASE WriteClosed(l)
  <2>1. Still /\ acked' = acked /\ phase'[l] \in {"failed"}
    BY <1>11 DEF WriteClosed, tables, caller
  <2> QED BY <2>1 DEF StreamInv
<1>12. CASE WriteTimeout(l)
  <2>1. Still /\ acked' = acked /\ phase'[l] \in {"failed"}
    BY <1>12 DEF WriteTimeout, tables, caller
  <2> QED BY <2>1 DEF StreamInv
<1>13. CASE CloseReturns(l)
  <2>1. Still /\ acked' = acked /\ phase'[l] \in {"over"}
    BY <1>13 DEF CloseReturns, tables, caller
  <2> QED BY <2>1 DEF StreamInv
<1>14. CASE Read(l)
  <2>1. /\ Still /\ toDevice' = toDevice /\ phase' = phase /\ requests' = requests
        /\ acked' = acked /\ ack' = ack
    BY <1>14 DEF Read, tables, caller
  <2> QED BY <2>1, SameRequests, SameOkays, Frame
<1>15. CASE ReadClosed(l)
  <2>1. /\ Still /\ toDevice' = toDevice /\ phase' = phase /\ requests' = requests
        /\ acked' = acked /\ ack' = ack
    BY <1>15 DEF ReadClosed, tables, caller
  <2> QED BY <2>1, SameRequests, SameOkays, Frame
<1> QED BY <1>1, <1>2, <1>3, <1>4, <1>5, <1>6, <1>7, <1>8, <1>9, <1>10, <1>11, <1>12, <1>13, <1>14, <1>15 DEF Caller

\* The reader hands a call only the answer to its own request.
LEMMA ReaderKeeps ==
  ASSUME TypeOK, NEW l \in Local, StreamInv(l), Reader
  PROVE  StreamInv(l)'
<1> USE DEF caller, tables, wires, device, history
<1>1. CASE ReadOkay
  <2>1. /\ toHost # <<>> /\ toHost' = Tail(toHost) /\ Head(toHost).command = "OKAY"
        /\ toDevice' = toDevice /\ phase' = phase /\ requests' = requests /\ acked' = acked
        /\ got' = got /\ owes' = owes /\ expect' = expect
    BY <1>1 DEF ReadOkay, Received
  <2>2. Head(toHost) \in Packet
    BY <2>1, HeadTail DEF TypeOK, WiresTypes
  <2>3. ack' = ack \/ ack' = [ack EXCEPT ![Head(toHost).local] = "okay"]
    BY <1>1 DEF ReadOkay, Wake
  <2>4. CASE Head(toHost).local # l
    <3>1. ack'[l] = ack[l]
      BY <2>2, <2>3, <2>4 DEF Packet, TypeOK, TablesTypes
    <3> QED BY <2>1, <3>1, HostReads, SameRequests, Frame
  <2>5. CASE Head(toHost).local = l
    <3>1. IsOkay(Head(toHost), l)
      BY <2>1, <2>5 DEF IsOkay
    <3>2. ~NoOkay(l) /\ (OneOkay(l) => NoOkay(l)' /\ OneOkay(l)')
      BY <2>1, <3>1, HostReads
    <3>3. Granted(l) => Granted(l)'
      BY <2>1, <3>2, SameRequests DEF Granted
    <3> QED BY <2>1, <3>2, <3>3 DEF StreamInv, Settled, Prepared, Asked
  <2> QED BY <2>4, <2>5
<1>2. CASE ReadWrte
  <2>1. /\ toHost # <<>> /\ toHost' = Tail(toHost) /\ ack' = ack
        /\ toDevice' = toDevice /\ phase' = phase /\ requests' = requests /\ acked' = acked
        /\ got' = got /\ owes' = owes /\ expect' = expect
    BY <1>2 DEF ReadWrte, Received
  <2> QED BY <2>1, HostReads, SameRequests, Frame
<1>3. CASE SendOkay
  <2>1. reader.pkt.local \in Local
    BY DEF TypeOK, ReaderTypes, Packet
  <2>2. Header("OKAY", reader.pkt.local, FALSE) \in Transfer
    BY <2>1, PacketTypes
  <2>3. PICK t \in Transfer : t.command = "OKAY" /\ toDevice' = Append(toDevice, t)
    BY <1>3, <2>2, Zenon DEF SendOkay, Transmit, Header
  <2>4. /\ phase' = phase /\ requests' = requests /\ acked' = acked /\ ack' = ack
        /\ got' = got /\ owes' = owes /\ expect' = expect /\ toHost' = toHost
    BY <1>3 DEF SendOkay, Transmit
  <2>5. ~IsRequest(t, l)
    BY <2>3 DEF IsRequest
  <2> QED BY <2>3, <2>4, <2>5, WritesToDevice, SameOkays, Frame
<1>4. CASE Deliver \/ ReaderEnds
  <2>1. /\ phase' = phase /\ requests' = requests /\ acked' = acked /\ ack' = ack
        /\ got' = got /\ owes' = owes /\ expect' = expect /\ toHost' = toHost
        /\ toDevice' = toDevice
    BY <1>4 DEF Deliver, ReaderEnds
  <2> QED BY <2>1, SameRequests, SameOkays, Frame
<1>5. CASE ReadClse
  <2>1. /\ toHost # <<>> /\ toHost' = Tail(toHost)
        /\ toDevice' = toDevice /\ phase' = phase /\ requests' = requests /\ acked' = acked
        /\ got' = got /\ owes' = owes /\ expect' = expect
    BY <1>5 DEF ReadClse, Received
  <2>2. ack'[l] = ack[l] \/ ack'[l] = "closed"
    <3>1. Head(toHost) \in Packet
      BY <2>1, HeadTail DEF TypeOK, WiresTypes
    <3>2. ack' = ack \/ ack' = [ack EXCEPT ![Head(toHost).local] = "closed"]
      BY <1>5 DEF ReadClse, Wake
    <3> QED BY <3>1, <3>2 DEF Packet, TypeOK, TablesTypes
  <2> QED BY <2>1, <2>2, HostReads, SameRequests, Frame
<1> QED
  BY <1>1, <1>2, <1>3, <1>4, <1>5 DEF Reader

\* adbd accepts a request at most once.
LEMMA Accepts ==
  ASSUME TypeOK, NEW l \in Local, StreamInv(l), ~NoRequest(l),
         phase' = phase, requests' = requests, acked' = acked, ack' = ack, toHost' = toHost,
         got' = [got EXCEPT ![l] = @ + 1], OneRequest(l) => NoRequest(l)'
  PROVE  StreamInv(l)'
<1>1. got \in [Local -> Nat] /\ acked \in [Local -> Nat]
  BY DEF TypeOK, DeviceTypes, HistoryTypes
<1>2. got'[l] = got[l] + 1 /\ acked[l] <= got'[l]
  BY <1>1 DEF StreamInv
<1>3. NoOkay(l) => OneOkay(l)
  BY DEF NoOkay, OneOkay
<1>4. Asked(l) => Granted(l)'
  BY <1>1, <1>2, <1>3, SameOkays DEF Asked, Granted
<1> QED
  BY <1>2, <1>4 DEF StreamInv, Settled, Prepared, Granted

\* What the device and the link do keeps the invariant of every stream.
LEMMA DeviceKeeps ==
  ASSUME TypeOK, NEW l \in Local, StreamInv(l), NEW m \in Local,
         AdbdReads \/ LinkFails \/ AdbdAnswers(m) \/ AdbdSends(m) \/ AdbdCloses(m)
  PROVE  StreamInv(l)'
<1> USE DEF caller, tables, wires, device, history
<1> DEFINE Host == phase' = phase /\ requests' = requests /\ acked' = acked /\ ack' = ack
<1>0. /\ got \in [Local -> Nat] /\ toDevice \in Seq(Transfer) /\ expect \in Transfer
      /\ ~IsRequest(NoHeader, l)
      /\ \A k \in Local : Reply("CLSE", k, 0) \in Packet /\ ~IsOkay(Reply("CLSE", k, 0), l)
  BY PacketTypes DEF TypeOK, DeviceTypes, WiresTypes, NoHeader, IsRequest, IsOkay, Reply
<1>1. CASE AdbdTakesHeader
  <2>1. toDevice # <<>> /\ toDevice' = Tail(toDevice) /\ Host /\ ~IsRequest(expect, l)
    BY <1>1 DEF AdbdTakesHeader, PayloadDue, IsRequest
  <2>2. Head(toDevice) \in Transfer /\ Head(toDevice).local \in Local
    <3>1. Head(toDevice) \in Transfer
      BY <1>0, <2>1, HeadTail
    <3> QED BY <3>1 DEF Transfer
  <2>3. expect' \in {expect, Head(toDevice)}
    BY <1>1 DEF AdbdTakesHeader
  <2>4. CASE got' = got
    <3>1. /\ owes' \subseteq owes
          /\ toHost' = toHost \/ toHost' = Append(toHost, Reply("CLSE", Head(toDevice).local, 0))
      <4>1. got # [got EXCEPT ![Head(toDevice).local] = @ + 1]
        BY <1>0, <2>2
      <4> QED BY <1>1, <2>4, <4>1 DEF AdbdTakesHeader, Accept, Post
    <3>2. (NoOkay(l) => NoOkay(l)') /\ (OneOkay(l) => OneOkay(l)')
      BY <1>0, <2>2, <3>1, DevicePosts, SameOkays
    <3> QED BY <2>1, <2>3, <2>4, <3>1, <3>2, DeviceReads, Frame
  <2>5. CASE got' # got
    <3>1. /\ Head(toDevice).part = "header" /\ Head(toDevice).command = "WRTE"
          /\ got' = [got EXCEPT ![Head(toDevice).local] = @ + 1]
          /\ owes' = owes \cup {Head(toDevice).local}
          /\ toHost' = toHost /\ expect' = expect
      BY <1>1, <2>5 DEF AdbdTakesHeader, Accept
    <3>2. CASE Head(toDevice).local = l
      <4>1. IsRequest(Head(toDevice), l)
        BY <3>1, <3>2 DEF IsRequest
      <4>2. ~NoRequest(l) /\ (OneRequest(l) => NoRequest(l)')
        BY <2>1, <3>1, <4>1, DeviceReads
      <4> QED BY <2>1, <3>1, <3>2, <4>2, Accepts
    <3>3. CASE Head(toDevice).local # l
      <4>1. got'[l] = got[l] /\ (l \in owes' => l \in owes)
        BY <1>0, <2>2, <3>1, <3>3
      <4> QED BY <2>1, <3>1, <4>1, DeviceReads, SameOkays, Frame
    <3> QED BY <3>2, <3>3
  <2> QED BY <2>4, <2>5
<1>2. CASE AdbdTakesPayload
  <2>1. /\ toDevice # <<>> /\ toDevice' = Tail(toDevice) /\ Host /\ expect.part = "header"
        /\ expect' = NoHeader
    BY <1>2 DEF AdbdTakesPayload, PayloadDue
  <2>2. expect.local \in Local
    BY <1>0 DEF Transfer
  <2>3. CASE got' = got
    <3>1. /\ owes' \subseteq owes
          /\ toHost' = toHost \/ toHost' = Append(toHost, Reply("CLSE", expect.local, 0))
      <4>1. got # [got EXCEPT ![expect.local] = @ + 1]
        BY <1>0, <2>2
      <4> QED BY <1>2, <2>3, <4>1 DEF AdbdTakesPayload, Accept, Post
    <3>2. (NoOkay(l) => NoOkay(l)') /\ (OneOkay(l) => OneOkay(l)')
      BY <1>0, <2>2, <3>1, DevicePosts, SameOkays
    <3> QED BY <1>0, <2>1, <2>3, <3>1, <3>2, DeviceReads, Frame
  <2>4. CASE got' # got
    <3>1. /\ expect.command \in {"OPEN", "WRTE"} /\ toHost' = toHost
          /\ got' = [got EXCEPT ![expect.local] = @ + 1]
          /\ owes' = owes \cup {expect.local}
      BY <1>2, <2>4 DEF AdbdTakesPayload, Accept
    <3>2. CASE expect.local = l
      <4>1. IsRequest(expect, l)
        BY <2>1, <3>1, <3>2 DEF IsRequest
      <4>2. ~NoRequest(l) /\ (OneRequest(l) => NoRequest(l)')
        BY <1>0, <2>1, <4>1, DeviceReads
      <4> QED BY <2>1, <3>1, <3>2, <4>2, Accepts
    <3>3. CASE expect.local # l
      <4>1. got'[l] = got[l] /\ (l \in owes' => l \in owes)
        BY <1>0, <2>2, <3>1, <3>3
      <4> QED BY <1>0, <2>1, <3>1, <4>1, DeviceReads, SameOkays, Frame
    <3> QED BY <3>2, <3>3
  <2> QED BY <2>3, <2>4
<1>3. CASE AdbdRejects \/ LinkFails
  <2>1. /\ toDevice' = <<>> /\ expect' = NoHeader /\ owes' = {} /\ toHost' = toHost /\ got' = got
        /\ Host
    BY <1>3 DEF AdbdRejects, LinkFails, Disconnect
  <2>2. NoRequest(l)' /\ OneRequest(l)'
    BY <1>0, <2>1 DEF NoRequest, OneRequest
  <2> QED BY <2>1, <2>2, SameOkays, Frame
<1>4. CASE AdbdAnswers(m)
  <2>1. /\ m \in owes /\ owes' = owes \ {m} /\ toHost' = Append(toHost, Reply("OKAY", m, 0)) /\ Host
        /\ toDevice' = toDevice /\ expect' = expect /\ got' = got
    BY <1>4 DEF AdbdAnswers, Post
  <2>2. Reply("OKAY", m, 0) \in Packet
    BY PacketTypes
  <2>3. CASE m = l
    <3>1. Granted(l) => Granted(l)'
      BY <2>1, <2>2, <2>3, DevicePosts, SameRequests DEF Granted
    <3> QED BY <2>1, <2>3, <3>1 DEF StreamInv, Settled, Prepared, Asked
  <2>4. CASE m # l
    <3>1. ~IsOkay(Reply("OKAY", m, 0), l)
      BY <2>4 DEF IsOkay, Reply
    <3> QED BY <2>1, <2>2, <3>1, DevicePosts, SameRequests, Frame
  <2> QED BY <2>3, <2>4
<1>5. CASE AdbdSends(m) \/ AdbdCloses(m)
  <2>1. PICK p \in Packet : p.command # "OKAY" /\ toHost' = Append(toHost, p)
    <3>1. CASE AdbdSends(m)
      <4>1. sent[m] + 1 \in Nat
        BY DEF TypeOK, DeviceTypes
      <4>2. Reply("WRTE", m, sent[m] + 1) \in Packet
        BY <4>1, PacketTypes
      <4> QED BY <3>1, <4>2, Zenon DEF AdbdSends, Post, Reply
    <3>2. CASE AdbdCloses(m)
      BY <1>0, <3>2, Zenon DEF AdbdCloses, Post, Reply
    <3> QED BY <1>5, <3>1, <3>2
  <2>2. Host /\ toDevice' = toDevice /\ expect' = expect /\ got' = got /\ owes' \subseteq owes
    BY <1>5 DEF AdbdSends, AdbdCloses
  <2>3. ~IsOkay(p, l)
    BY <2>1 DEF IsOkay
  <2> QED BY <2>1, <2>2, <2>3, DevicePosts, SameRequests, Frame
<1> QED
  BY <1>1, <1>2, <1>3, <1>4, <1>5 DEF AdbdReads

\* The invariant holds at first and every step keeps it.
THEOREM AnswersMatch == Spec => [](TypeOK /\ AnswerInv)
<1>1. Init => AnswerInv
  BY DEF Init, AnswerInv, StreamInv, Settled, NoRequest, NoOkay, NoHeader, IsRequest
<1>2. TypeOK /\ AnswerInv /\ [Next]_vars => AnswerInv'
  <2> SUFFICES ASSUME TypeOK, AnswerInv, [Next]_vars, NEW l \in Local PROVE StreamInv(l)'
    BY DEF AnswerInv
  <2>1. StreamInv(l)
    BY DEF AnswerInv
  <2>2. CASE \E m \in Local : Caller(m)
    BY <2>1, <2>2, CallerOthers, CallerOwn
  <2>3. CASE Reader
    BY <2>1, <2>3, ReaderKeeps
  <2>4. CASE AdbdReads \/ LinkFails
    BY <2>1, <2>4, DeviceKeeps
  <2>5. CASE \E m \in Local : AdbdAnswers(m) \/ AdbdSends(m) \/ AdbdCloses(m)
    BY <2>1, <2>5, DeviceKeeps
  <2>6. CASE UNCHANGED vars
    BY <2>1, <2>6, SameRequests, SameOkays, Frame DEF vars, caller, tables, wires, device, history
  <2> QED
    BY <2>2, <2>3, <2>4, <2>5, <2>6 DEF Next
<1> QED
  BY TypeCorrect, <1>1, <1>2, PTL DEF Spec

\* A request that returned Ok to its owner was accepted by adbd: however late answers come and
\* whatever calls timed out before, no call takes the answer to another request for its own.
THEOREM OkIsAccepted == Spec => []OkMeansAccepted
<1>1. AnswerInv => OkMeansAccepted
  BY DEF AnswerInv, StreamInv, OkMeansAccepted
<1> QED
  BY AnswersMatch, <1>1, PTL

\* When the owner of a stream is between two calls and none failed, host and adbd agree on
\* every request of the stream: none is under way, none was accepted twice, none is missing.
THEOREM IdleIsSettled == Spec => []IdleMeansSettled
<1>1. AnswerInv => IdleMeansSettled
  BY DEF AnswerInv, StreamInv, Settled, IdleMeansSettled
<1> QED
  BY AnswersMatch, <1>1, PTL

------------------------------------------------------------------------------
(***************************************************************************)
(* The invariants behind NoAnswerMissed, NoOrphanSocket and KeepsPromise.  *)
(* They speak of the link as two sets, the transfers adbd may still read   *)
(* and the packets the reader may still read, and of the payloads on their *)
(* way to the owner of a stream.                                           *)
(***************************************************************************)

Wire   == {toDevice[i] : i \in 1..Len(toDevice)}
Posted == {toHost[i] : i \in 1..Len(toHost)}

IsOpen(t, l)  == IsRequest(t, l) /\ t.command = "OPEN"
IsWrite(t, l) == IsRequest(t, l) /\ t.command = "WRTE"
IsClose(t, l) == t.part = "header" /\ t.command = "CLSE" /\ t.local = l
IsClse(p, l)  == p.command = "CLSE" /\ p.local = l
IsWrte(p, l)  == p.command = "WRTE" /\ p.local = l

HasOpen(l)    == \E t \in Wire \cup {expect} : IsOpen(t, l)
HasWrite(l)   == \E t \in Wire \cup {expect} : IsWrite(t, l)
HasRequest(l) == HasOpen(l) \/ HasWrite(l)
HasClose(l)   == \E t \in Wire : IsClose(t, l)
HasOkay(l)    == \E p \in Posted : IsOkay(p, l)
HasClse(l)    == \E p \in Posted : IsClse(p, l)

Before(A, B) == \A a \in A, b \in B : a < b

Queued(l)   == {rx[l][i] : i \in 1..Len(rx[l])}
Held(l)     == IF reader.at \in {"reply", "deliver"} /\ reader.pkt.local = l THEN {reader.pkt.n} ELSE {}
Payloads(l) == {p.n : p \in {q \in Posted : IsWrte(q, l)}}
OnTheWay(l) == Queued(l) \cup Held(l) \cup Payloads(l)

\* The payloads of a stream are posted in order, and none after its CLSE.
Ordered(l) ==
  \A i, j \in 1..Len(toHost) :
    i < j /\ IsWrte(toHost[j], l) =>
      /\ IsWrte(toHost[i], l) => toHost[i].n < toHost[j].n
      /\ ~IsClse(toHost[i], l)

Rising(s) == \A i, j \in 1..Len(s) : i < j => s[i] < s[j]

\* Where the owner is after its open returned Ok, and while the host has the stream in its map.
Established == {"idle", "write_header", "write_payload", "write_wait", "failed", "close_header", "close_wait"}
Mapped  == {"open_header", "open_payload", "open_wait",
            "idle", "write_header", "write_payload", "write_wait", "failed"}
Unasked == {"none", "open_header"}
Asking  == {"open_payload", "open_wait", "write_payload", "write_wait"}

\* A request in the link is one adbd has not counted, and the OPEN is the first of them.
RequestInv(l) ==
  /\ OneRequest(l) /\ got[l] <= requests[l]
  /\ HasRequest(l) => got[l] < requests[l]
  /\ HasOpen(l) => socket[l] = "none"
  /\ HasWrite(l) => got[l] > 0
  /\ got[l] > 0 => socket[l] # "none"
  /\ phase[l] \in Unasked => socket[l] = "none" /\ ~HasRequest(l)
  /\ socket[l] = "none" => sent[l] = 0
  /\ phase[l] \in Established => acked[l] > 0 /\ got[l] > 0
  /\ phase[l] \in Mapped => l \in streams
  /\ phase[l] \in {"close_header", "close_wait"} => l \notin streams

\* adbd has no socket for the stream and will not have one.
Shut(l) == socket[l] # "open" /\ ~HasOpen(l) /\ phase[l] \notin Unasked

\* A CLSE of the host is a whole packet.
WholeClose(l) == \A t \in Wire : IsClose(t, l) => ~t.more

\* Whatever tells the host of a CLSE comes after the end of the socket; and a stream the owner
\* has closed leaves no socket behind unless its CLSE is on its way or it gave up opening.
EndInv(l) ==
  /\ HasClse(l) => Shut(l)
  /\ ack[l] = "closed" => Shut(l)
  /\ l \in eof => Shut(l)
  /\ l \in streams /\ l \notin tx => Shut(l)
  /\ phase[l] \in {"close_wait", "over"} /\ link = "up" /\ l \notin gaveUp =>
       ~HasOpen(l) /\ (socket[l] # "open" \/ HasClose(l))
  /\ WholeClose(l)

\* A call that waits has its waiter in the map, and its request or an answer under way.
WaitInv(l) ==
  /\ phase[l] \in Asking \cup {"open_header", "write_header"} /\ ack[l] = "none" => l \in waiters
  /\ phase[l] \in Asking /\ ack[l] = "none" /\ link = "up" =>
       HasRequest(l) \/ l \in owes \/ HasOkay(l) \/ HasClse(l) \/ socket[l] = "closed"

\* As long as the host has the stream, the payloads between adbd and its owner are those the
\* owner has not read and the channel has not lost, in order; what a dying reader held is
\* later than all that can still be read.
DataInv(l) ==
  /\ Rising(rx[l]) /\ Ordered(l)
  /\ Before(Queued(l), Held(l)) /\ Before(Queued(l), Payloads(l)) /\ Before(Held(l), Payloads(l))
  /\ OnTheWay(l) \subseteq Promise!Unread(l)
  /\ taken[l] \cup lost[l] \subseteq 1..sent[l]
  /\ l \in streams =>
       \A n \in Promise!Unread(l) :
         n \in OnTheWay(l) \/ (reader.at = "dead" /\ \A q \in Queued(l) : q < n)
  /\ l \in streams /\ l \notin tx =>
       Held(l) = {} /\ Payloads(l) = {} /\ Promise!Unread(l) \subseteq Queued(l)
  /\ l \in eof => rx[l] = <<>> /\ l \notin tx

LinkOf(l) == RequestInv(l) /\ EndInv(l) /\ WaitInv(l) /\ DataInv(l)

LinkInv == \A l \in Local : LinkOf(l)

\* What a sequence holds, with one element more.
LEMMA AppendHolds ==
  ASSUME NEW S, NEW s \in Seq(S), NEW e \in S
  PROVE  {Append(s, e)[i] : i \in 1..Len(Append(s, e))} = {s[i] : i \in 1..Len(s)} \cup {e}
<1>1. /\ Len(s) \in Nat /\ Len(Append(s, e)) = Len(s) + 1
      /\ Append(s, e)[Len(s) + 1] = e
      /\ \A i \in 1..Len(s) : Append(s, e)[i] = s[i]
  BY Appended
<1>2. \A i : i \in 1..Len(Append(s, e)) <=> i \in 1..Len(s) \/ i = Len(s) + 1
  BY <1>1
<1> QED BY <1>1, <1>2

\* What it holds is its head and what its tail holds.
LEMMA TailHolds ==
  ASSUME NEW S, NEW s \in Seq(S), s # <<>>
  PROVE  {s[i] : i \in 1..Len(s)} = {Head(s)} \cup {Tail(s)[i] : i \in 1..Len(Tail(s))}
<1>1. /\ Len(s) \in Nat \ {0} /\ Len(Tail(s)) = Len(s) - 1 /\ Head(s) = s[1]
      /\ \A i \in 1..Len(Tail(s)) : Tail(s)[i] = s[i + 1]
  BY HeadTail
<1>2. \A i \in 1..Len(s) : i = 1 \/ (i - 1 \in 1..Len(Tail(s)) /\ i = (i - 1) + 1)
  BY <1>1
<1>3. 1 \in 1..Len(s) /\ \A i \in 1..Len(Tail(s)) : i + 1 \in 1..Len(s)
  BY <1>1
<1>4. ASSUME NEW i \in 1..Len(s), s[i] # Head(s)
      PROVE  \E j \in 1..Len(Tail(s)) : Tail(s)[j] = s[i]
  <2>1. i - 1 \in 1..Len(Tail(s)) /\ i = (i - 1) + 1
    BY <1>1, <1>2, <1>4
  <2> QED BY <1>1, <2>1
<1>5. ASSUME NEW j \in 1..Len(Tail(s)) PROVE \E i \in 1..Len(s) : s[i] = Tail(s)[j]
  BY <1>1, <1>3
<1>6. \E i \in 1..Len(s) : s[i] = Head(s)
  BY <1>1, <1>3
<1>7. ASSUME NEW x PROVE (\E i \in 1..Len(s) : s[i] = x) <=>
                         (x = Head(s) \/ \E j \in 1..Len(Tail(s)) : Tail(s)[j] = x)
  BY <1>4, <1>5, <1>6
<1> QED BY <1>7, Zenon

\* What is in the link when the host writes a transfer or adbd takes one, and when adbd posts
\* a packet or the reader takes one.
LEMMA WireAppended ==
  ASSUME TypeOK, NEW t \in Transfer, toDevice' = Append(toDevice, t)
  PROVE  Wire' = Wire \cup {t}
  BY AppendHolds DEF TypeOK, WiresTypes, Wire

LEMMA WireTaken ==
  ASSUME TypeOK, toDevice # <<>>, toDevice' = Tail(toDevice)
  PROVE  Wire = {Head(toDevice)} \cup Wire'
<1>1. toDevice \in Seq(Transfer)
  BY DEF TypeOK, WiresTypes
<1>2. {toDevice[i] : i \in 1..Len(toDevice)} =
        {Head(toDevice)} \cup {Tail(toDevice)[i] : i \in 1..Len(Tail(toDevice))}
  BY <1>1, TailHolds, Zenon
<1> QED BY <1>2 DEF Wire

LEMMA PostedAppended ==
  ASSUME TypeOK, NEW p \in Packet, toHost' = Append(toHost, p)
  PROVE  Posted' = Posted \cup {p}
  BY AppendHolds DEF TypeOK, WiresTypes, Posted

LEMMA PostedTaken ==
  ASSUME TypeOK, toHost # <<>>, toHost' = Tail(toHost)
  PROVE  Posted = {Head(toHost)} \cup Posted'
<1>1. toHost \in Seq(Packet)
  BY DEF TypeOK, WiresTypes
<1>2. {toHost[i] : i \in 1..Len(toHost)} =
        {Head(toHost)} \cup {Tail(toHost)[i] : i \in 1..Len(Tail(toHost))}
  BY <1>1, TailHolds, Zenon
<1> QED BY <1>2 DEF Posted

\* The order of a stream's payloads when one more packet is posted,
LEMMA OrderedAppended ==
  ASSUME TypeOK, NEW p \in Packet, NEW l \in Local, toHost' = Append(toHost, p), Ordered(l),
         IsWrte(p, l) => ~HasClse(l) /\ \A n \in Payloads(l) : n < p.n
  PROVE  Ordered(l)'
<1>1. /\ Len(toHost) \in Nat /\ Len(toHost') = Len(toHost) + 1
      /\ toHost'[Len(toHost) + 1] = p
      /\ \A i \in 1..Len(toHost) : toHost'[i] = toHost[i]
  BY Appended DEF TypeOK, WiresTypes
<1>2. IsWrte(p, l) => \A i \in 1..Len(toHost) :
        (IsWrte(toHost[i], l) => toHost[i].n < p.n) /\ ~IsClse(toHost[i], l)
  BY DEF HasClse, Payloads, Posted
<1> SUFFICES ASSUME NEW i \in 1..Len(toHost'), NEW j \in 1..Len(toHost'),
                    i < j, IsWrte(toHost'[j], l)
             PROVE  /\ IsWrte(toHost'[i], l) => toHost'[i].n < toHost'[j].n
                    /\ ~IsClse(toHost'[i], l)
  BY DEF Ordered, IsWrte, IsClse
<1>3. i \in 1..Len(toHost) /\ (j \in 1..Len(toHost) \/ j = Len(toHost) + 1)
  BY <1>1
<1> QED BY <1>1, <1>2, <1>3 DEF Ordered

\* and when the reader takes the first packet.
LEMMA OrderedTaken ==
  ASSUME TypeOK, NEW l \in Local, toHost # <<>>, toHost' = Tail(toHost), Ordered(l)
  PROVE  /\ Ordered(l)'
         /\ IsWrte(Head(toHost), l) => \A p \in Posted' : IsWrte(p, l) => Head(toHost).n < p.n
         /\ IsClse(Head(toHost), l) => \A p \in Posted' : ~IsWrte(p, l)
<1>1. /\ Len(toHost) \in Nat \ {0} /\ Len(toHost') = Len(toHost) - 1 /\ Head(toHost) = toHost[1]
      /\ \A i \in 1..Len(toHost') : toHost'[i] = toHost[i + 1]
  BY HeadTail DEF TypeOK, WiresTypes
<1>2. /\ 1 \in 1..Len(toHost)
      /\ \A i \in 1..Len(toHost') : i + 1 \in 1..Len(toHost) /\ 1 < i + 1
      /\ \A i, j \in 1..Len(toHost') : i < j => i + 1 < j + 1
  BY <1>1
<1>3. Ordered(l)'
  <2> SUFFICES ASSUME NEW i \in 1..Len(toHost'), NEW j \in 1..Len(toHost'),
                      i < j, IsWrte(toHost'[j], l)
               PROVE  /\ IsWrte(toHost'[i], l) => toHost'[i].n < toHost'[j].n
                      /\ ~IsClse(toHost'[i], l)
    BY DEF Ordered, IsWrte, IsClse
  <2> QED BY <1>1, <1>2 DEF Ordered
<1>4. \A p \in Posted' : \E j \in 1..Len(toHost) : 1 < j /\ p = toHost[j]
  BY <1>1, <1>2 DEF Posted
<1>5. ASSUME IsWrte(Head(toHost), l), NEW p \in Posted', IsWrte(p, l) PROVE Head(toHost).n < p.n
  BY <1>1, <1>2, <1>4, <1>5 DEF Ordered
<1>6. ASSUME IsClse(Head(toHost), l), NEW p \in Posted' PROVE ~IsWrte(p, l)
  BY <1>1, <1>2, <1>4, <1>6 DEF Ordered
<1> QED BY <1>3, <1>5, <1>6

\* A request is under way or none is: the two ways of saying so.
LEMMA RequestUnderWay ==
  ASSUME NEW l, expect \in Transfer
  PROVE  NoRequest(l) <=> ~HasRequest(l)
<1>1. \A t : IsRequest(t, l) <=> IsOpen(t, l) \/ IsWrite(t, l)
  BY DEF IsRequest, IsOpen, IsWrite
<1> QED BY <1>1 DEF NoRequest, HasRequest, HasOpen, HasWrite, Wire

\* What a step may leave as it is for a stream: what its owner knows, adbd's end, what adbd may
\* still read of it, what the reader may still read of it, and its payloads on the host.
SameCall(l) ==
  /\ phase'[l] = phase[l] /\ requests'[l] = requests[l] /\ acked'[l] = acked[l] /\ ack'[l] = ack[l]
  /\ l \in streams' <=> l \in streams
  /\ l \in tx' <=> l \in tx
  /\ l \in waiters' <=> l \in waiters
  /\ l \in gaveUp' <=> l \in gaveUp
  /\ l \in eof' <=> l \in eof
SameSocket(l) ==
  /\ got'[l] = got[l] /\ socket'[l] = socket[l] /\ sent'[l] = sent[l] /\ link' = link
  /\ l \in owes' <=> l \in owes
SameWire(l) ==
  /\ HasOpen(l)' <=> HasOpen(l)
  /\ HasWrite(l)' <=> HasWrite(l)
  /\ HasClose(l)' <=> HasClose(l)
  /\ OneRequest(l) => OneRequest(l)'
  /\ WholeClose(l) => WholeClose(l)'
SameHost(l) ==
  /\ HasOkay(l)' <=> HasOkay(l)
  /\ HasClse(l)' <=> HasClse(l)
  /\ Payloads(l)' = Payloads(l)
  /\ Ordered(l) => Ordered(l)'
SameData(l) ==
  /\ rx'[l] = rx[l] /\ taken'[l] = taken[l] /\ lost'[l] = lost[l]
  /\ Held(l)' = Held(l) /\ (reader.at = "dead" <=> reader'.at = "dead")

\* Each part is kept by a step that changes nothing it speaks of, or only for the better.
LEMMA RequestFrame ==
  ASSUME NEW l, RequestInv(l), phase'[l] = phase[l], requests'[l] = requests[l],
         acked'[l] = acked[l], got'[l] = got[l], l \in streams' <=> l \in streams,
         HasOpen(l)' => HasOpen(l), HasWrite(l)' => HasWrite(l), OneRequest(l)',
         socket'[l] = socket[l] \/ (socket[l] # "none" /\ socket'[l] # "none"),
         sent'[l] = sent[l] \/ socket'[l] # "none"
  PROVE  RequestInv(l)'
  BY DEF RequestInv, HasRequest

LEMMA EndFrame ==
  ASSUME NEW l, EndInv(l), phase'[l] = phase[l], ack'[l] = ack[l],
         l \in streams' <=> l \in streams, l \in tx' <=> l \in tx, l \in eof' <=> l \in eof,
         l \in gaveUp' <=> l \in gaveUp, HasOpen(l)' => HasOpen(l),
         HasClse(l)' => HasClse(l) \/ Shut(l)', socket'[l] = "open" => socket[l] = "open",
         link' = "up" => link = "up", HasClose(l) => HasClose(l)' \/ socket'[l] # "open",
         WholeClose(l) => WholeClose(l)'
  PROVE  EndInv(l)'
<1>1. Shut(l) => Shut(l)'
  BY DEF Shut
<1> QED BY <1>1 DEF EndInv, WholeClose

LEMMA WaitFrame ==
  ASSUME NEW l, WaitInv(l), phase'[l] = phase[l], ack'[l] = ack[l],
         l \in waiters => l \in waiters', link' = "up" => link = "up",
         HasRequest(l) \/ l \in owes \/ HasOkay(l) \/ HasClse(l) \/ socket[l] = "closed" =>
         HasRequest(l)' \/ l \in owes' \/ HasOkay(l)' \/ HasClse(l)' \/ socket'[l] = "closed"
  PROVE  WaitInv(l)'
  BY DEF WaitInv

LEMMA DataFrame ==
  ASSUME NEW l, DataInv(l), SameData(l), Ordered(l)', Payloads(l)' = Payloads(l),
         sent'[l] = sent[l], l \in streams' => l \in streams, l \in tx => l \in tx' \/ l \notin streams',
         l \in eof' => l \in eof, l \in tx' => l \in tx
  PROVE  DataInv(l)'
<1>1. /\ Queued(l)' = Queued(l) /\ OnTheWay(l)' = OnTheWay(l)
      /\ Promise!Unread(l)' = Promise!Unread(l) /\ Rising(rx[l])' = Rising(rx[l])
  BY DEF SameData, Queued, OnTheWay, Promise!Unread, Rising
<1> QED BY <1>1, Zenon DEF DataInv, SameData, Before

\* A step that is not about a stream keeps all four.
LEMMA Aside ==
  ASSUME NEW l, LinkOf(l), SameCall(l), SameSocket(l), SameWire(l), SameHost(l), SameData(l)
  PROVE  LinkOf(l)'
<1>1. RequestInv(l)'
  BY RequestFrame DEF LinkOf, RequestInv, SameCall, SameSocket, SameWire
<1>2. EndInv(l)'
  BY EndFrame DEF LinkOf, SameCall, SameSocket, SameWire, SameHost
<1>3. WaitInv(l)'
  BY WaitFrame DEF LinkOf, SameCall, SameSocket, SameWire, SameHost, HasRequest
<1>4. DataInv(l)'
  BY DataFrame DEF LinkOf, SameCall, SameSocket, SameHost, DataInv
<1> QED BY <1>1, <1>2, <1>3, <1>4 DEF LinkOf

\* What adbd may still read of a stream when the transfers in the link stay,
LEMMA WireStays ==
  ASSUME NEW l, toDevice' = toDevice, expect' = expect
  PROVE  SameWire(l)
<1>1. Wire' = Wire /\ (OneRequest(l)' <=> OneRequest(l))
  BY SameRequests DEF Wire
<1> QED BY <1>1 DEF SameWire, HasOpen, HasWrite, HasClose, WholeClose

\* when the host writes one that is neither a request nor the CLSE of the stream,
LEMMA WireGains ==
  ASSUME TypeOK, NEW l \in Local, NEW t \in Transfer, toDevice' = Append(toDevice, t),
         expect' = expect, ~IsRequest(t, l), ~IsClose(t, l)
  PROVE  SameWire(l)
<1>1. Wire' = Wire \cup {t} BY WireAppended
<1>2. ~IsOpen(t, l) /\ ~IsWrite(t, l) BY DEF IsOpen, IsWrite
<1>3. OneRequest(l) => OneRequest(l)' BY WritesToDevice
<1> QED BY <1>1, <1>2, <1>3 DEF SameWire, HasOpen, HasWrite, HasClose, WholeClose

\* and when adbd takes one that was none, or a header that it keeps until its payload comes.
LEMMA WireLoses ==
  ASSUME TypeOK, NEW l \in Local, toDevice # <<>>, toDevice' = Tail(toDevice),
         ~IsClose(Head(toDevice), l),
         \A t : IsRequest(t, l) => (t \in {Head(toDevice), expect} <=> t = expect')
  PROVE  SameWire(l)
<1>1. Wire = {Head(toDevice)} \cup Wire' BY WireTaken
<1>2. \A t : IsRequest(t, l) => (t \in Wire \cup {expect} <=> t \in Wire' \cup {expect'})
  BY <1>1
<1>3. (HasOpen(l)' <=> HasOpen(l)) /\ (HasWrite(l)' <=> HasWrite(l))
  BY <1>2 DEF HasOpen, HasWrite, IsOpen, IsWrite
<1>4. expect' = expect \/ expect' = Head(toDevice) \/ ~IsRequest(expect', l)
  OBVIOUS
<1>5. OneRequest(l) => OneRequest(l)' BY <1>4, DeviceReads
<1> QED BY <1>1, <1>3, <1>5 DEF SameWire, HasClose, WholeClose

\* What the reader may still read of a stream when the packets on the host's side stay,
LEMMA HostStays ==
  ASSUME NEW l, toHost' = toHost
  PROVE  SameHost(l)
<1>1. Posted' = Posted /\ (Ordered(l)' <=> Ordered(l))
  BY DEF Posted, Ordered
<1> QED BY <1>1 DEF SameHost, HasOkay, HasClse, Payloads

\* and when adbd posts, or the reader takes, a packet of another stream.
LEMMA HostGains ==
  ASSUME TypeOK, NEW l \in Local, NEW p \in Packet, toHost' = Append(toHost, p), p.local # l
  PROVE  SameHost(l)
<1>1. Posted' = Posted \cup {p} BY PostedAppended
<1>2. ~IsOkay(p, l) /\ ~IsClse(p, l) /\ ~IsWrte(p, l) BY DEF IsOkay, IsClse, IsWrte
<1>3. Ordered(l) => Ordered(l)' BY <1>2, OrderedAppended
<1> QED BY <1>1, <1>2, <1>3 DEF SameHost, HasOkay, HasClse, Payloads

LEMMA HostLoses ==
  ASSUME TypeOK, NEW l \in Local, toHost # <<>>, toHost' = Tail(toHost), Head(toHost).local # l
  PROVE  SameHost(l)
<1>1. Posted = {Head(toHost)} \cup Posted' BY PostedTaken
<1>2. \A p : p = Head(toHost) => ~IsOkay(p, l) /\ ~IsClse(p, l) /\ ~IsWrte(p, l)
  BY DEF IsOkay, IsClse, IsWrte
<1>3. Ordered(l) => Ordered(l)' BY OrderedTaken
<1> QED BY <1>1, <1>2, <1>3 DEF SameHost, HasOkay, HasClse, Payloads

\* What no call touches: adbd's end of the streams, and what the reader holds and may read.
LEMMA CallerSteps ==
  ASSUME NEW m \in Local, Caller(m)
  PROVE  /\ device' = device /\ toHost' = toHost /\ link' = link /\ reader' = reader /\ lost' = lost
<1>1. CASE OpenStream(m)
  BY <1>1 DEF OpenStream, wires, device, history
<1>2. CASE Write(m)
  BY <1>2 DEF Write, wires, device, history
<1>3. CASE CloseStream(m)
  BY <1>3 DEF CloseStream, wires, device, history
<1>4. CASE SendHeader(m)
  BY <1>4 DEF SendHeader, wires, device, history, Transmit
<1>5. CASE SendPayload(m)
  BY <1>5 DEF SendPayload, wires, device, history, Transmit
<1>6. CASE SendFails(m)
  BY <1>6 DEF SendFails, wires, device, history
<1>7. CASE OpenOk(m)
  BY <1>7 DEF OpenOk, wires, device, history
<1>8. CASE OpenRefused(m)
  BY <1>8 DEF OpenRefused, wires, device, history
<1>9. CASE OpenTimeout(m)
  BY <1>9 DEF OpenTimeout, wires, device, history
<1>10. CASE WriteAcked(m)
  BY <1>10 DEF WriteAcked, wires, device, history
<1>11. CASE WriteClosed(m)
  BY <1>11 DEF WriteClosed, wires, device, history
<1>12. CASE WriteTimeout(m)
  BY <1>12 DEF WriteTimeout, wires, device, history
<1>13. CASE CloseReturns(m)
  BY <1>13 DEF CloseReturns, wires, device, history
<1>14. CASE Read(m)
  BY <1>14 DEF Read, wires, device, history
<1>15. CASE ReadClosed(m)
  BY <1>15 DEF ReadClosed, wires, device, history
<1> QED BY <1>1, <1>2, <1>3, <1>4, <1>5, <1>6, <1>7, <1>8, <1>9, <1>10, <1>11, <1>12, <1>13, <1>14, <1>15 DEF Caller

\* A call changes what its own stream's tables and history say, and no other's.
LEMMA CallerTables ==
  ASSUME TypeOK, NEW m \in Local, NEW l \in Local, l # m, Caller(m)
  PROVE  SameCall(l) /\ rx'[l] = rx[l] /\ taken'[l] = taken[l]
<1> USE DEF tables, wires, device, history, At, Go, Return, DropSlot, NewWaiter, Issue
<1> /\ phase \in [Local -> Phase] /\ ack \in [Local -> {"none", "okay", "closed"}]
    /\ requests \in [Local -> Nat] /\ acked \in [Local -> Nat] /\ rx \in [Local -> Seq(Nat)]
    /\ taken \in [Local -> SUBSET Nat]
  BY DEF TypeOK, CallerTypes, TablesTypes, ReaderTypes, HistoryTypes
<1>1. CASE OpenStream(m)
  BY <1>1 DEF OpenStream, SameCall
<1>2. CASE Write(m)
  BY <1>2 DEF Write, SameCall
<1>3. CASE CloseStream(m)
  BY <1>3 DEF CloseStream, SameCall
<1>4. CASE SendHeader(m)
  BY <1>4 DEF SendHeader, SameCall, Transmit
<1>5. CASE SendPayload(m)
  BY <1>5 DEF SendPayload, SameCall, Transmit
<1>6. CASE SendFails(m)
  BY <1>6 DEF SendFails, SameCall
<1>7. CASE OpenOk(m)
  BY <1>7 DEF OpenOk, SameCall
<1>8. CASE OpenRefused(m)
  BY <1>8 DEF OpenRefused, SameCall
<1>9. CASE OpenTimeout(m)
  BY <1>9 DEF OpenTimeout, SameCall
<1>10. CASE WriteAcked(m)
  BY <1>10 DEF WriteAcked, SameCall
<1>11. CASE WriteClosed(m)
  BY <1>11 DEF WriteClosed, SameCall
<1>12. CASE WriteTimeout(m)
  BY <1>12 DEF WriteTimeout, SameCall
<1>13. CASE CloseReturns(m)
  BY <1>13 DEF CloseReturns, SameCall
<1>14. CASE Read(m)
  BY <1>14 DEF Read, SameCall, caller
<1>15. CASE ReadClosed(m)
  BY <1>15 DEF ReadClosed, SameCall, caller
<1> QED BY <1>1, <1>2, <1>3, <1>4, <1>5, <1>6, <1>7, <1>8, <1>9, <1>10, <1>11, <1>12, <1>13, <1>14, <1>15 DEF Caller

\* A call writes at most one transfer, of its own stream.
LEMMA CallerWires ==
  ASSUME NEW m \in Local, Caller(m)
  PROVE  \/ toDevice' = toDevice
         \/ \E t \in Transfer : t.local = m /\ toDevice' = Append(toDevice, t)
<1>1. CASE SendHeader(m)
  BY <1>1, PacketTypes, Zenon DEF SendHeader, Transmit, Header
<1>2. CASE SendPayload(m)
  BY <1>2, PacketTypes, Zenon DEF SendPayload, Transmit, Payload
<1>3. CASE ~SendHeader(m) /\ ~SendPayload(m)
  <2>1. OpenStream(m) => toDevice' = toDevice BY DEF OpenStream, wires
  <2>2. Write(m) => toDevice' = toDevice BY DEF Write, wires
  <2>3. CloseStream(m) => toDevice' = toDevice BY DEF CloseStream, wires
  <2>4. SendFails(m) => toDevice' = toDevice BY DEF SendFails, wires
  <2>5. OpenOk(m) => toDevice' = toDevice BY DEF OpenOk, wires
  <2>6. OpenRefused(m) => toDevice' = toDevice BY DEF OpenRefused, wires
  <2>7. OpenTimeout(m) => toDevice' = toDevice BY DEF OpenTimeout, wires
  <2>8. WriteAcked(m) => toDevice' = toDevice BY DEF WriteAcked, wires
  <2>9. WriteClosed(m) => toDevice' = toDevice BY DEF WriteClosed, wires
  <2>10. WriteTimeout(m) => toDevice' = toDevice BY DEF WriteTimeout, wires
  <2>11. CloseReturns(m) => toDevice' = toDevice BY DEF CloseReturns, wires
  <2>12. Read(m) => toDevice' = toDevice BY DEF Read, wires
  <2>13. ReadClosed(m) => toDevice' = toDevice BY DEF ReadClosed, wires
  <2> QED BY <1>3, <2>1, <2>2, <2>3, <2>4, <2>5, <2>6, <2>7, <2>8, <2>9, <2>10, <2>11, <2>12, <2>13 DEF Caller
<1> QED BY <1>1, <1>2, <1>3

LEMMA CallerAside ==
  ASSUME TypeOK, NEW m \in Local, NEW l \in Local, l # m, LinkOf(l), Caller(m)
  PROVE  LinkOf(l)'
<1>1. SameHost(l) /\ SameSocket(l) /\ expect' = expect
  BY CallerSteps, HostStays DEF device, SameSocket
<1>2. SameCall(l) /\ SameData(l)
  BY CallerSteps, CallerTables DEF SameData, Held
<1>3. SameWire(l)
  <2>1. CASE toDevice' = toDevice
    BY <1>1, <2>1, WireStays
  <2>2. CASE toDevice' # toDevice
    <3>1. PICK t \in Transfer : t.local = m /\ toDevice' = Append(toDevice, t)
      BY <2>2, CallerWires
    <3>2. ~IsRequest(t, l) /\ ~IsClose(t, l)
      BY <3>1 DEF IsRequest, IsClose
    <3> QED BY <1>1, <3>1, <3>2, WireGains
  <2> QED BY <2>1, <2>2
<1> QED BY <1>1, <1>2, <1>3, Aside

\* A request of a stream that is being written is not in the link yet.
LEMMA PreparedIsAlone ==
  ASSUME TypeOK, NEW l \in Local, StreamInv(l), phase[l] \in {"open_header", "write_header"}
  PROVE  /\ ~HasRequest(l) /\ got[l] < requests[l]
         /\ \A t \in Transfer :
              toDevice' = Append(toDevice, t) /\ expect' = expect => OneRequest(l)'
<1>1. expect \in Transfer /\ got[l] \in Nat /\ acked[l] \in Nat
  BY DEF TypeOK, DeviceTypes, HistoryTypes
<1>2. NoRequest(l) /\ got[l] < requests[l]
  BY <1>1 DEF StreamInv, Prepared
<1> QED BY <1>1, <1>2, RequestUnderWay, WritesToDevice

\* A stream that drops out of the map keeps nothing of what its channel held.
LEMMA SlotDropped ==
  ASSUME TypeOK, NEW l \in Local, DataInv(l), SameHost(l), sent'[l] = sent[l],
         rx' = [rx EXCEPT ![l] = <<>>], tx' = tx \ {l}, reader' = reader,
         taken'[l] = taken[l], lost'[l] = lost[l], eof' = eof, l \notin streams'
  PROVE  DataInv(l)'
<1>1. rx'[l] = <<>> /\ l \notin tx'
  BY DEF TypeOK, ReaderTypes
<1>2. Queued(l)' = {} /\ Rising(rx[l])'
  BY <1>1 DEF Queued, Rising
<1>3. Held(l)' = Held(l) /\ Payloads(l)' = Payloads(l) /\ Promise!Unread(l)' = Promise!Unread(l)
  BY DEF Held, SameHost, Promise!Unread
<1>4. OnTheWay(l)' \subseteq OnTheWay(l)
  BY <1>2, <1>3 DEF OnTheWay
<1> QED BY <1>1, <1>2, <1>3, <1>4 DEF DataInv, SameHost, Before

\* The owner takes the first of the payloads it has not read.
LEMMA ReadKeepsData ==
  ASSUME TypeOK, NEW l \in Local, LinkOf(l), Read(l)
  PROVE  /\ DataInv(l)'
         /\ Head(rx[l]) \in Promise!Unread(l)
         /\ \A n \in Promise!Unread(l) : Head(rx[l]) <= n
<1> DEFINE h == Head(rx[l])
<1>1. /\ rx[l] \in Seq(Nat) /\ rx[l] # <<>> /\ rx'[l] = Tail(rx[l])
      /\ taken'[l] = taken[l] \cup {h} /\ lost' = lost /\ sent' = sent /\ reader' = reader
      /\ toHost' = toHost /\ streams' = streams /\ tx' = tx /\ eof' = eof /\ l \in streams
  BY DEF Read, TypeOK, ReaderTypes, HistoryTypes, tables, wires, device
<1>2. Queued(l) = {h} \cup Queued(l)'
  <2>1. {rx[l][i] : i \in 1..Len(rx[l])} =
          {h} \cup {Tail(rx[l])[i] : i \in 1..Len(Tail(rx[l]))}
    BY <1>1, TailHolds, Zenon
  <2> QED BY <1>1, <2>1 DEF Queued
<1>3. Rising(rx[l])' /\ \A n \in Queued(l)' : h < n
  <2>1. /\ Len(rx[l]) \in Nat \ {0} /\ Len(Tail(rx[l])) = Len(rx[l]) - 1 /\ h = rx[l][1]
        /\ \A i \in 1..Len(Tail(rx[l])) : Tail(rx[l])[i] = rx[l][i + 1]
    BY <1>1, HeadTail
  <2>2. /\ \A i \in 1..Len(Tail(rx[l])) : 1 \in 1..Len(rx[l]) /\ i + 1 \in 1..Len(rx[l]) /\ 1 < i + 1
        /\ \A i, j \in 1..Len(Tail(rx[l])) : i < j => i + 1 < j + 1
    BY <2>1
  <2>3. Rising(rx[l])
    BY DEF LinkOf, DataInv
  <2> QED BY <1>1, <2>1, <2>2, <2>3 DEF Rising, Queued
<1>4. Held(l)' = Held(l) /\ Payloads(l)' = Payloads(l) /\ Ordered(l)' /\ (HasClse(l)' <=> HasClse(l))
  BY <1>1, HostStays DEF Held, SameHost, LinkOf, DataInv
<1>5. h \in Queued(l) /\ Promise!Unread(l)' = Promise!Unread(l) \ {h} /\ Promise!Unread(l) \subseteq Nat
  BY <1>1, <1>2 DEF Promise!Unread, TypeOK, DeviceTypes
<1> HIDE DEF h
<1>6. h \in Promise!Unread(l)
  BY <1>5 DEF LinkOf, DataInv, OnTheWay
<1>7. \A n \in Held(l) \cup Payloads(l) : h < n
  BY <1>5 DEF LinkOf, DataInv, Before
<1>8. \A n \in OnTheWay(l)' : h < n
  BY <1>3, <1>4, <1>7 DEF OnTheWay
<1>9. h \in Nat BY <1>5, <1>6
<1>10. OnTheWay(l) = {h} \cup OnTheWay(l)' /\ h \notin OnTheWay(l)'
  BY <1>2, <1>4, <1>8, <1>9 DEF OnTheWay
<1>11. \A n \in Promise!Unread(l) : h <= n
  <2> SUFFICES ASSUME NEW n \in Promise!Unread(l) PROVE h <= n
    OBVIOUS
  <2>1. CASE n \in OnTheWay(l)
    BY <1>5, <1>8, <1>9, <1>10, <2>1
  <2>2. CASE n \notin OnTheWay(l)
    <3>1. h < n
      BY <1>1, <1>5, <2>2 DEF LinkOf, DataInv
    <3> QED BY <1>5, <1>9, <3>1
  <2> QED BY <2>1, <2>2
<1>12. /\ Before(Queued(l)', Held(l)') /\ Before(Queued(l)', Payloads(l)')
       /\ Before(Held(l)', Payloads(l)')
  BY <1>2, <1>4 DEF LinkOf, DataInv, Before
<1>13. OnTheWay(l)' \subseteq Promise!Unread(l)'
  BY <1>5, <1>10 DEF LinkOf, DataInv
<1>14. \A n \in Promise!Unread(l)' :
         n \in OnTheWay(l)' \/ (reader'.at = "dead" /\ \A q \in Queued(l)' : q < n)
  BY <1>1, <1>2, <1>5, <1>10 DEF LinkOf, DataInv
<1>15. taken'[l] \cup lost'[l] \subseteq 1..sent'[l]
  BY <1>1, <1>6 DEF LinkOf, DataInv, Promise!Unread
<1>16. l \notin tx => Held(l) = {} /\ Payloads(l) = {} /\ Promise!Unread(l)' \subseteq Queued(l)'
  BY <1>1, <1>2, <1>5 DEF LinkOf, DataInv
<1>17. l \notin eof
  BY <1>1 DEF LinkOf, DataInv
<1> QED
  BY <1>1, <1>3, <1>4, <1>6, <1>11, <1>12, <1>13, <1>14, <1>15, <1>16, <1>17 DEF DataInv, Before, h

\* A call takes its own stream from one stage to the next, and the four parts with it.
LEMMA CallerOnward ==
  ASSUME TypeOK, NEW l \in Local, StreamInv(l), LinkOf(l), Caller(l)
  PROVE  LinkOf(l)'
<1> USE DEF At, Go, Return, NewWaiter, Issue
<1>a. /\ phase \in [Local -> Phase] /\ ack \in [Local -> {"none", "okay", "closed"}]
      /\ requests \in [Local -> Nat] /\ acked \in [Local -> Nat] /\ expect \in Transfer
      /\ got[l] \in Nat /\ acked[l] \in Nat /\ requests[l] \in Nat
  BY DEF TypeOK, CallerTypes, TablesTypes, HistoryTypes, DeviceTypes
<1>b. /\ got' = got /\ socket' = socket /\ sent' = sent /\ owes' = owes /\ expect' = expect
      /\ link' = link /\ reader' = reader /\ lost' = lost
  BY CallerSteps DEF device
<1>c. /\ SameHost(l) /\ Ordered(l)' /\ Payloads(l)' = Payloads(l)
      /\ (HasOkay(l)' <=> HasOkay(l)) /\ (HasClse(l)' <=> HasClse(l))
  BY CallerSteps, HostStays DEF SameHost, LinkOf, DataInv
<1>d. RequestInv(l) /\ EndInv(l) /\ WaitInv(l) /\ DataInv(l) /\ OneRequest(l) /\ WholeClose(l)
  BY DEF LinkOf, RequestInv, EndInv, WholeClose
<1>e. ASSUME toDevice' = toDevice
      PROVE  /\ (HasOpen(l)' <=> HasOpen(l)) /\ (HasWrite(l)' <=> HasWrite(l))
             /\ (HasRequest(l)' <=> HasRequest(l)) /\ (HasClose(l)' <=> HasClose(l))
             /\ OneRequest(l)' /\ WholeClose(l)'
  BY <1>b, <1>d, <1>e, WireStays DEF SameWire, HasRequest
<1>f. ASSUME rx' = rx, taken' = taken, eof' = eof, l \in streams' => l \in streams, tx' = tx
      PROVE  DataInv(l)'
  <2>1. SameData(l) BY <1>b, <1>f DEF SameData, Held
  <2> QED BY <1>b, <1>c, <1>d, <1>f, <2>1, DataFrame
<1>1. CASE OpenStream(l)
  <2>1. /\ phase[l] = "none" /\ phase'[l] = "open_header" /\ requests'[l] = requests[l] + 1
        /\ acked' = acked /\ ack'[l] = "none" /\ l \in streams' /\ l \in tx' /\ l \in waiters'
        /\ gaveUp' = gaveUp /\ eof' = eof /\ toDevice' = toDevice /\ rx' = rx /\ taken' = taken
    BY <1>1, <1>a DEF OpenStream, caller, tables, wires, history
  <2>2. /\ socket[l] = "none" /\ ~HasRequest(l) /\ sent[l] = 0
        /\ ~HasClse(l) /\ l \notin eof
    BY <1>d, <2>1 DEF RequestInv, EndInv, Shut, Unasked
  <2>5. RequestInv(l)'
    BY <1>a, <1>b, <1>d, <1>e, <2>1, <2>2 DEF RequestInv, Established, Mapped, Unasked
  <2>6. EndInv(l)'
    BY <1>b, <1>c, <1>d, <1>e, <2>1, <2>2 DEF EndInv, Shut, WholeClose, Unasked
  <2>7. WaitInv(l)'
    BY <1>b, <1>c, <1>d, <1>e, <2>1, <2>2 DEF WaitInv, Asking
  <2>8. DataInv(l)'
    <3>1. Promise!Unread(l) = {} /\ Promise!Unread(l)' = {}
      BY <1>b, <2>2 DEF Promise!Unread
    <3>2. /\ Held(l)' = Held(l) /\ Queued(l)' = Queued(l) /\ OnTheWay(l)' = OnTheWay(l)
          /\ Rising(rx[l])' = Rising(rx[l])
      BY <1>b, <1>c, <2>1 DEF Held, Queued, OnTheWay, Rising
    <3> QED BY <1>b, <1>c, <1>d, <2>1, <2>2, <3>1, <3>2 DEF DataInv, Before
  <2> QED BY <2>5, <2>6, <2>7, <2>8 DEF LinkOf
<1>2. CASE Write(l)
  <2>1. /\ phase[l] = "idle" /\ phase'[l] = "write_header" /\ requests'[l] = requests[l] + 1
        /\ acked' = acked /\ ack'[l] = "none" /\ streams' = streams /\ tx' = tx /\ l \in waiters'
        /\ gaveUp' = gaveUp /\ eof' = eof /\ toDevice' = toDevice
    BY <1>2, <1>a DEF Write, caller, tables, wires, history
  <2>5. RequestInv(l)'
    BY <1>a, <1>b, <1>d, <1>e, <2>1 DEF RequestInv, Established, Mapped, Unasked
  <2>6. EndInv(l)'
    BY <1>b, <1>c, <1>d, <1>e, <2>1 DEF EndInv, Shut, WholeClose, Unasked
  <2>7. WaitInv(l)'
    BY <1>b, <1>c, <1>d, <1>e, <2>1 DEF WaitInv, Asking
  <2>8. DataInv(l)'
    BY <1>2, <1>f DEF Write, caller, tables, history
  <2> QED BY <2>5, <2>6, <2>7, <2>8 DEF LinkOf
<1>3. CASE CloseStream(l)
  <2>1. /\ phase[l] \in {"idle", "failed"} /\ phase'[l] = "close_header" /\ requests' = requests
        /\ acked' = acked /\ ack'[l] = "none" /\ l \notin streams' /\ tx' = tx
        /\ gaveUp' = gaveUp /\ eof' = eof /\ toDevice' = toDevice
    BY <1>3, <1>a DEF CloseStream, caller, tables, wires, history
  <2>5. RequestInv(l)'
    BY <1>a, <1>b, <1>d, <1>e, <2>1 DEF RequestInv, Established, Mapped, Unasked
  <2>6. EndInv(l)'
    BY <1>b, <1>c, <1>d, <1>e, <2>1 DEF EndInv, Shut, WholeClose, Unasked
  <2>7. WaitInv(l)'
    BY <1>b, <1>c, <1>d, <1>e, <2>1 DEF WaitInv, Asking
  <2>8. DataInv(l)'
    BY <1>3, <1>f DEF CloseStream, caller, tables, history
  <2> QED BY <2>5, <2>6, <2>7, <2>8 DEF LinkOf
<1>4. CASE SendHeader(l)
  <2>1. /\ requests' = requests /\ acked' = acked /\ ack' = ack /\ streams' = streams /\ tx' = tx
        /\ waiters' = waiters /\ gaveUp' = gaveUp /\ eof' = eof
    BY <1>4 DEF SendHeader, tables, history
  <2>2. DataInv(l)'
    BY <1>4, <1>f DEF SendHeader, tables, history
  <2>3. CASE phase[l] \in {"open_header", "write_header"}
    <3>1. PICK t \in Transfer :
            /\ toDevice' = Append(toDevice, t) /\ IsRequest(t, l)
            /\ \/ phase[l] = "open_header" /\ phase'[l] = "open_payload" /\ IsOpen(t, l) /\ ~IsWrite(t, l)
               \/ /\ phase[l] = "write_header" /\ phase'[l] \in {"write_payload", "write_wait"}
                  /\ IsWrite(t, l) /\ ~IsOpen(t, l)
      <4>1. CASE phase[l] = "open_header"
        <5>1. toDevice' = Append(toDevice, Header("OPEN", l, TRUE)) /\ phase'[l] = "open_payload"
          BY <1>4, <1>a, <4>1 DEF SendHeader, Transmit
        <5>2. /\ Header("OPEN", l, TRUE) \in Transfer /\ IsOpen(Header("OPEN", l, TRUE), l)
              /\ ~IsWrite(Header("OPEN", l, TRUE), l)
          BY PacketTypes DEF Header, IsOpen, IsWrite, IsRequest
        <5> QED BY <4>1, <5>1, <5>2 DEF IsOpen
      <4>2. CASE phase[l] = "write_header"
        <5>1. PICK more \in BOOLEAN : toDevice' = Append(toDevice, Header("WRTE", l, more))
          BY <1>4, <1>a, <4>2 DEF SendHeader, Transmit
        <5>2. phase'[l] \in {"write_payload", "write_wait"}
          BY <1>4, <1>a, <4>2 DEF SendHeader, Transmit
        <5>3. /\ Header("WRTE", l, more) \in Transfer /\ IsWrite(Header("WRTE", l, more), l)
              /\ ~IsOpen(Header("WRTE", l, more), l)
          BY PacketTypes DEF Header, IsOpen, IsWrite, IsRequest
        <5> QED BY <4>2, <5>1, <5>2, <5>3 DEF IsWrite
      <4> QED BY <2>3, <4>1, <4>2
    <3>2. Wire' = Wire \cup {t}
      BY <3>1, WireAppended
    <3>3. ~HasRequest(l) /\ got[l] < requests[l] /\ OneRequest(l)'
      BY <1>b, <2>3, <3>1, PreparedIsAlone
    <3>4. /\ HasRequest(l)' /\ (HasClose(l)' <=> HasClose(l)) /\ WholeClose(l)'
          /\ HasOpen(l)' => phase[l] = "open_header"
          /\ HasWrite(l)' => phase[l] = "write_header"
      <4>1. \A u \in Wire \cup {expect} : ~IsOpen(u, l) /\ ~IsWrite(u, l)
        BY <3>3 DEF HasRequest, HasOpen, HasWrite
      <4>2. ~IsClose(t, l) BY <3>1 DEF IsRequest, IsClose
      <4>3. t \in Wire' /\ Wire' \cup {expect'} = Wire \cup {expect} \cup {t}
        BY <1>b, <3>2
      <4>4. HasRequest(l)' BY <3>1, <4>3 DEF HasRequest, HasOpen, HasWrite
      <4>5. (HasClose(l)' <=> HasClose(l)) /\ WholeClose(l)'
        BY <1>d, <3>2, <4>2 DEF HasClose, WholeClose
      <4> QED BY <3>1, <4>1, <4>3, <4>4, <4>5 DEF HasOpen, HasWrite
    <3>5. RequestInv(l)'
      BY <1>a, <1>b, <1>d, <2>1, <3>1, <3>3, <3>4 DEF RequestInv, Established, Mapped, Unasked
    <3>6. EndInv(l)'
      <4>1. Shut(l) => Shut(l)'
        BY <1>b, <3>1, <3>4 DEF Shut, Unasked
      <4> QED BY <1>b, <1>c, <1>d, <2>1, <3>1, <3>4, <4>1 DEF EndInv, WholeClose
    <3>7. WaitInv(l)'
      BY <1>d, <2>1, <3>1, <3>4 DEF WaitInv, Asking
    <3> QED BY <2>2, <3>5, <3>6, <3>7 DEF LinkOf
  <2>4. CASE phase[l] = "close_header"
    <3>1. PICK t \in Transfer : toDevice' = Append(toDevice, t) /\ IsClose(t, l) /\ ~t.more
      <4>1. toDevice' = Append(toDevice, Header("CLSE", l, FALSE))
        BY <1>4, <1>a, <2>4 DEF SendHeader, Transmit
      <4>2. /\ Header("CLSE", l, FALSE) \in Transfer /\ IsClose(Header("CLSE", l, FALSE), l)
            /\ ~Header("CLSE", l, FALSE).more
        BY PacketTypes DEF Header, IsClose
      <4> QED BY <4>1, <4>2
    <3>2. Wire' = Wire \cup {t} /\ phase'[l] = "close_wait"
      BY <1>4, <1>a, <2>4, <3>1, WireAppended DEF SendHeader
    <3>3. ~IsRequest(t, l) /\ ~IsOpen(t, l) /\ ~IsWrite(t, l)
      BY <3>1 DEF IsRequest, IsOpen, IsWrite, IsClose
    <3>4. /\ OneRequest(l)' /\ HasClose(l)' /\ WholeClose(l)' /\ (HasOpen(l)' <=> HasOpen(l))
          /\ (HasWrite(l)' <=> HasWrite(l)) /\ (HasRequest(l)' <=> HasRequest(l))
      <4>1. OneRequest(l)' BY <1>b, <1>d, <3>1, <3>3, WritesToDevice
      <4>2. HasClose(l)' /\ WholeClose(l)' BY <1>d, <3>1, <3>2 DEF HasClose, WholeClose
      <4>3. (HasOpen(l)' <=> HasOpen(l)) /\ (HasWrite(l)' <=> HasWrite(l))
        BY <1>b, <3>2, <3>3 DEF HasOpen, HasWrite
      <4> QED BY <4>1, <4>2, <4>3 DEF HasRequest
    <3>5. RequestInv(l)'
      BY <1>a, <1>b, <1>d, <2>1, <2>4, <3>2, <3>4 DEF RequestInv, Established, Mapped, Unasked
    <3>6. EndInv(l)'
      <4>1. ~HasOpen(l)
        BY <1>d, <2>4 DEF RequestInv, Established
      <4>2. Shut(l) => Shut(l)'
        BY <1>b, <3>2, <3>4 DEF Shut, Unasked
      <4> QED BY <1>b, <1>c, <1>d, <2>1, <3>2, <3>4, <4>1, <4>2 DEF EndInv, WholeClose
    <3>7. WaitInv(l)'
      BY <3>2 DEF WaitInv, Asking
    <3> QED BY <2>2, <3>5, <3>6, <3>7 DEF LinkOf
  <2> QED BY <1>4, <2>3, <2>4 DEF SendHeader
<1>5. CASE SendPayload(l)
  <2>1. /\ requests' = requests /\ acked' = acked /\ ack' = ack /\ streams' = streams /\ tx' = tx
        /\ waiters' = waiters /\ gaveUp' = gaveUp /\ eof' = eof
        /\ \/ phase[l] = "open_payload" /\ phase'[l] = "open_wait"
           \/ phase[l] = "write_payload" /\ phase'[l] = "write_wait"
    BY <1>5, <1>a DEF SendPayload, tables, history
  <2>2. PICK t \in Transfer : t.part = "payload" /\ toDevice' = Append(toDevice, t)
    BY <1>5, PacketTypes, Zenon DEF SendPayload, Transmit, Payload
  <2>3. ~IsRequest(t, l) /\ ~IsClose(t, l)
    BY <2>2 DEF IsRequest, IsClose
  <2>4. /\ OneRequest(l)' /\ (HasClose(l)' <=> HasClose(l)) /\ WholeClose(l)'
        /\ (HasOpen(l)' <=> HasOpen(l)) /\ (HasWrite(l)' <=> HasWrite(l))
        /\ (HasRequest(l)' <=> HasRequest(l))
    BY <1>b, <1>d, <2>2, <2>3, WireGains DEF SameWire, HasRequest
  <2>5. RequestInv(l)'
    BY <1>b, <1>d, <2>1, <2>4 DEF RequestInv, Established, Mapped, Unasked
  <2>6. EndInv(l)'
    BY <1>b, <1>c, <1>d, <2>1, <2>4 DEF EndInv, Shut, WholeClose, Unasked
  <2>7. WaitInv(l)'
    BY <1>b, <1>c, <1>d, <2>1, <2>4 DEF WaitInv, Asking
  <2>8. DataInv(l)'
    BY <1>5, <1>f DEF SendPayload, tables, history
  <2> QED BY <2>5, <2>6, <2>7, <2>8 DEF LinkOf
<1>6. CASE SendFails(l)
  <2>1. /\ link = "down" /\ requests' = requests /\ acked' = acked /\ streams' = streams /\ tx' = tx
        /\ gaveUp' = gaveUp /\ eof' = eof /\ toDevice' = toDevice /\ ack'[l] \in {"none", ack[l]}
        /\ \/ phase[l] \in {"open_header", "open_payload"} /\ phase'[l] = "over"
           \/ phase[l] \in {"write_header", "write_payload"} /\ phase'[l] = "failed"
           \/ phase[l] = "close_header" /\ phase'[l] = "close_wait"
    BY <1>6, <1>a DEF SendFails, caller, tables, wires, history
  <2>5. RequestInv(l)'
    BY <1>a, <1>b, <1>d, <1>e, <2>1 DEF RequestInv, Established, Mapped, Unasked
  <2>6. EndInv(l)'
    BY <1>b, <1>c, <1>d, <1>e, <2>1 DEF EndInv, Shut, WholeClose, Unasked
  <2>7. WaitInv(l)'
    BY <1>b, <1>c, <1>d, <1>e, <2>1 DEF WaitInv, Asking
  <2>8. DataInv(l)'
    BY <1>6, <1>f DEF SendFails, caller, tables, history
  <2> QED BY <2>5, <2>6, <2>7, <2>8 DEF LinkOf
<1>7. CASE OpenOk(l)
  <2>1. /\ phase[l] = "open_wait" /\ phase'[l] = "idle" /\ ack[l] = "okay" /\ ack'[l] = "none"
        /\ requests' = requests /\ acked'[l] = requests[l] /\ streams' = streams /\ tx' = tx
        /\ gaveUp' = gaveUp /\ eof' = eof /\ toDevice' = toDevice
    BY <1>7, <1>a DEF OpenOk, caller, tables, wires, history
  <2>2. Granted(l)
    BY <1>7, <2>1 DEF OpenOk, StreamInv, Asked
  <2>3. got[l] = requests[l] /\ requests[l] > 0
    BY <1>a, <2>2 DEF Granted
  <2>5. RequestInv(l)'
    BY <1>a, <1>b, <1>d, <1>e, <2>1, <2>3 DEF RequestInv, Established, Mapped, Unasked
  <2>6. EndInv(l)'
    BY <1>b, <1>c, <1>d, <1>e, <2>1, <2>3 DEF EndInv, Shut, WholeClose, Unasked
  <2>7. WaitInv(l)'
    BY <1>b, <1>c, <1>d, <1>e, <2>1, <2>3 DEF WaitInv, Asking
  <2>8. DataInv(l)'
    BY <1>7, <1>f DEF OpenOk, caller, tables, history
  <2> QED BY <2>5, <2>6, <2>7, <2>8 DEF LinkOf
<1>8. CASE OpenRefused(l)
  <2>1. /\ phase[l] = "open_wait" /\ phase'[l] = "over" /\ ack[l] = "closed" /\ ack'[l] = "none"
        /\ requests' = requests /\ acked' = acked /\ l \notin streams' /\ l \notin tx'
        /\ gaveUp' = gaveUp /\ eof' = eof /\ toDevice' = toDevice
    BY <1>8, <1>a DEF OpenRefused, caller, tables, wires, history, DropSlot
  <2>5. RequestInv(l)'
    BY <1>a, <1>b, <1>d, <1>e, <2>1 DEF RequestInv, Established, Mapped, Unasked
  <2>6. EndInv(l)'
    BY <1>b, <1>c, <1>d, <1>e, <2>1 DEF EndInv, Shut, WholeClose, Unasked
  <2>7. WaitInv(l)'
    BY <1>b, <1>c, <1>d, <1>e, <2>1 DEF WaitInv, Asking
  <2>8. DataInv(l)'
    BY <1>8, <1>b, <1>c, <1>d, <2>1, SlotDropped DEF OpenRefused, DropSlot, history
  <2> QED BY <2>5, <2>6, <2>7, <2>8 DEF LinkOf
<1>9. CASE OpenTimeout(l)
  <2>1. /\ phase[l] = "open_wait" /\ phase'[l] = "over" /\ ack'[l] = "none"
        /\ requests' = requests /\ acked' = acked /\ l \notin streams' /\ l \notin tx'
        /\ l \in gaveUp' /\ eof' = eof /\ toDevice' = toDevice
    BY <1>9, <1>a DEF OpenTimeout, caller, tables, wires, history, DropSlot
  <2>5. RequestInv(l)'
    BY <1>a, <1>b, <1>d, <1>e, <2>1 DEF RequestInv, Established, Mapped, Unasked
  <2>6. EndInv(l)'
    BY <1>b, <1>c, <1>d, <1>e, <2>1 DEF EndInv, Shut, WholeClose, Unasked
  <2>7. WaitInv(l)'
    BY <1>b, <1>c, <1>d, <1>e, <2>1 DEF WaitInv, Asking
  <2>8. DataInv(l)'
    BY <1>9, <1>b, <1>c, <1>d, <2>1, SlotDropped DEF OpenTimeout, DropSlot, history
  <2> QED BY <2>5, <2>6, <2>7, <2>8 DEF LinkOf
<1>10. CASE WriteAcked(l)
  <2>1. /\ phase[l] = "write_wait" /\ ack[l] = "okay" /\ ack'[l] = "none"
        /\ acked'[l] = requests[l] /\ streams' = streams /\ tx' = tx
        /\ gaveUp' = gaveUp /\ eof' = eof /\ toDevice' = toDevice
        /\ \/ phase'[l] = "write_header" /\ requests'[l] = requests[l] + 1 /\ l \in waiters'
           \/ phase'[l] = "idle" /\ requests' = requests
    BY <1>10, <1>a DEF WriteAcked, caller, tables, wires, history
  <2>2. Granted(l)
    BY <1>10, <2>1 DEF WriteAcked, StreamInv, Asked
  <2>3. got[l] = requests[l] /\ requests[l] > 0
    BY <1>a, <2>2 DEF Granted
  <2>5. RequestInv(l)'
    BY <1>a, <1>b, <1>d, <1>e, <2>1, <2>3 DEF RequestInv, Established, Mapped, Unasked
  <2>6. EndInv(l)'
    BY <1>b, <1>c, <1>d, <1>e, <2>1, <2>3 DEF EndInv, Shut, WholeClose, Unasked
  <2>7. WaitInv(l)'
    BY <1>b, <1>c, <1>d, <1>e, <2>1, <2>3 DEF WaitInv, Asking
  <2>8. DataInv(l)'
    BY <1>10, <1>f DEF WriteAcked, caller, tables, history
  <2> QED BY <2>5, <2>6, <2>7, <2>8 DEF LinkOf
<1>11. CASE WriteClosed(l)
  <2>1. /\ phase[l] = "write_wait" /\ phase'[l] = "failed" /\ ack'[l] = "none"
        /\ requests' = requests /\ acked' = acked /\ streams' = streams /\ tx' = tx
        /\ gaveUp' = gaveUp /\ eof' = eof /\ toDevice' = toDevice
    BY <1>11, <1>a DEF WriteClosed, caller, tables, wires, history
  <2>5. RequestInv(l)'
    BY <1>a, <1>b, <1>d, <1>e, <2>1 DEF RequestInv, Established, Mapped, Unasked
  <2>6. EndInv(l)'
    BY <1>b, <1>c, <1>d, <1>e, <2>1 DEF EndInv, Shut, WholeClose, Unasked
  <2>7. WaitInv(l)'
    BY <1>b, <1>c, <1>d, <1>e, <2>1 DEF WaitInv, Asking
  <2>8. DataInv(l)'
    BY <1>11, <1>f DEF WriteClosed, caller, tables, history
  <2> QED BY <2>5, <2>6, <2>7, <2>8 DEF LinkOf
<1>12. CASE WriteTimeout(l)
  <2>1. /\ phase[l] = "write_wait" /\ phase'[l] = "failed" /\ ack'[l] = "none"
        /\ requests' = requests /\ acked' = acked /\ streams' = streams /\ tx' = tx
        /\ gaveUp' = gaveUp /\ eof' = eof /\ toDevice' = toDevice
    BY <1>12, <1>a DEF WriteTimeout, caller, tables, wires, history
  <2>5. RequestInv(l)'
    BY <1>a, <1>b, <1>d, <1>e, <2>1 DEF RequestInv, Established, Mapped, Unasked
  <2>6. EndInv(l)'
    BY <1>b, <1>c, <1>d, <1>e, <2>1 DEF EndInv, Shut, WholeClose, Unasked
  <2>7. WaitInv(l)'
    BY <1>b, <1>c, <1>d, <1>e, <2>1 DEF WaitInv, Asking
  <2>8. DataInv(l)'
    BY <1>12, <1>f DEF WriteTimeout, caller, tables, history
  <2> QED BY <2>5, <2>6, <2>7, <2>8 DEF LinkOf
<1>13. CASE CloseReturns(l)
  <2>1. /\ phase[l] = "close_wait" /\ phase'[l] = "over" /\ ack'[l] = "none"
        /\ requests' = requests /\ acked' = acked /\ streams' = streams /\ l \notin tx'
        /\ gaveUp' = gaveUp /\ eof' = eof /\ toDevice' = toDevice
    BY <1>13, <1>a DEF CloseReturns, caller, tables, wires, history, DropSlot
  <2>2. l \notin streams
    BY <1>d, <2>1 DEF RequestInv
  <2>5. RequestInv(l)'
    BY <1>a, <1>b, <1>d, <1>e, <2>1, <2>2 DEF RequestInv, Established, Mapped, Unasked
  <2>6. EndInv(l)'
    BY <1>b, <1>c, <1>d, <1>e, <2>1, <2>2 DEF EndInv, Shut, WholeClose, Unasked
  <2>7. WaitInv(l)'
    BY <1>b, <1>c, <1>d, <1>e, <2>1, <2>2 DEF WaitInv, Asking
  <2>8. DataInv(l)'
    BY <1>13, <1>b, <1>c, <1>d, <2>1, <2>2, SlotDropped DEF CloseReturns, DropSlot, history
  <2> QED BY <2>5, <2>6, <2>7, <2>8 DEF LinkOf
<1>14. CASE Read(l)
  <2>1. /\ phase' = phase /\ ack' = ack /\ waiters' = waiters
        /\ requests' = requests /\ acked' = acked /\ streams' = streams /\ tx' = tx
        /\ gaveUp' = gaveUp /\ eof' = eof /\ toDevice' = toDevice
    BY <1>14, <1>a DEF Read, caller, tables, wires, history
  <2>5. RequestInv(l)'
    BY <1>a, <1>b, <1>d, <1>e, <2>1 DEF RequestInv, Established, Mapped, Unasked
  <2>6. EndInv(l)'
    BY <1>b, <1>c, <1>d, <1>e, <2>1 DEF EndInv, Shut, WholeClose, Unasked
  <2>7. WaitInv(l)'
    BY <1>b, <1>c, <1>d, <1>e, <2>1 DEF WaitInv, Asking
  <2>8. DataInv(l)'
    BY <1>14, ReadKeepsData
  <2> QED BY <2>5, <2>6, <2>7, <2>8 DEF LinkOf
<1>15. CASE ReadClosed(l)
  <2>1. /\ phase' = phase /\ phase[l] = "idle" /\ ack' = ack /\ waiters' = waiters
        /\ requests' = requests /\ acked' = acked /\ streams' = streams /\ tx' = tx
        /\ gaveUp' = gaveUp /\ eof' = eof \cup {l} /\ toDevice' = toDevice /\ rx' = rx /\ taken' = taken
        /\ l \notin streams \/ (rx[l] = <<>> /\ l \notin tx)
    BY <1>15, <1>a DEF ReadClosed, caller, tables, wires, history
  <2>2. l \in streams /\ l \notin tx /\ rx[l] = <<>> /\ Shut(l)
    BY <1>d, <2>1 DEF RequestInv, EndInv, Mapped
  <2>5. RequestInv(l)'
    BY <1>a, <1>b, <1>d, <1>e, <2>1, <2>2 DEF RequestInv, Established, Mapped, Unasked
  <2>6. EndInv(l)'
    BY <1>b, <1>c, <1>d, <1>e, <2>1, <2>2 DEF EndInv, Shut, WholeClose, Unasked
  <2>7. WaitInv(l)'
    BY <1>b, <1>c, <1>d, <1>e, <2>1, <2>2 DEF WaitInv, Asking
  <2>8. DataInv(l)'
    <3>1. /\ Held(l)' = Held(l) /\ Queued(l)' = Queued(l) /\ OnTheWay(l)' = OnTheWay(l)
          /\ Rising(rx[l])' = Rising(rx[l]) /\ Promise!Unread(l)' = Promise!Unread(l)
      BY <1>b, <1>c, <2>1 DEF Held, Queued, OnTheWay, Rising, Promise!Unread
    <3> QED BY <1>b, <1>c, <1>d, <2>1, <2>2, <3>1 DEF DataInv, Before
  <2> QED BY <2>5, <2>6, <2>7, <2>8 DEF LinkOf
<1> QED BY <1>1, <1>2, <1>3, <1>4, <1>5, <1>6, <1>7, <1>8, <1>9, <1>10, <1>11, <1>12, <1>13, <1>14, <1>15 DEF Caller

\* What the reader never touches.
LEMMA ReaderSteps ==
  ASSUME Reader
  PROVE  /\ phase' = phase /\ requests' = requests /\ acked' = acked /\ taken' = taken /\ eof' = eof
         /\ gaveUp' = gaveUp /\ streams' = streams /\ device' = device /\ link' = link
<1>1. CASE ReadOkay BY <1>1 DEF ReadOkay, caller, history
<1>2. CASE ReadWrte BY <1>2 DEF ReadWrte, caller, tables, history
<1>3. CASE SendOkay BY <1>3 DEF SendOkay, Transmit, caller, tables, history
<1>4. CASE Deliver BY <1>4 DEF Deliver, caller, tables, wires
<1>5. CASE ReadClse BY <1>5 DEF ReadClse, caller, history
<1>6. CASE ReaderEnds BY <1>6 DEF ReaderEnds, caller, tables, wires, history
<1> QED BY <1>1, <1>2, <1>3, <1>4, <1>5, <1>6 DEF Reader

\* An OKAY that is read answers the call that waits, and takes nothing else from the stream.
LEMMA ReadOkayOnward ==
  ASSUME TypeOK, NEW l \in Local, LinkOf(l), ReadOkay
  PROVE  LinkOf(l)'
<1> DEFINE k == Head(toHost).local
<1>1. /\ phase' = phase /\ requests' = requests /\ acked' = acked /\ taken' = taken /\ eof' = eof
      /\ gaveUp' = gaveUp /\ streams' = streams /\ device' = device /\ link' = link
  BY ReaderSteps DEF Reader
<1>2. /\ toHost # <<>> /\ toHost' = Tail(toHost) /\ Head(toHost).command = "OKAY"
      /\ toDevice' = toDevice /\ tx' = tx /\ rx' = rx /\ reader' = reader /\ lost' = lost
      /\ waiters' = waiters \ {k}
      /\ ack' = IF k \in waiters THEN [ack EXCEPT ![k] = "okay"] ELSE ack
  BY DEF ReadOkay, Received, Wake, history
<1>3. k \in Local /\ ack \in [Local -> {"none", "okay", "closed"}]
  <2>1. Head(toHost) \in Packet BY <1>2, HeadTail DEF TypeOK, WiresTypes
  <2> QED BY <2>1 DEF Packet, TypeOK, TablesTypes
<1>4. SameSocket(l) /\ SameWire(l) /\ SameData(l)
  <2>1. SameWire(l) BY <1>1, <1>2, WireStays DEF device
  <2> QED BY <1>1, <1>2, <2>1 DEF SameSocket, SameData, Held, device
<1>5. CASE k # l
  <2>1. SameHost(l) BY <1>2, <1>5, HostLoses
  <2>2. SameCall(l) BY <1>1, <1>2, <1>3, <1>5 DEF SameCall
  <2> QED BY <1>4, <2>1, <2>2, Aside
<1>6. CASE k = l
  <2>1. /\ Posted = {Head(toHost)} \cup Posted' /\ Ordered(l)'
        /\ ~IsClse(Head(toHost), l) /\ ~IsWrte(Head(toHost), l)
    BY <1>2, PostedTaken, OrderedTaken DEF LinkOf, DataInv, IsClse, IsWrte
  <2>2. (HasClse(l)' <=> HasClse(l)) /\ Payloads(l)' = Payloads(l)
    BY <2>1 DEF HasClse, Payloads
  <2>3. ack'[l] = "closed" => ack[l] = "closed"
    BY <1>2, <1>3, <1>6
  <2>4. ack'[l] = "none" => ack[l] = "none" /\ l \notin waiters
    BY <1>2, <1>3, <1>6
  <2>5. RequestInv(l)'
    BY <1>1, <1>4, RequestFrame DEF LinkOf, RequestInv, SameSocket, SameWire
  <2>6. EndInv(l)'
    BY <1>1, <1>2, <1>4, <2>2, <2>3 DEF LinkOf, EndInv, Shut, SameSocket, SameWire, WholeClose
  <2>7. WaitInv(l)'
    BY <1>1, <2>4 DEF LinkOf, WaitInv
  <2>8. DataInv(l)'
    BY <1>1, <1>2, <1>4, <2>1, <2>2, DataFrame DEF LinkOf, SameSocket
  <2> QED BY <2>5, <2>6, <2>7, <2>8 DEF LinkOf
<1> QED BY <1>5, <1>6

\* A CLSE that is read ends the channel; no payload of the stream comes after it.
LEMMA ReadClseOnward ==
  ASSUME TypeOK, NEW l \in Local, LinkOf(l), ReadClse
  PROVE  LinkOf(l)'
<1> DEFINE k == Head(toHost).local
<1>1. /\ phase' = phase /\ requests' = requests /\ acked' = acked /\ taken' = taken /\ eof' = eof
      /\ gaveUp' = gaveUp /\ streams' = streams /\ device' = device /\ link' = link
  BY ReaderSteps DEF Reader
<1>2. /\ toHost # <<>> /\ toHost' = Tail(toHost) /\ Head(toHost).command = "CLSE"
      /\ toDevice' = toDevice /\ rx' = rx /\ reader' = reader /\ reader.at = "read" /\ lost' = lost
      /\ tx' = (IF k \in streams THEN tx \ {k} ELSE tx)
      /\ waiters' = waiters \ {k}
      /\ ack' = IF k \in waiters THEN [ack EXCEPT ![k] = "closed"] ELSE ack
  BY DEF ReadClse, Received, Wake, history
<1>3. k \in Local /\ ack \in [Local -> {"none", "okay", "closed"}]
  <2>1. Head(toHost) \in Packet BY <1>2, HeadTail DEF TypeOK, WiresTypes
  <2> QED BY <2>1 DEF Packet, TypeOK, TablesTypes
<1>4. SameSocket(l) /\ SameWire(l) /\ SameData(l)
  <2>1. SameWire(l) BY <1>1, <1>2, WireStays DEF device
  <2> QED BY <1>1, <1>2, <2>1 DEF SameSocket, SameData, Held, device
<1>5. CASE k # l
  <2>1. SameHost(l) BY <1>2, <1>5, HostLoses
  <2>2. SameCall(l) BY <1>1, <1>2, <1>3, <1>5 DEF SameCall
  <2> QED BY <1>4, <2>1, <2>2, Aside
<1>6. CASE k = l
  <2>1. /\ Posted = {Head(toHost)} \cup Posted' /\ Ordered(l)'
        /\ IsClse(Head(toHost), l) /\ ~IsWrte(Head(toHost), l)
        /\ \A p \in Posted' : ~IsWrte(p, l)
    BY <1>2, <1>6, PostedTaken, OrderedTaken DEF LinkOf, DataInv, IsClse, IsWrte
  <2>2. HasClse(l) /\ Payloads(l)' = Payloads(l) /\ Payloads(l) = {}
    BY <2>1 DEF HasClse, Payloads
  <2>3. Shut(l) /\ Shut(l)'
    BY <1>1, <1>4, <2>2 DEF LinkOf, EndInv, Shut, SameSocket, SameWire
  <2>4. ack'[l] = "none" => ack[l] = "none" /\ l \notin waiters
    BY <1>2, <1>3, <1>6
  <2>5. RequestInv(l)'
    BY <1>1, <1>4, RequestFrame DEF LinkOf, RequestInv, SameSocket, SameWire
  <2>6. EndInv(l)'
    BY <1>1, <1>4, <2>3 DEF LinkOf, EndInv, SameSocket, SameWire, WholeClose
  <2>7. WaitInv(l)'
    BY <1>1, <2>4 DEF LinkOf, WaitInv
  <2>8. DataInv(l)'
    <3>1. Held(l) = {} /\ Held(l)' = {} /\ Queued(l)' = Queued(l) /\ OnTheWay(l)' = OnTheWay(l)
      BY <1>2, <2>2 DEF Held, Queued, OnTheWay
    <3>2. Rising(rx[l])' = Rising(rx[l]) /\ Promise!Unread(l)' = Promise!Unread(l)
      BY <1>1, <1>2, <1>4 DEF Rising, Promise!Unread, SameSocket
    <3>3. l \in streams => Promise!Unread(l) \subseteq Queued(l)
      BY <1>2, <2>2, <3>1 DEF LinkOf, DataInv, OnTheWay
    <3> QED
      BY <1>1, <1>2, <1>4, <2>1, <2>2, <3>1, <3>2, <3>3 DEF LinkOf, DataInv, Before, SameSocket
  <2> QED BY <2>5, <2>6, <2>7, <2>8 DEF LinkOf
<1> QED BY <1>5, <1>6

\* A payload passes from the link to the reader, which holds one at a time.
LEMMA ReadWrteOnward ==
  ASSUME TypeOK, NEW l \in Local, LinkOf(l), ReadWrte
  PROVE  LinkOf(l)'
<1> DEFINE h == Head(toHost)
<1>1. /\ phase' = phase /\ requests' = requests /\ acked' = acked /\ taken' = taken /\ eof' = eof
      /\ gaveUp' = gaveUp /\ streams' = streams /\ device' = device /\ link' = link
  BY ReaderSteps DEF Reader
<1>2. /\ toHost # <<>> /\ toHost' = Tail(toHost) /\ h.command = "WRTE"
      /\ toDevice' = toDevice /\ rx' = rx /\ reader.at = "read" /\ lost' = lost
      /\ reader' = [at |-> "reply", pkt |-> h] /\ tx' = tx /\ waiters' = waiters /\ ack' = ack
  BY DEF ReadWrte, Received, tables, history
<1>3. SameCall(l) /\ SameSocket(l) /\ SameWire(l)
  <2>1. SameWire(l) BY <1>1, <1>2, WireStays DEF device
  <2> QED BY <1>1, <1>2, <2>1 DEF SameCall, SameSocket, device
<1>4. Held(l) = {} /\ Held(l)' = IF h.local = l THEN {h.n} ELSE {}
  BY <1>2 DEF Held
<1>5. CASE h.local # l
  <2>1. SameHost(l) BY <1>2, <1>5, HostLoses
  <2>2. SameData(l) BY <1>1, <1>2, <1>4, <1>5 DEF SameData
  <2> QED BY <1>3, <2>1, <2>2, Aside
<1>6. CASE h.local = l
  <2>1. /\ Posted = {h} \cup Posted' /\ Ordered(l)' /\ IsWrte(h, l)
        /\ \A p \in Posted' : IsWrte(p, l) => h.n < p.n
        /\ ~IsOkay(h, l) /\ ~IsClse(h, l)
    BY <1>2, <1>6, PostedTaken, OrderedTaken DEF LinkOf, DataInv, IsClse, IsWrte, IsOkay
  <2> HIDE DEF h
  <2>2. /\ (HasOkay(l)' <=> HasOkay(l)) /\ (HasClse(l)' <=> HasClse(l))
        /\ Payloads(l) = {h.n} \cup Payloads(l)' /\ \A n \in Payloads(l)' : h.n < n
    BY <2>1 DEF HasOkay, HasClse, Payloads
  <2>3. RequestInv(l)'
    BY <1>3, RequestFrame DEF LinkOf, RequestInv, SameCall, SameSocket, SameWire
  <2>4. EndInv(l)'
    BY <1>3, <2>2, EndFrame DEF LinkOf, SameCall, SameSocket, SameWire
  <2>5. WaitInv(l)'
    BY <1>3, <2>2, WaitFrame DEF LinkOf, SameCall, SameSocket, SameWire, HasRequest
  <2>6. DataInv(l)'
    <3>1. Queued(l)' = Queued(l) /\ Held(l)' = {h.n} /\ OnTheWay(l)' = OnTheWay(l)
      BY <1>2, <1>4, <1>6, <2>2 DEF Queued, OnTheWay
    <3>2. Rising(rx[l])' = Rising(rx[l]) /\ Promise!Unread(l)' = Promise!Unread(l)
      BY <1>1, <1>2, <1>3 DEF Rising, Promise!Unread, SameSocket
    <3>3. l \in streams => l \in tx
      BY <2>2 DEF LinkOf, DataInv
    <3> QED
      BY <1>1, <1>2, <1>3, <2>1, <2>2, <3>1, <3>2, <3>3 DEF LinkOf, DataInv, Before, SameSocket
  <2> QED BY <2>3, <2>4, <2>5, <2>6 DEF LinkOf
<1> QED BY <1>5, <1>6

\* The reader's own OKAY is no call's business.
LEMMA SendOkayOnward ==
  ASSUME TypeOK, NEW l \in Local, LinkOf(l), SendOkay
  PROVE  LinkOf(l)'
<1>1. /\ phase' = phase /\ requests' = requests /\ acked' = acked /\ taken' = taken /\ eof' = eof
      /\ gaveUp' = gaveUp /\ streams' = streams /\ device' = device /\ link' = link
  BY ReaderSteps DEF Reader
<1>2. /\ toHost' = toHost /\ rx' = rx /\ lost' = lost /\ tx' = tx /\ waiters' = waiters /\ ack' = ack
      /\ reader.at = "reply" /\ reader' = [at |-> "deliver", pkt |-> reader.pkt]
  BY DEF SendOkay, Transmit, tables, history
<1>3. PICK t \in Transfer : t.command = "OKAY" /\ toDevice' = Append(toDevice, t)
  <2>1. reader.pkt.local \in Local BY DEF TypeOK, ReaderTypes, Packet
  <2>2. Header("OKAY", reader.pkt.local, FALSE) \in Transfer BY <2>1, PacketTypes
  <2> QED BY <2>2, Zenon DEF SendOkay, Transmit, Header
<1>4. SameWire(l)
  <2>1. ~IsRequest(t, l) /\ ~IsClose(t, l) BY <1>3 DEF IsRequest, IsClose
  <2> QED BY <1>1, <1>3, <2>1, WireGains DEF device
<1>5. SameCall(l) /\ SameSocket(l) /\ SameHost(l) /\ SameData(l)
  <2>1. SameHost(l) BY <1>2, HostStays
  <2> QED BY <1>1, <1>2, <2>1 DEF SameCall, SameSocket, SameData, Held, device
<1> QED BY <1>4, <1>5, Aside

\* The payload the reader holds goes to the end of the channel, or is lost on a full one, or
\* belongs to a stream that nobody reads any more.
LEMMA DeliverOnward ==
  ASSUME TypeOK, NEW l \in Local, LinkOf(l), Deliver
  PROVE  /\ LinkOf(l)'
         /\ reader.pkt.local = l /\ lost'[l] # lost[l] => reader.pkt.n \in Promise!Unread(l)
<1> DEFINE k == reader.pkt.local
           n == reader.pkt.n
<1>1. /\ phase' = phase /\ requests' = requests /\ acked' = acked /\ taken' = taken /\ eof' = eof
      /\ gaveUp' = gaveUp /\ streams' = streams /\ device' = device /\ link' = link
  BY ReaderSteps DEF Reader
<1>2. /\ toHost' = toHost /\ toDevice' = toDevice /\ tx' = tx /\ waiters' = waiters /\ ack' = ack
      /\ reader.at = "deliver" /\ reader' = [at |-> "read", pkt |-> NoPacket]
  BY DEF Deliver, tables, wires
<1>3. \/ k \in streams /\ k \in tx /\ rx' = [rx EXCEPT ![k] = Append(@, n)] /\ lost' = lost
      \/ k \in streams /\ k \in tx /\ lost' = [lost EXCEPT ![k] = @ \cup {n}] /\ rx' = rx
      \/ ~(k \in streams /\ k \in tx) /\ rx' = rx /\ lost' = lost
  BY DEF Deliver
<1>4. /\ k \in Local /\ n \in Nat /\ rx \in [Local -> Seq(Nat)] /\ lost \in [Local -> SUBSET Nat]
  BY DEF TypeOK, ReaderTypes, HistoryTypes, Packet
<1>5. SameCall(l) /\ SameSocket(l) /\ SameWire(l) /\ SameHost(l)
  <2>1. SameWire(l) /\ SameHost(l) BY <1>1, <1>2, WireStays, HostStays DEF device
  <2> QED BY <1>1, <1>2, <2>1 DEF SameCall, SameSocket, device
<1>6. Held(l)' = {} /\ Held(l) = IF k = l THEN {n} ELSE {}
  BY <1>2 DEF Held
<1>7. CASE k # l
  <2>1. SameData(l) BY <1>1, <1>2, <1>3, <1>4, <1>6, <1>7 DEF SameData
  <2> QED BY <1>5, <1>7, <2>1, Aside
<1>8. CASE k = l
  <2>1. RequestInv(l)'
    BY <1>5, RequestFrame DEF LinkOf, RequestInv, SameCall, SameSocket, SameWire
  <2>2. EndInv(l)'
    BY <1>5, EndFrame DEF LinkOf, SameCall, SameSocket, SameWire, SameHost
  <2>3. WaitInv(l)'
    BY <1>5, WaitFrame DEF LinkOf, SameCall, SameSocket, SameWire, SameHost, HasRequest
  <2>4. /\ Payloads(l)' = Payloads(l) /\ Ordered(l)' /\ sent'[l] = sent[l]
        /\ reader.at # "dead" /\ reader'.at # "dead"
    BY <1>2, <1>5 DEF LinkOf, DataInv, SameHost, SameSocket
  <2>5. /\ Held(l) = {n} /\ n \in OnTheWay(l) /\ n \in Promise!Unread(l)
        /\ \A q \in Queued(l) : q < n
        /\ \A q \in Payloads(l) : n < q
        /\ OnTheWay(l) \subseteq Nat
    BY <1>6, <1>8 DEF LinkOf, DataInv, OnTheWay, Before, Promise!Unread
  <2> HIDE DEF n
  <2>6. DataInv(l)'
    <3>1. CASE rx' = [rx EXCEPT ![k] = Append(@, n)] /\ lost' = lost
      <4>1. rx'[l] = Append(rx[l], n) /\ rx[l] \in Seq(Nat)
        BY <1>4, <1>8, <3>1
      <4>2. /\ Len(rx[l]) \in Nat /\ Len(rx'[l]) = Len(rx[l]) + 1 /\ rx'[l][Len(rx[l]) + 1] = n
            /\ \A i \in 1..Len(rx[l]) : rx'[l][i] = rx[l][i]
        BY <1>4, <4>1, Appended
      <4>3. Queued(l)' = Queued(l) \cup {n}
        <5>1. \A i : i \in 1..Len(rx'[l]) <=> i \in 1..Len(rx[l]) \/ i = Len(rx[l]) + 1
          BY <4>2
        <5> QED BY <4>2, <5>1 DEF Queued
      <4>4. Rising(rx[l])'
        <5>1. Rising(rx[l]) /\ \A i \in 1..Len(rx[l]) : rx[l][i] < n
          BY <2>5 DEF LinkOf, DataInv, Queued
        <5>2. \A i, j \in 1..Len(rx'[l]) : i < j =>
                i \in 1..Len(rx[l]) /\ (j \in 1..Len(rx[l]) \/ j = Len(rx[l]) + 1)
          BY <4>2
        <5> QED BY <4>2, <5>1, <5>2 DEF Rising
      <4>5. OnTheWay(l)' = OnTheWay(l) /\ Promise!Unread(l)' = Promise!Unread(l)
        BY <1>1, <1>6, <2>4, <2>5, <3>1, <4>3 DEF OnTheWay, Promise!Unread
      <4>6. Before(Queued(l)', Held(l)') /\ Before(Queued(l)', Payloads(l)') /\ Before(Held(l)', Payloads(l)')
        BY <1>6, <2>4, <2>5, <4>3 DEF LinkOf, DataInv, Before
      <4>7. l \in streams /\ l \in tx /\ l \notin eof
        BY <1>3, <1>6, <1>8, <2>5, <3>1, <4>1, <4>2 DEF LinkOf, DataInv
      <4> QED BY <1>1, <1>2, <1>6, <2>4, <3>1, <4>4, <4>5, <4>6, <4>7 DEF LinkOf, DataInv, Before
    <3>2. CASE lost' = [lost EXCEPT ![k] = @ \cup {n}] /\ rx' = rx /\ l \in streams /\ l \in tx
      <4>1. /\ lost'[l] = lost[l] \cup {n} /\ Queued(l)' = Queued(l)
            /\ Rising(rx[l])' = Rising(rx[l])
        BY <1>4, <1>8, <3>2 DEF Queued, Rising
      <4>2. Promise!Unread(l)' = Promise!Unread(l) \ {n}
        BY <1>1, <2>4, <4>1 DEF Promise!Unread
      <4>3. OnTheWay(l)' = OnTheWay(l) \ {n}
        <5>1. n \notin Queued(l) /\ n \notin Payloads(l)
          BY <1>4, <2>5
        <5> QED BY <1>6, <2>4, <2>5, <4>1, <5>1 DEF OnTheWay
      <4>4. taken'[l] \cup lost'[l] \subseteq 1..sent'[l]
        BY <1>1, <2>4, <2>5, <4>1 DEF LinkOf, DataInv, Promise!Unread
      <4>5. l \notin eof
        BY <3>2 DEF LinkOf, DataInv
      <4>6. \A m \in Promise!Unread(l)' : m \in OnTheWay(l)'
        BY <2>4, <3>2, <4>2, <4>3 DEF LinkOf, DataInv
      <4>7. OnTheWay(l)' \subseteq Promise!Unread(l)'
        BY <4>2, <4>3 DEF LinkOf, DataInv
      <4> QED
        BY <1>1, <1>2, <1>6, <2>4, <3>2, <4>1, <4>4, <4>5, <4>6, <4>7 DEF LinkOf, DataInv, Before
    <3>3. CASE ~(l \in streams /\ l \in tx) /\ rx' = rx /\ lost' = lost
      <4>1. l \notin streams
        BY <2>5, <3>3 DEF LinkOf, DataInv
      <4>2. /\ Queued(l)' = Queued(l) /\ OnTheWay(l)' \subseteq OnTheWay(l)
            /\ Rising(rx[l])' = Rising(rx[l]) /\ Promise!Unread(l)' = Promise!Unread(l)
        BY <1>1, <1>6, <2>4, <3>3 DEF Queued, OnTheWay, Rising, Promise!Unread
      <4> QED BY <1>1, <1>2, <1>6, <2>4, <3>3, <4>1, <4>2 DEF LinkOf, DataInv, Before
    <3> QED BY <1>3, <1>8, <3>1, <3>2, <3>3
  <2> QED BY <2>1, <2>2, <2>3, <2>5, <2>6 DEF LinkOf, n
<1> QED BY <1>7, <1>8

\* The reader dies with what it held, which is later than all that its stream still has queued.
LEMMA ReaderEndsOnward ==
  ASSUME TypeOK, NEW l \in Local, LinkOf(l), ReaderEnds
  PROVE  LinkOf(l)'
<1>1. /\ phase' = phase /\ requests' = requests /\ acked' = acked /\ taken' = taken /\ eof' = eof
      /\ gaveUp' = gaveUp /\ streams' = streams /\ device' = device /\ link' = link
  BY ReaderSteps DEF Reader
<1>2. /\ toHost' = toHost /\ toDevice' = toDevice /\ tx' = tx /\ waiters' = waiters /\ ack' = ack
      /\ rx' = rx /\ lost' = lost /\ reader.at # "dead" /\ reader'.at = "dead"
  BY DEF ReaderEnds, tables, wires, history
<1>3. SameCall(l) /\ SameSocket(l) /\ SameWire(l) /\ SameHost(l)
  <2>1. SameWire(l) /\ SameHost(l) BY <1>1, <1>2, WireStays, HostStays DEF device
  <2> QED BY <1>1, <1>2, <2>1 DEF SameCall, SameSocket, device
<1>4. RequestInv(l)'
  BY <1>3, RequestFrame DEF LinkOf, RequestInv, SameCall, SameSocket, SameWire
<1>5. EndInv(l)'
  BY <1>3, EndFrame DEF LinkOf, SameCall, SameSocket, SameWire, SameHost
<1>6. WaitInv(l)'
  BY <1>3, WaitFrame DEF LinkOf, SameCall, SameSocket, SameWire, SameHost, HasRequest
<1>7. DataInv(l)'
  <2>1. Held(l)' = {} /\ Queued(l)' = Queued(l) /\ Payloads(l)' = Payloads(l) /\ Ordered(l)'
    BY <1>2, <1>3 DEF Held, Queued, SameHost, LinkOf, DataInv
  <2>2. OnTheWay(l) = Held(l) \cup OnTheWay(l)'
    BY <2>1 DEF OnTheWay
  <2>3. Rising(rx[l])' = Rising(rx[l]) /\ Promise!Unread(l)' = Promise!Unread(l)
    BY <1>1, <1>2, <1>3 DEF Rising, Promise!Unread, SameSocket
  <2>4. \A n \in Held(l) : \A q \in Queued(l) : q < n
    BY DEF LinkOf, DataInv, Before
  <2> QED BY <1>1, <1>2, <1>3, <2>1, <2>2, <2>3, <2>4 DEF LinkOf, DataInv, Before, SameSocket
<1> QED BY <1>4, <1>5, <1>6, <1>7 DEF LinkOf

\* What adbd and the link never touch: everything the host keeps of a stream.
LEMMA DeviceSteps ==
  ASSUME NEW m \in Local, NEW l \in Local,
         AdbdReads \/ LinkFails \/ AdbdAnswers(m) \/ AdbdSends(m) \/ AdbdCloses(m)
  PROVE  SameCall(l) /\ SameData(l)
<1>1. /\ caller' = caller /\ tables' = tables /\ rx' = rx /\ reader' = reader /\ history' = history
  <2>1. CASE AdbdTakesHeader BY <2>1 DEF AdbdTakesHeader
  <2>2. CASE AdbdTakesPayload BY <2>2 DEF AdbdTakesPayload
  <2>3. CASE AdbdRejects \/ LinkFails BY <2>3 DEF AdbdRejects, LinkFails, Disconnect
  <2>4. CASE AdbdAnswers(m) BY <2>4 DEF AdbdAnswers
  <2>5. CASE AdbdSends(m) BY <2>5 DEF AdbdSends
  <2>6. CASE AdbdCloses(m) BY <2>6 DEF AdbdCloses
  <2> QED BY <2>1, <2>2, <2>3, <2>4, <2>5, <2>6 DEF AdbdReads
<1> QED BY <1>1 DEF SameCall, SameData, Held, caller, tables, history

\* The one request of a stream that is under way is gone when adbd has taken it.
LEMMA RequestTaken ==
  ASSUME TypeOK, TypeOK', NEW l \in Local, OneRequest(l), toDevice # <<>>,
         toDevice' = Tail(toDevice), ~IsRequest(expect', l),
         IsRequest(Head(toDevice), l) \/ IsRequest(expect, l)
  PROVE  HasRequest(l) /\ ~HasRequest(l)' /\ ~HasOpen(l)' /\ ~HasWrite(l)' /\ OneRequest(l)'
<1>1. NoRequest(l)' /\ ~NoRequest(l) /\ OneRequest(l)'
  BY DeviceReads
<1>2. expect \in Transfer /\ expect' \in Transfer
  BY DEF TypeOK, DeviceTypes
<1>3. ~HasRequest(l)' /\ HasRequest(l)
  <2>1. NoRequest(l)' <=> ~HasRequest(l)'
    <3>1. \A t : IsRequest(t, l) <=> IsOpen(t, l) \/ IsWrite(t, l)
      BY DEF IsRequest, IsOpen, IsWrite
    <3> QED BY <3>1 DEF NoRequest, HasRequest, HasOpen, HasWrite, Wire
  <2> QED BY <1>1, <1>2, <2>1, RequestUnderWay
<1> QED BY <1>1, <1>3 DEF HasRequest

\* adbd accepts the request: its answer is owed, and no CLSE of the stream can be about.
LEMMA AcceptOnward ==
  ASSUME TypeOK, NEW l \in Local, LinkOf(l), SameCall(l), SameData(l), SameHost(l),
         HasRequest(l), ~HasRequest(l)', ~HasOpen(l)', ~HasWrite(l)', OneRequest(l)',
         got'[l] = got[l] + 1, sent'[l] = sent[l], link' = link, l \in owes',
         socket'[l] = "open", socket[l] = "open" \/ HasOpen(l),
         HasClose(l)' <=> HasClose(l), WholeClose(l) => WholeClose(l)'
  PROVE  LinkOf(l)'
<1>1. got[l] \in Nat /\ requests[l] \in Nat
  BY DEF TypeOK, DeviceTypes, HistoryTypes
<1>2. ~Shut(l) BY DEF Shut
<1>3. RequestInv(l)'
  BY <1>1 DEF LinkOf, RequestInv, SameCall
<1>4. EndInv(l)'
  BY <1>2 DEF LinkOf, EndInv, SameCall, SameHost, WholeClose
<1>5. WaitInv(l)'
  BY DEF LinkOf, WaitInv, SameCall
<1>6. DataInv(l)'
  BY DataFrame DEF LinkOf, SameCall, SameHost, DataInv
<1> QED BY <1>3, <1>4, <1>5, <1>6 DEF LinkOf

\* adbd throws a packet of a stream away that has no socket any more.
LEMMA DropOnward ==
  ASSUME NEW l \in Local, LinkOf(l), SameCall(l), SameData(l), SameHost(l), SameSocket(l),
         socket[l] # "open", HasOpen(l)' => HasOpen(l), HasWrite(l)' => HasWrite(l), OneRequest(l)',
         HasRequest(l) => HasRequest(l)' \/ socket[l] = "closed", WholeClose(l) => WholeClose(l)'
  PROVE  LinkOf(l)'
<1>1. RequestInv(l)'
  BY RequestFrame DEF LinkOf, SameCall, SameSocket
<1>2. EndInv(l)'
  BY EndFrame DEF LinkOf, SameCall, SameSocket, SameHost
<1>3. WaitInv(l)'
  BY WaitFrame DEF LinkOf, SameCall, SameSocket, SameHost
<1>4. DataInv(l)'
  BY DataFrame DEF LinkOf, SameCall, SameSocket, SameHost, DataInv
<1> QED BY <1>1, <1>2, <1>3, <1>4 DEF LinkOf

\* adbd posts the CLSE of a stream that has no socket and will not get one.
LEMMA CloseOnward ==
  ASSUME TypeOK, NEW l \in Local, LinkOf(l), SameCall(l), SameData(l),
         toHost' = Append(toHost, Reply("CLSE", l, 0)),
         got'[l] = got[l], sent'[l] = sent[l], link' = link,
         socket'[l] = socket[l] \/ socket'[l] = "closed", socket'[l] # "open",
         ~HasOpen(l)', HasWrite(l)' => HasWrite(l), OneRequest(l)', phase[l] \notin Unasked,
         WholeClose(l) => WholeClose(l)'
  PROVE  LinkOf(l)'
<1>1. Reply("CLSE", l, 0) \in Packet BY PacketTypes
<1>2. PICK p \in Packet : p = Reply("CLSE", l, 0) /\ toHost' = Append(toHost, p)
  BY <1>1
<1>3. IsClse(p, l) /\ ~IsWrte(p, l) BY <1>2 DEF IsClse, IsWrte, Reply
<1>4. Posted' = Posted \cup {p} /\ Ordered(l)'
  BY <1>2, <1>3, PostedAppended, OrderedAppended DEF LinkOf, DataInv
<1>5. HasClse(l)' /\ Payloads(l)' = Payloads(l)
  BY <1>3, <1>4 DEF HasClse, Payloads
<1>6. Shut(l)' BY DEF Shut, SameCall
<1>7. RequestInv(l)'
  BY DEF LinkOf, RequestInv, SameCall, HasRequest, Unasked
<1>8. EndInv(l)'
  BY <1>6 DEF LinkOf, EndInv, SameCall, WholeClose
<1>9. WaitInv(l)'
  BY <1>5 DEF LinkOf, WaitInv, SameCall
<1>10. DataInv(l)'
  BY <1>4, <1>5, DataFrame DEF LinkOf, SameCall
<1> QED BY <1>7, <1>8, <1>9, <1>10 DEF LinkOf

\* adbd takes a header.
LEMMA TakesHeaderOnward ==
  ASSUME TypeOK, TypeOK', NEW l \in Local, LinkOf(l), AdbdTakesHeader
  PROVE  LinkOf(l)'
<1> DEFINE h == Head(toDevice)
           k == Head(toDevice).local
<1>1. SameCall(l) /\ SameData(l) BY DeviceSteps DEF AdbdReads
<1>2. /\ toDevice # <<>> /\ toDevice' = Tail(toDevice) /\ link' = link /\ sent' = sent
      /\ ~PayloadDue /\ expect' \in {expect, h}
  BY DEF AdbdTakesHeader
<1>3. h \in Transfer /\ k \in Local
  <2>1. h \in Transfer BY <1>2, HeadTail DEF TypeOK, WiresTypes
  <2> QED BY <2>1 DEF Transfer
<1>4. /\ socket \in [Local -> {"none", "open", "closed"}] /\ got \in [Local -> Nat]
  BY DEF TypeOK, DeviceTypes
<1>5. \A j : ~IsRequest(expect, j) BY <1>2 DEF PayloadDue, IsRequest
<1>6. Wire = {h} \cup Wire' BY <1>2, WireTaken
<1>7. RequestInv(l) /\ EndInv(l) /\ OneRequest(l) /\ WholeClose(l)
  BY DEF LinkOf, RequestInv, EndInv, WholeClose
<1>8. WholeClose(l)' BY <1>6, <1>7 DEF WholeClose
<1>9. CASE k # l
  <2>1. SameWire(l)
    <3>1. ~IsClose(h, l) /\ ~IsRequest(h, l) BY <1>9 DEF IsClose, IsRequest
    <3> QED BY <1>2, <1>5, <3>1, WireLoses
  <2>2. SameSocket(l)
    BY <1>2, <1>3, <1>4, <1>9 DEF AdbdTakesHeader, Accept, SameSocket
  <2>3. SameHost(l)
    <3>1. Reply("CLSE", k, 0) \in Packet /\ Reply("CLSE", k, 0).local # l
      BY <1>3, <1>9, PacketTypes DEF Reply
    <3>2. toHost' = toHost \/ toHost' = Append(toHost, Reply("CLSE", k, 0))
      BY DEF AdbdTakesHeader, Post
    <3> QED BY <3>1, <3>2, HostStays, HostGains
  <2> QED BY <1>1, <2>1, <2>2, <2>3, Aside
<1>10. CASE k = l
  <2>1. CASE h.more /\ expect' = h /\ UNCHANGED <<toHost, socket, owes, got>>
    <3>1. ~IsClose(h, l) BY <1>6, <1>7, <2>1 DEF WholeClose
    <3>2. SameWire(l) BY <1>2, <1>5, <2>1, <3>1, WireLoses
    <3>3. SameSocket(l) /\ SameHost(l) BY <1>2, <2>1, HostStays DEF SameSocket
    <3> QED BY <1>1, <3>2, <3>3, Aside
  <2>2. CASE /\ h.part = "header" /\ h.command = "WRTE" /\ socket[l] = "open" /\ Accept(h)
             /\ UNCHANGED <<toHost, expect, socket>>
    <3>1. IsRequest(h, l) /\ ~IsClose(h, l) BY <1>10, <2>2 DEF IsRequest, IsClose
    <3>2. HasRequest(l) /\ ~HasRequest(l)' /\ ~HasOpen(l)' /\ ~HasWrite(l)' /\ OneRequest(l)'
      BY <1>2, <1>5, <1>7, <2>2, <3>1, RequestTaken
    <3>3. (HasClose(l)' <=> HasClose(l)) /\ SameHost(l)
      BY <1>6, <2>2, <3>1, HostStays DEF HasClose
    <3>4. got'[l] = got[l] + 1 /\ l \in owes'
      BY <1>3, <1>4, <1>10, <2>2 DEF Accept
    <3> QED BY <1>1, <1>2, <1>8, <2>2, <3>2, <3>3, <3>4, AcceptOnward
  <2>3. CASE h.command = "OKAY" /\ UNCHANGED <<toHost, expect, socket, owes, got>>
    <3>1. ~IsClose(h, l) /\ ~IsRequest(h, l) BY <2>3 DEF IsClose, IsRequest
    <3>2. SameWire(l) BY <1>2, <1>5, <2>3, <3>1, WireLoses
    <3>3. SameSocket(l) /\ SameHost(l) BY <1>2, <2>3, HostStays DEF SameSocket
    <3> QED BY <1>1, <3>2, <3>3, Aside
  <2>4. CASE /\ h.command = "CLSE" /\ socket[l] = "open"
             /\ socket' = [socket EXCEPT ![l] = "closed"]
             /\ toHost' = Append(toHost, Reply("CLSE", l, 0)) /\ UNCHANGED <<expect, got>>
    <3>1. ~IsRequest(h, l) BY <2>4 DEF IsRequest
    <3>2. OneRequest(l)' BY <1>2, <1>7, <2>4, DeviceReads
    <3>3. (HasOpen(l)' => HasOpen(l)) /\ (HasWrite(l)' => HasWrite(l))
      BY <1>6, <2>4 DEF HasOpen, HasWrite
    <3>4. ~HasOpen(l)' /\ phase[l] \notin Unasked
      BY <1>7, <2>4, <3>3 DEF RequestInv
    <3> QED BY <1>1, <1>2, <1>4, <1>8, <2>4, <3>2, <3>3, <3>4, CloseOnward
  <2>5. CASE /\ h.part = "header" /\ h.command \in {"WRTE", "CLSE"} /\ socket[l] # "open"
             /\ UNCHANGED <<toHost, expect, socket, owes, got>>
    <3>1. SameSocket(l) /\ SameHost(l) BY <1>2, <2>5, HostStays DEF SameSocket
    <3>2. (HasOpen(l)' => HasOpen(l)) /\ (HasWrite(l)' => HasWrite(l))
      BY <1>6, <2>5 DEF HasOpen, HasWrite
    <3>3. OneRequest(l)' BY <1>2, <1>7, <2>5, DeviceReads
    <3>4. HasRequest(l) => HasRequest(l)' \/ socket[l] = "closed"
      <4>1. CASE IsRequest(h, l)
        <5>1. IsWrite(h, l) BY <2>5, <4>1 DEF IsWrite, IsRequest
        <5>2. HasWrite(l) BY <1>6, <5>1 DEF HasWrite
        <5> QED BY <1>4, <1>7, <2>5, <5>2 DEF RequestInv
      <4>2. CASE ~IsRequest(h, l)
        <5>1. ~IsOpen(h, l) /\ ~IsWrite(h, l) BY <4>2 DEF IsOpen, IsWrite
        <5> QED BY <1>6, <2>5, <5>1 DEF HasRequest, HasOpen, HasWrite
      <4> QED BY <4>1, <4>2
    <3> QED BY <1>1, <1>8, <2>5, <3>1, <3>2, <3>3, <3>4, DropOnward
  <2> QED BY <1>10, <2>1, <2>2, <2>3, <2>4, <2>5 DEF AdbdTakesHeader, Post
<1> QED BY <1>9, <1>10

\* adbd takes the payload of the header it has read.
LEMMA TakesPayloadOnward ==
  ASSUME TypeOK, TypeOK', NEW l \in Local, LinkOf(l), AdbdTakesPayload
  PROVE  LinkOf(l)'
<1> DEFINE k == expect.local
<1>1. SameCall(l) /\ SameData(l) BY DeviceSteps DEF AdbdReads
<1>2. /\ toDevice # <<>> /\ toDevice' = Tail(toDevice) /\ link' = link /\ sent' = sent
      /\ Head(toDevice).part = "payload" /\ expect.part = "header" /\ expect' = NoHeader
  BY DEF AdbdTakesPayload, PayloadDue
<1>3. k \in Local /\ socket \in [Local -> {"none", "open", "closed"}] /\ got \in [Local -> Nat]
  BY DEF TypeOK, DeviceTypes, Transfer
<1>4. \A j : ~IsRequest(expect', j) /\ ~IsRequest(Head(toDevice), j) /\ ~IsClose(Head(toDevice), j)
  BY <1>2 DEF NoHeader, IsRequest, IsClose
<1>5. Wire = {Head(toDevice)} \cup Wire' BY <1>2, WireTaken
<1>6. RequestInv(l) /\ EndInv(l) /\ OneRequest(l) /\ WholeClose(l)
  BY DEF LinkOf, RequestInv, EndInv, WholeClose
<1>7. WholeClose(l)' /\ (HasClose(l)' <=> HasClose(l))
  BY <1>4, <1>5, <1>6 DEF WholeClose, HasClose
<1>8. CASE k # l
  <2>1. SameWire(l)
    <3>1. ~IsRequest(expect, l) BY <1>8 DEF IsRequest
    <3> QED BY <1>2, <1>4, <3>1, WireLoses
  <2>2. SameSocket(l)
    BY <1>2, <1>3, <1>8 DEF AdbdTakesPayload, Accept, SameSocket
  <2>3. SameHost(l)
    <3>1. Reply("CLSE", k, 0) \in Packet /\ Reply("CLSE", k, 0).local # l
      BY <1>3, <1>8, PacketTypes DEF Reply
    <3>2. toHost' = toHost \/ toHost' = Append(toHost, Reply("CLSE", k, 0))
      BY DEF AdbdTakesPayload, Post
    <3> QED BY <3>1, <3>2, HostStays, HostGains
  <2> QED BY <1>1, <2>1, <2>2, <2>3, Aside
<1>9. CASE k = l
  <2>1. expect.command \in {"OPEN", "WRTE"} BY DEF AdbdTakesPayload
  <2>2. IsRequest(expect, l) BY <1>2, <1>9, <2>1 DEF IsRequest
  <2>3. HasRequest(l) /\ ~HasRequest(l)' /\ ~HasOpen(l)' /\ ~HasWrite(l)' /\ OneRequest(l)'
    BY <1>2, <1>4, <1>6, <2>2, RequestTaken
  <2>4. /\ expect.command = "OPEN" => HasOpen(l) /\ socket[l] = "none"
        /\ expect.command = "WRTE" => HasWrite(l) /\ socket[l] # "none"
        /\ phase[l] \notin Unasked
    BY <1>6, <2>2, <2>3 DEF IsOpen, IsWrite, HasOpen, HasWrite, RequestInv
  <2>5. CASE /\ Accept(expect) /\ UNCHANGED toHost
             /\ \/ expect.command = "OPEN" /\ socket' = [socket EXCEPT ![l] = "open"]
                \/ expect.command = "WRTE" /\ socket[l] = "open" /\ UNCHANGED socket
    <3>1. got'[l] = got[l] + 1 /\ l \in owes' /\ SameHost(l)
      BY <1>3, <1>9, <2>5, HostStays DEF Accept
    <3>2. socket'[l] = "open" /\ (socket[l] = "open" \/ HasOpen(l))
      BY <1>3, <2>4, <2>5
    <3> QED BY <1>1, <1>2, <1>7, <2>3, <3>1, <3>2, AcceptOnward
  <2>6. CASE /\ expect.command = "OPEN" /\ toHost' = Append(toHost, Reply("CLSE", l, 0))
             /\ UNCHANGED <<socket, owes, got>>
    BY <1>1, <1>2, <1>7, <2>3, <2>4, <2>6, CloseOnward
  <2>7. CASE /\ expect.command = "WRTE" /\ socket[l] # "open"
             /\ UNCHANGED <<toHost, socket, owes, got>>
    <3>1. SameSocket(l) /\ SameHost(l) BY <1>2, <2>7, HostStays DEF SameSocket
    <3>2. socket[l] = "closed" BY <1>3, <2>4, <2>7
    <3> QED BY <1>1, <1>7, <2>3, <2>7, <3>1, <3>2, DropOnward
  <2> QED BY <1>9, <2>5, <2>6, <2>7 DEF AdbdTakesPayload, Post
<1> QED BY <1>8, <1>9

\* The connection goes, and with it every socket and every transfer on its way to adbd.
LEMMA DisconnectOnward ==
  ASSUME TypeOK, NEW l \in Local, LinkOf(l), AdbdRejects \/ LinkFails
  PROVE  LinkOf(l)'
<1>1. SameCall(l) /\ SameData(l) BY DeviceSteps DEF AdbdReads
<1>2. /\ link' = "down" /\ toDevice' = <<>> /\ expect' = NoHeader /\ toHost' = toHost
      /\ sent' = sent /\ got' = got
      /\ socket' = [j \in Local |-> IF socket[j] = "open" THEN "closed" ELSE socket[j]]
  BY DEF AdbdRejects, LinkFails, Disconnect
<1>3. socket'[l] = IF socket[l] = "open" THEN "closed" ELSE socket[l]
  BY <1>2
<1>4. Wire' = {} /\ OneRequest(l)'
  BY <1>2 DEF Wire, OneRequest
<1>5. ~HasOpen(l)' /\ ~HasWrite(l)' /\ WholeClose(l)'
  BY <1>2, <1>4 DEF HasOpen, HasWrite, WholeClose, IsOpen, IsWrite, IsRequest, NoHeader
<1>6. SameHost(l) BY <1>2, HostStays
<1>7. RequestInv(l)'
  BY <1>1, <1>2, <1>3, <1>4, <1>5, RequestFrame DEF LinkOf, SameCall
<1>8. EndInv(l)'
  BY <1>1, <1>2, <1>3, <1>5, <1>6, EndFrame DEF LinkOf, SameCall, SameHost
<1>9. WaitInv(l)'
  BY <1>1, <1>2 DEF LinkOf, WaitInv, SameCall
<1>10. DataInv(l)'
  BY <1>1, <1>2, <1>6, DataFrame DEF LinkOf, SameCall, SameHost, DataInv
<1> QED BY <1>7, <1>8, <1>9, <1>10 DEF LinkOf

\* adbd answers a request it owes an answer.
LEMMA AnswersOnward ==
  ASSUME TypeOK, NEW l \in Local, LinkOf(l), NEW m \in Local, AdbdAnswers(m)
  PROVE  LinkOf(l)'
<1>1. SameCall(l) /\ SameData(l) BY DeviceSteps
<1>2. /\ toDevice' = toDevice /\ expect' = expect /\ link' = link /\ sent' = sent /\ got' = got
      /\ socket' = socket /\ owes' = owes \ {m} /\ toHost' = Append(toHost, Reply("OKAY", m, 0))
  BY DEF AdbdAnswers, Post
<1>3. PICK p \in Packet : p = Reply("OKAY", m, 0) /\ toHost' = Append(toHost, p)
  BY <1>2, PacketTypes
<1>4. p.local = m /\ p.command = "OKAY" BY <1>3 DEF Reply
<1>5. SameWire(l) BY <1>2, WireStays
<1>6. CASE m # l
  <2>1. SameHost(l) BY <1>3, <1>4, <1>6, HostGains
  <2>2. SameSocket(l) BY <1>2, <1>6 DEF SameSocket
  <2> QED BY <1>1, <1>5, <2>1, <2>2, Aside
<1>7. CASE m = l
  <2>1. Posted' = Posted \cup {p} BY <1>3, PostedAppended
  <2>2. IsOkay(p, l) /\ ~IsClse(p, l) /\ ~IsWrte(p, l)
    BY <1>4, <1>7 DEF IsOkay, IsClse, IsWrte
  <2>3. /\ HasOkay(l)' /\ (HasClse(l)' <=> HasClse(l)) /\ Payloads(l)' = Payloads(l)
    BY <2>1, <2>2 DEF HasOkay, HasClse, Payloads
  <2>4. Ordered(l)' BY <1>3, <2>2, OrderedAppended DEF LinkOf, DataInv
  <2>5. RequestInv(l)'
    BY <1>1, <1>2, <1>5, RequestFrame DEF LinkOf, RequestInv, SameCall, SameWire
  <2>6. EndInv(l)'
    BY <1>1, <1>2, <1>5, <2>3, EndFrame DEF LinkOf, SameCall, SameWire
  <2>7. WaitInv(l)'
    BY <1>1, <1>2, <2>3, WaitFrame DEF LinkOf, SameCall
  <2>8. DataInv(l)'
    BY <1>1, <1>2, <2>3, <2>4, DataFrame DEF LinkOf, SameCall
  <2> QED BY <2>5, <2>6, <2>7, <2>8 DEF LinkOf
<1> QED BY <1>6, <1>7

\* adbd sends the next payload on an open socket: its number is above all that went before, no
\* CLSE is about, and the owner's channel is open.
LEMMA SendsOnward ==
  ASSUME TypeOK, NEW l \in Local, LinkOf(l), NEW m \in Local, AdbdSends(m)
  PROVE  LinkOf(l)' /\ (m = l => l \notin eof)
<1>1. SameCall(l) /\ SameData(l) BY DeviceSteps
<1>2. /\ toDevice' = toDevice /\ expect' = expect /\ link' = link /\ got' = got /\ owes' = owes
      /\ socket' = socket /\ socket[m] = "open" /\ sent' = [sent EXCEPT ![m] = @ + 1]
      /\ toHost' = Append(toHost, Reply("WRTE", m, sent[m] + 1))
  BY DEF AdbdSends, Post, Opened
<1>3. sent \in [Local -> Nat] BY DEF TypeOK, DeviceTypes
<1>4. PICK p \in Packet : p = Reply("WRTE", m, sent[m] + 1) /\ toHost' = Append(toHost, p)
  <2>1. sent[m] + 1 \in Nat BY <1>3
  <2> QED BY <1>2, <2>1, PacketTypes
<1>5. p.local = m /\ p.command = "WRTE" /\ p.n = sent[m] + 1 BY <1>4 DEF Reply
<1>6. SameWire(l) BY <1>2, WireStays
<1>7. CASE m # l
  <2>1. SameHost(l) BY <1>4, <1>5, <1>7, HostGains
  <2>2. SameSocket(l) BY <1>2, <1>3, <1>7 DEF SameSocket
  <2> QED BY <1>1, <1>6, <1>7, <2>1, <2>2, Aside
<1>8. CASE m = l
  <2> DEFINE n == sent[l] + 1
  <2>1. Posted' = Posted \cup {p} BY <1>4, PostedAppended
  <2>2. ~IsOkay(p, l) /\ ~IsClse(p, l) /\ IsWrte(p, l) /\ p.n = n
    BY <1>5, <1>8 DEF IsOkay, IsClse, IsWrte
  <2>3. ~HasClse(l) /\ l \notin eof /\ (l \in streams => l \in tx)
    BY <1>2, <1>8 DEF LinkOf, EndInv, Shut
  <2>4. /\ (HasOkay(l)' <=> HasOkay(l)) /\ (HasClse(l)' <=> HasClse(l))
        /\ Payloads(l)' = Payloads(l) \cup {n}
    BY <2>1, <2>2 DEF HasOkay, HasClse, Payloads
  <2>5. sent'[l] = n /\ n \in Nat /\ sent[l] \in Nat BY <1>2, <1>3, <1>8
  <2>6. \A q \in OnTheWay(l) : q < n /\ q \in Nat
    BY <2>5 DEF LinkOf, DataInv, Promise!Unread
  <2>7. Ordered(l)'
    <3>1. \A q \in Payloads(l) : q < p.n BY <2>2, <2>6 DEF OnTheWay
    <3> QED BY <1>4, <2>3, <3>1, OrderedAppended DEF LinkOf, DataInv
  <2>8. RequestInv(l)'
    BY <1>1, <1>2, <1>6, <1>8, RequestFrame DEF LinkOf, RequestInv, SameCall, SameWire
  <2>9. EndInv(l)'
    BY <1>1, <1>2, <1>6, <2>4, EndFrame DEF LinkOf, SameCall, SameWire
  <2>10. WaitInv(l)'
    BY <1>1, <1>2, <1>6, <2>4, WaitFrame DEF LinkOf, SameCall, SameWire, HasRequest
  <2>11. DataInv(l)'
    <3>1. /\ Held(l)' = Held(l) /\ Queued(l)' = Queued(l) /\ OnTheWay(l)' = OnTheWay(l) \cup {n}
          /\ Rising(rx[l])' = Rising(rx[l])
      BY <1>1, <2>4 DEF SameData, Queued, OnTheWay, Rising
    <3>2. Promise!Unread(l)' = Promise!Unread(l) \cup {n} /\ taken'[l] \cup lost'[l] \subseteq 1..n
      <4>1. taken'[l] = taken[l] /\ lost'[l] = lost[l] /\ taken[l] \cup lost[l] \subseteq 1..sent[l]
        BY <1>1 DEF SameData, LinkOf, DataInv
      <4>2. 1..n = 1..sent[l] \cup {n} /\ n \notin 1..sent[l]
        BY <2>5
      <4> QED BY <2>5, <4>1, <4>2 DEF Promise!Unread
    <3>3. /\ Before(Queued(l)', Held(l)') /\ Before(Queued(l)', Payloads(l)')
          /\ Before(Held(l)', Payloads(l)')
      BY <2>4, <2>6, <3>1 DEF LinkOf, DataInv, Before, OnTheWay
    <3>4. l \in streams' => \A q \in Promise!Unread(l)' :
            q \in OnTheWay(l)' \/ (reader'.at = "dead" /\ \A r \in Queued(l)' : r < q)
      BY <1>1, <3>1, <3>2 DEF LinkOf, DataInv, SameCall, SameData
    <3> HIDE DEF n
    <3>5. OnTheWay(l)' \subseteq Promise!Unread(l)'
      BY <3>1, <3>2 DEF LinkOf, DataInv
    <3> QED
      BY <1>1, <2>3, <2>5, <2>7, <3>1, <3>2, <3>3, <3>4, <3>5 DEF LinkOf, DataInv, Before, SameCall
  <2> QED BY <2>3, <2>8, <2>9, <2>10, <2>11 DEF LinkOf
<1> QED BY <1>7, <1>8

\* adbd closes its end.
LEMMA ClosesOnward ==
  ASSUME TypeOK, NEW l \in Local, LinkOf(l), NEW m \in Local, AdbdCloses(m)
  PROVE  LinkOf(l)'
<1>1. SameCall(l) /\ SameData(l) BY DeviceSteps
<1>2. /\ toDevice' = toDevice /\ expect' = expect /\ link' = link /\ got' = got /\ sent' = sent
      /\ socket[m] = "open" /\ socket' = [socket EXCEPT ![m] = "closed"] /\ owes' = owes \ {m}
      /\ toHost' = Append(toHost, Reply("CLSE", m, 0))
  BY DEF AdbdCloses, Post, Opened
<1>3. SameWire(l) BY <1>2, WireStays
<1>4. socket \in [Local -> {"none", "open", "closed"}] BY DEF TypeOK, DeviceTypes
<1>5. CASE m # l
  <2>1. Reply("CLSE", m, 0) \in Packet /\ Reply("CLSE", m, 0).local # l
    BY <1>5, PacketTypes DEF Reply
  <2>2. SameHost(l) BY <1>2, <2>1, HostGains
  <2>3. SameSocket(l) BY <1>2, <1>4, <1>5 DEF SameSocket
  <2> QED BY <1>1, <1>3, <2>2, <2>3, Aside
<1>6. CASE m = l
  <2>1. ~HasOpen(l) /\ phase[l] \notin Unasked /\ OneRequest(l)
    BY <1>2, <1>6 DEF LinkOf, RequestInv
  <2>2. ~HasOpen(l)' /\ (HasWrite(l)' => HasWrite(l)) /\ OneRequest(l)' /\ (WholeClose(l) => WholeClose(l)')
    BY <1>3, <2>1 DEF SameWire
  <2> QED BY <1>1, <1>2, <1>4, <1>6, <2>1, <2>2, CloseOnward
<1> QED BY <1>5, <1>6

\* At first nothing is under way.
LEMMA InitLink == Init => LinkInv
<1> SUFFICES ASSUME Init, NEW l \in Local PROVE LinkOf(l)
  BY DEF LinkInv, LinkOf
<1>1. /\ phase[l] = "none" /\ socket[l] = "none" /\ ack[l] = "none" /\ got[l] = 0 /\ sent[l] = 0
      /\ requests[l] = 0 /\ rx[l] = <<>> /\ taken[l] = {} /\ lost[l] = {} /\ toDevice = <<>>
      /\ toHost = <<>> /\ expect = NoHeader /\ reader.at = "read" /\ streams = {} /\ eof = {}
  BY DEF Init
<1>2. Wire = {} /\ Posted = {} /\ Len(toDevice) = 0 /\ Len(toHost) = 0
  BY <1>1 DEF Wire, Posted
<1>3. /\ ~HasOpen(l) /\ ~HasWrite(l) /\ ~HasClse(l) /\ ~HasRequest(l) /\ OneRequest(l)
      /\ WholeClose(l)
  BY <1>1, <1>2 DEF HasOpen, HasWrite, HasRequest, HasClse, OneRequest, IsOpen, IsWrite, IsRequest,
                    NoHeader, WholeClose
<1>4. /\ Queued(l) = {} /\ Held(l) = {} /\ Payloads(l) = {} /\ Promise!Unread(l) = {}
      /\ Rising(rx[l]) /\ Ordered(l)
  BY <1>1, <1>2 DEF Queued, Held, Payloads, Promise!Unread, Rising, Ordered
<1>5. RequestInv(l)
  BY <1>1, <1>3 DEF RequestInv, Established, Mapped
<1>6. EndInv(l)
  BY <1>1, <1>3 DEF EndInv, WholeClose
<1>7. WaitInv(l)
  BY <1>1 DEF WaitInv, Asking
<1>8. DataInv(l)
  BY <1>1, <1>4 DEF DataInv, OnTheWay, Before
<1> QED BY <1>5, <1>6, <1>7, <1>8 DEF LinkOf

\* Every step keeps the four parts of every stream.
LEMMA LinkStep ==
  ASSUME TypeOK, TypeOK', AnswerInv, LinkInv, [Next]_vars
  PROVE  LinkInv'
<1> SUFFICES ASSUME NEW l \in Local PROVE LinkOf(l)'
  BY DEF LinkInv, LinkOf
<1>1. LinkOf(l) /\ StreamInv(l) BY DEF LinkInv, LinkOf, AnswerInv
<1>2. ASSUME NEW m \in Local, Caller(m) PROVE LinkOf(l)'
  BY <1>1, <1>2, CallerAside, CallerOnward
<1>3. CASE Reader
  BY <1>1, <1>3, ReadOkayOnward, ReadWrteOnward, SendOkayOnward, DeliverOnward, ReadClseOnward,
     ReaderEndsOnward DEF Reader
<1>4. CASE AdbdReads \/ LinkFails
  BY <1>1, <1>4, TakesHeaderOnward, TakesPayloadOnward, DisconnectOnward DEF AdbdReads
<1>5. ASSUME NEW m \in Local, AdbdAnswers(m) \/ AdbdSends(m) \/ AdbdCloses(m) PROVE LinkOf(l)'
  BY <1>1, <1>5, AnswersOnward, SendsOnward, ClosesOnward
<1>6. CASE UNCHANGED vars
  <2>1. SameCall(l) /\ SameSocket(l) /\ SameData(l)
    BY <1>6 DEF vars, caller, tables, wires, device, history, SameCall, SameSocket, SameData, Held
  <2>2. SameWire(l) /\ SameHost(l)
    BY <1>6, WireStays, HostStays DEF vars, wires, device
  <2> QED BY <1>1, <2>1, <2>2, Aside
<1> QED BY <1>2, <1>3, <1>4, <1>5, <1>6 DEF Next

\* The three invariants together.
THEOREM LinkHolds == Spec => [](TypeOK /\ AnswerInv /\ LinkInv)
<1>1. TypeOK /\ TypeOK' /\ AnswerInv /\ LinkInv /\ [Next]_vars => LinkInv'
  BY LinkStep
<1> QED BY InitLink, AnswersMatch, <1>1, PTL DEF Spec

\* While the connection lives, no call of client.rs waits for an answer that has come and gone:
\* its request or the answer is under way, or adbd had closed the stream before.
THEOREM NoAnswerIsMissed == Spec => []NoAnswerMissed
<1>1. LinkInv => NoAnswerMissed
  <2> SUFFICES ASSUME LinkInv, NEW l \in Local, phase[l] \in {"open_wait", "write_wait"},
                      ack[l] = "none", link = "up"
               PROVE  InFlight(l) \/ socket[l] = "closed"
    BY DEF NoAnswerMissed
  <2>1. HasRequest(l) \/ l \in owes \/ HasOkay(l) \/ HasClse(l) \/ socket[l] = "closed"
    BY DEF LinkInv, LinkOf, WaitInv, Asking
  <2>2. HasRequest(l) => InFlight(l)
    BY DEF HasRequest, HasOpen, HasWrite, IsOpen, IsWrite, IsRequest, Wire, InFlight, PayloadDue
  <2>3. HasOkay(l) \/ HasClse(l) => InFlight(l)
    BY DEF HasOkay, HasClse, IsOkay, IsClse, Posted, InFlight
  <2> QED BY <2>1, <2>2, <2>3 DEF InFlight
<1> QED BY LinkHolds, <1>1, PTL

\* Of a stream whose owner is done with it adbd keeps a socket only when the OPEN timed out on
\* the host, or until the CLSE on its way arrives (close_stream and open_stream of client.rs).
THEOREM NoSocketIsOrphaned == Spec => []NoOrphanSocket
<1>1. LinkInv => NoOrphanSocket
  BY DEF LinkInv, LinkOf, EndInv, NoOrphanSocket, HasClose, IsClose, Wire
<1> QED BY LinkHolds, <1>1, PTL

------------------------------------------------------------------------------
(***************************************************************************)
(* A stream of AdbClient implements ByteStream: a call that issues a       *)
(* request, or returns Ok, is Request or ReturnOk; adbd takes a request in *)
(* Accept and sends in Send; a full channel loses in Lose; the owner takes *)
(* and is told Closed in Take and TellClosed. Every other step leaves what *)
(* ByteStream speaks of as it is.                                          *)
(***************************************************************************)

\* The steps of ByteStream that a call takes.
LEMMA CallerRefines ==
  ASSUME TypeOK, NEW l \in Local, StreamInv(l), LinkOf(l), Caller(l)
  PROVE  Promise!Next \/ UNCHANGED Promise!vars
<1> USE DEF At, Go, Return, NewWaiter, Issue, device
<1>1. CASE OpenStream(l) \/ Write(l)
  <2>1. Promise!Request(l) BY <1>1 DEF OpenStream, Write, Promise!Request
  <2> QED BY <2>1 DEF Promise!Next
<1>2. CASE OpenOk(l) \/ WriteAcked(l)
  <2>1. ack[l] = "okay" /\ phase[l] \in {"open_wait", "write_wait"}
    BY <1>2 DEF OpenOk, WriteAcked
  <2>2. got[l] = requests[l] BY <2>1 DEF StreamInv, Asked, Granted
  <2>3. Promise!ReturnOk(l)
    BY <1>2, <2>2 DEF OpenOk, WriteAcked, Promise!ReturnOk
  <2> QED BY <2>3 DEF Promise!Next
<1>3. CASE Read(l)
  <2>1. /\ taken' = [taken EXCEPT ![l] = @ \cup {Head(rx[l])}] /\ rx[l] # <<>>
        /\ UNCHANGED <<requests, got, acked, sent, lost, eof>>
    BY <1>3 DEF Read
  <2>2. /\ Head(rx[l]) \in Promise!Unread(l)
        /\ \A n \in Promise!Unread(l) : Head(rx[l]) <= n
    BY <1>3, ReadKeepsData
  <2>3. {m \in Promise!Unread(l) : m <= Head(rx[l])} = {Head(rx[l])}
    <3>1. Promise!Unread(l) \subseteq Nat BY DEF Promise!Unread, TypeOK, DeviceTypes
    <3>2. \A m \in Promise!Unread(l) : m <= Head(rx[l]) => m = Head(rx[l])
      BY <2>2, <3>1
    <3>3. Head(rx[l]) <= Head(rx[l]) BY <2>2, <3>1
    <3> QED BY <2>2, <3>2, <3>3
  <2>4. l \notin eof BY <2>1 DEF LinkOf, DataInv
  <2>5. Promise!Take(l) BY <2>1, <2>2, <2>3, <2>4 DEF Promise!Take
  <2> QED BY <2>5 DEF Promise!Next
<1>4. CASE ReadClosed(l)
  <2>1. l \in streams BY <1>4 DEF ReadClosed, LinkOf, RequestInv, Mapped
  <2>2. rx[l] = <<>> /\ l \notin tx BY <1>4, <2>1 DEF ReadClosed
  <2>3. Promise!Unread(l) = {} BY <2>1, <2>2 DEF LinkOf, DataInv, Queued
  <2>4. Promise!TellClosed(l) BY <1>4, <2>3 DEF ReadClosed, Promise!TellClosed
  <2> QED BY <2>4 DEF Promise!Next
<1>5. CASE \/ CloseStream(l) \/ SendHeader(l) \/ SendPayload(l) \/ SendFails(l) \/ OpenRefused(l)
           \/ OpenTimeout(l) \/ WriteClosed(l) \/ WriteTimeout(l) \/ CloseReturns(l)
  <2> USE DEF history, Promise!vars
  <2>1. CloseStream(l) => UNCHANGED Promise!vars BY DEF CloseStream
  <2>2. SendHeader(l) => UNCHANGED Promise!vars BY DEF SendHeader
  <2>3. SendPayload(l) => UNCHANGED Promise!vars BY DEF SendPayload
  <2>4. SendFails(l) => UNCHANGED Promise!vars BY DEF SendFails
  <2>5. OpenRefused(l) => UNCHANGED Promise!vars BY DEF OpenRefused
  <2>6. OpenTimeout(l) => UNCHANGED Promise!vars BY DEF OpenTimeout
  <2>7. WriteClosed(l) => UNCHANGED Promise!vars BY DEF WriteClosed
  <2>8. WriteTimeout(l) => UNCHANGED Promise!vars BY DEF WriteTimeout
  <2>9. CloseReturns(l) => UNCHANGED Promise!vars BY DEF CloseReturns
  <2> QED BY <1>5, <2>1, <2>2, <2>3, <2>4, <2>5, <2>6, <2>7, <2>8, <2>9
<1> QED BY <1>1, <1>2, <1>3, <1>4, <1>5 DEF Caller

\* The reader loses a payload on a full channel and does nothing else that ByteStream sees.
LEMMA ReaderRefines ==
  ASSUME TypeOK, LinkInv, Reader
  PROVE  Promise!Next \/ UNCHANGED Promise!vars
<1>1. /\ requests' = requests /\ acked' = acked /\ taken' = taken /\ eof' = eof
      /\ got' = got /\ sent' = sent
  BY ReaderSteps DEF device
<1>2. CASE Deliver
  <2> DEFINE k == reader.pkt.local
             n == reader.pkt.n
  <2>1. k \in Local /\ lost \in [Local -> SUBSET Nat]
    BY DEF TypeOK, ReaderTypes, Packet, HistoryTypes
  <2>2. CASE lost' = lost BY <1>1, <2>2 DEF Promise!vars
  <2>3. CASE lost' # lost
    <3>1. lost' = [lost EXCEPT ![k] = @ \cup {n}]
      BY <1>2, <2>3 DEF Deliver
    <3>2. lost'[k] # lost[k]
      BY <2>1, <2>3, <3>1
    <3>3. LinkOf(k) BY <2>1 DEF LinkInv, LinkOf
    <3>4. n \in Promise!Unread(k)
      BY <1>2, <2>1, <3>2, <3>3, DeliverOnward
    <3>5. {n} \in SUBSET Promise!Unread(k) BY <3>4
    <3>6. Promise!Lose(k) BY <1>1, <3>1, <3>5 DEF Promise!Lose
    <3> QED BY <2>1, <3>6 DEF Promise!Next
  <2> QED BY <2>2, <2>3
<1>3. CASE ReadOkay \/ ReadWrte \/ SendOkay \/ ReadClse \/ ReaderEnds
  <2>1. lost' = lost
    BY <1>3 DEF ReadOkay, ReadWrte, SendOkay, ReadClse, ReaderEnds, history
  <2> QED BY <1>1, <2>1 DEF Promise!vars
<1> QED BY <1>2, <1>3 DEF Reader

\* adbd takes each request once, before the owner issued the next, and sends to owners that
\* were not told Closed.
LEMMA DeviceRefines ==
  ASSUME TypeOK, LinkInv, NEW m \in Local,
         AdbdReads \/ LinkFails \/ AdbdAnswers(m) \/ AdbdSends(m) \/ AdbdCloses(m)
  PROVE  Promise!Next \/ UNCHANGED Promise!vars
<1> USE DEF history, Promise!vars
<1>0. got \in [Local -> Nat] /\ expect \in Transfer /\ \A j \in Local : RequestInv(j) /\ LinkOf(j)
  BY DEF TypeOK, DeviceTypes, LinkInv, LinkOf
<1>1. CASE AdbdTakesHeader
  <2> DEFINE h == Head(toDevice)
  <2>1. /\ UNCHANGED <<requests, acked, sent, lost, taken, eof>>
        /\ toDevice # <<>> /\ h.part = "header"
    BY <1>1 DEF AdbdTakesHeader
  <2>2. h \in Transfer /\ h \in Wire
    BY <2>1, HeadTail, WireTaken, <1>1 DEF AdbdTakesHeader, TypeOK, WiresTypes
  <2>3. CASE got' = got BY <2>1, <2>3
  <2>4. CASE got' # got
    <3>1. h.command = "WRTE" /\ got' = [got EXCEPT ![h.local] = @ + 1]
      BY <1>1, <2>4 DEF AdbdTakesHeader, Accept
    <3>2. h.local \in Local BY <2>2 DEF Transfer
    <3>3. HasRequest(h.local)
      BY <2>1, <2>2, <3>1 DEF HasRequest, HasWrite, IsWrite, IsRequest
    <3>4. got[h.local] < requests[h.local] BY <1>0, <3>2, <3>3 DEF RequestInv
    <3>5. Promise!Accept(h.local) BY <2>1, <3>1, <3>4 DEF Promise!Accept
    <3> QED BY <3>2, <3>5 DEF Promise!Next
  <2> QED BY <2>3, <2>4
<1>2. CASE AdbdTakesPayload
  <2> DEFINE k == expect.local
  <2>1. /\ UNCHANGED <<requests, acked, sent, lost, taken, eof>> /\ expect.part = "header"
    BY <1>2 DEF AdbdTakesPayload, PayloadDue
  <2>2. CASE got' = got BY <2>1, <2>2
  <2>3. CASE got' # got
    <3>1. expect.command \in {"OPEN", "WRTE"} /\ got' = [got EXCEPT ![k] = @ + 1]
      BY <1>2, <2>3 DEF AdbdTakesPayload, Accept
    <3>2. k \in Local BY <1>0 DEF Transfer
    <3>3. HasRequest(k)
      BY <2>1, <3>1 DEF HasRequest, HasOpen, HasWrite, IsOpen, IsWrite, IsRequest
    <3>4. got[k] < requests[k] BY <1>0, <3>2, <3>3 DEF RequestInv
    <3>5. Promise!Accept(k) BY <2>1, <3>1, <3>4 DEF Promise!Accept
    <3> QED BY <3>2, <3>5 DEF Promise!Next
  <2> QED BY <2>2, <2>3
<1>3. CASE AdbdSends(m)
  <2>1. m \notin eof BY <1>0, <1>3, SendsOnward
  <2>2. Promise!Send(m) BY <1>3, <2>1 DEF AdbdSends, Promise!Send
  <2> QED BY <2>2 DEF Promise!Next
<1>4. CASE AdbdRejects \/ LinkFails \/ AdbdAnswers(m) \/ AdbdCloses(m)
  BY <1>4 DEF AdbdRejects, LinkFails, Disconnect, AdbdAnswers, AdbdCloses
<1> QED BY <1>1, <1>2, <1>3, <1>4 DEF AdbdReads

\* A stream of the multiplexed connection is what Transport promises its owner (client.rs, the
\* whole of it after the handshake): adbd accepts each request once, in order and before it
\* returns Ok; payloads are read in order and each once; only a full channel loses one; and
\* Closed is told only when nothing is left to read.
THEOREM ImplementsStream == Spec => KeepsPromise
<1>1. Init => Promise!Init
  BY DEF Init, Promise!Init
<1>2. TypeOK /\ AnswerInv /\ LinkInv /\ [Next]_vars => [Promise!Next]_(Promise!vars)
  <2> SUFFICES ASSUME TypeOK, AnswerInv, LinkInv, [Next]_vars
               PROVE  Promise!Next \/ UNCHANGED Promise!vars
    OBVIOUS
  <2>1. ASSUME NEW l \in Local, Caller(l) PROVE Promise!Next \/ UNCHANGED Promise!vars
    <3>1. StreamInv(l) /\ LinkOf(l) BY DEF AnswerInv, LinkInv, LinkOf
    <3> QED BY <2>1, <3>1, CallerRefines
  <2>2. CASE Reader BY <2>2, ReaderRefines
  <2>3. CASE AdbdReads \/ LinkFails
    <3>1. 1 \in Local BY BoundsAssumption DEF Local
    <3> QED BY <2>3, <3>1, DeviceRefines
  <2>4. ASSUME NEW m \in Local, AdbdAnswers(m) \/ AdbdSends(m) \/ AdbdCloses(m)
        PROVE  Promise!Next \/ UNCHANGED Promise!vars
    BY <2>4, DeviceRefines
  <2>5. CASE UNCHANGED vars
    BY <2>5 DEF vars, device, history, Promise!vars
  <2> QED BY <2>1, <2>2, <2>3, <2>4, <2>5 DEF Next
<1> QED BY <1>1, <1>2, LinkHolds, PTL DEF Spec, KeepsPromise, Promise!Spec

=============================================================================
