---------------------------- MODULE DeployProofs ----------------------------
(***************************************************************************)
(* Proofs about Deploy and Connect: which device the connection leads to,  *)
(* when a phone prompts, and what is on the phone when the server is       *)
(* launched, for all sets of devices and all sizes of the files.           *)
(***************************************************************************)
EXTENDS Deploy, FiniteSetTheorems, TLAPS

(***************************************************************************)
(* The device.                                                             *)
(***************************************************************************)

\* How the target was chosen, by the link in use.
TargetInv ==
  /\ usb \subseteq Phones
  /\ via \in {"none", "usb", "tcp", "server"}
  /\ via = "usb" => asked # Address /\ Found(usb) = {target}
  /\ via = "tcp" => asked = Address /\ target = Address
  /\ via = "server" => asked # Address /\ target \in PickSerial(listed)
  /\ at \in {"start", "ask_server"} => via = "none"
  /\ at = "ask_server" => asked # Address

\* A set of phones with one member.
LEMMA OneFound ==
  ASSUME NEW bus \in SUBSET Phones, Cardinality(bus) = 1
  PROVE  \E d : bus = {d}
<1>1. IsFiniteSet(bus)
  BY FS_Subset, ConnectAssumption
<1> QED
  BY <1>1, FS_Singleton

\* The adb server's answer leaves the one phone as it was, whatever else it lists.
LEMMA PhonePicked ==
  ASSUME NEW list, NEW d \in Phones, asked = NoSerial, d \in Online(list),
         NEW t \in PickSerial(list)
  PROVE  t = d
<1> DEFINE hardware   == Online(list) \ Emulators
           candidates == IF hardware = {} THEN Online(list) ELSE hardware
<1>1. d \in hardware /\ candidates = hardware
  BY ConnectAssumption
<1>2. Cardinality(hardware) = 1 /\ t \in hardware
  BY <1>1 DEF PickSerial
<1>3. IsFiniteSet(hardware)
  <2>1. IsFiniteSet(Serials)
    BY ConnectAssumption, FS_Union DEF Serials
  <2>2. hardware \in SUBSET Serials
    BY DEF Online
  <2> QED
    BY <2>1, <2>2, FS_Subset
<1>4. PICK x : hardware = {x}
  BY <1>2, <1>3, FS_Singleton
<1> QED
  BY <1>1, <1>2, <1>4

\* Whatever was picked is one of the list, and the named one if there is a name.
LEMMA PickedIsListed ==
  ASSUME NEW list, NEW t \in PickSerial(list)
  PROVE  t \in Serials /\ (asked # NoSerial => t = asked)
BY DEF PickSerial, Online

\* The invariant is about the device that was meant.
LEMMA TargetIsRight == TargetInv => RightDevice
<1> SUFFICES ASSUME TargetInv, via # "none"
             PROVE  /\ asked # NoSerial => target = asked
                    /\ asked = NoSerial /\ Cardinality(usb) = 1
                         /\ (via = "server" => usb \subseteq Online(listed)) => target \in usb
  BY DEF RightDevice
<1>1. CASE via = "tcp"
  BY <1>1, ConnectAssumption DEF TargetInv
<1>2. CASE via = "usb"
  BY <1>2 DEF TargetInv, Found
<1>3. CASE via = "server"
  <2>1. asked # NoSerial => target = asked
    BY <1>3, PickedIsListed DEF TargetInv
  <2>2. ASSUME asked = NoSerial, Cardinality(usb) = 1, usb \subseteq Online(listed)
        PROVE  target \in usb
    <3>1. PICK d : usb = {d}
      BY <2>2, OneFound DEF TargetInv
    <3>2. d \in Phones /\ d \in Online(listed)
      BY <2>2, <3>1 DEF TargetInv
    <3>3. target = d
      BY <1>3, <2>2, <3>2, PhonePicked DEF TargetInv
    <3> QED
      BY <3>1, <3>3
  <2> QED
    BY <1>3, <2>1, <2>2
<1> QED
  BY <1>1, <1>2, <1>3 DEF TargetInv

(***************************************************************************)
(* The prompt.                                                             *)
(***************************************************************************)

\* A token of this connection.
New(p) == p.kind = "TOKEN" /\ ~p.old

NoneNew == \A i \in 1..Len(toHost) : ~New(toHost[i])

\* The one token on its way is the one adbd waits for.
OneNew ==
  \A i \in 1..Len(toHost) :
    New(toHost[i]) =>
      /\ toHost[i].token = token
      /\ \A j \in 1..Len(toHost) : New(toHost[j]) => j = i

\* As long as the key is trusted and no leftover token was taken, adbd gets one signature, of
\* the token it waits for: what is on its way is the CNXN, or the first token, or its signature.
PromptInv ==
  trusted /\ "TOKEN" \notin misled =>
    /\ ~prompted /\ adbd # "prompting" /\ at # "offer"
    /\ \/ toAdbd = <<>>
       \/ toAdbd = <<[kind |-> "CNXN", token |-> 0]>> /\ adbd = "offline" /\ ~signed /\ NoneNew
       \/ toAdbd = <<[kind |-> "SIGNATURE", token |-> token]>> /\ adbd = "asking" /\ NoneNew
    /\ NoneNew \/ (OneNew /\ toAdbd = <<>> /\ adbd = "asking" /\ ~signed)
    /\ at \in {"start", "hello"} => toAdbd = <<>> /\ adbd = "offline" /\ ~signed
    /\ at = "sign" => toAdbd = <<>> /\ adbd = "asking" /\ ~signed /\ hand = token /\ NoneNew

(***************************************************************************)
(* The files.                                                              *)
(***************************************************************************)

Good(f) == file[f] = "whole" /\ mode[f] = ModeOf(f)

\* The files of the steps before this one.
DoneInv == (step > 2 => Good("so")) /\ (step > 3 => Good("dex"))

\* The requests of a push that adbd has not worked off.
Queue == pipe \o todo

\* SEND comes first and DONE last; once SEND is worked off the file has its mode, unless the
\* push fails; and OKAY comes after everything else.
SyncInv ==
  /\ \A i \in 1..Len(Queue) :
       /\ Queue[i] = "SEND" => i = 1
       /\ Queue[i] = "DONE" => i = Len(Queue)
       /\ Queue[i] # "QUIT"
  /\ at = "writing" => todo # <<>>
  /\ at # "writing" => todo = <<>>
  /\ \/ Queue # <<>> /\ Queue[1] = "SEND"
     \/ failing
     \/ mode[Doing] = ModeOf(Doing)
  /\ reply # "output"
  /\ reply = "OKAY" => Queue = <<>> /\ Good(Doing)
  /\ status = "OKAY" => Queue = <<>> /\ Good(Doing)

StageInv ==
  /\ at \in {"writing", "status", "quit"} => Doing \in File /\ SyncInv
  /\ at = "draining" => Doing \in {"mkdir", "chmod"}

DeployInv == TypeOK /\ TargetInv /\ PromptInv /\ DoneInv /\ StageInv

------------------------------------------------------------------------------
(* The parts of the type invariant. *)

ConnectTyped == ConnectTypes /\ at \in Connecting \cup Deploying \cup Over

StreamTyped ==
  /\ step \in 1..5
  /\ todo \in Seq({"SEND", "DATA", "DONE"}) /\ pipe \in Seq({"SEND", "DATA", "DONE", "QUIT"})
  /\ reply \in {"none", "output", "OKAY", "FAIL"} /\ status \in {"none", "OKAY", "FAIL"}
  /\ prints \in Nat

PhoneTyped ==
  /\ failing \in BOOLEAN /\ running \subseteq Command
  /\ file \in [File -> {"old", "part", "whole"}] /\ mode \in [File -> {"read", "run"}]

LEMMA FiveSteps ==
  /\ Len(Steps) = 5
  /\ Steps[1] = "mkdir" /\ Steps[2] = "so" /\ Steps[3] = "dex" /\ Steps[4] = "chmod"
  /\ Steps[5] = "launch"
BY DEF Steps

\* The parts together, before and after a step.
LEMMA Whole ==
  /\ DeployInv <=>
       /\ ConnectTyped /\ StreamTyped /\ PhoneTyped
       /\ TargetInv /\ PromptInv /\ DoneInv /\ StageInv
  /\ DeployInv' <=>
       /\ ConnectTyped' /\ StreamTyped' /\ PhoneTyped'
       /\ TargetInv' /\ PromptInv' /\ DoneInv' /\ StageInv'
BY FiveSteps DEF DeployInv, TypeOK, ConnectTyped, StreamTyped, PhoneTyped

\* When each thing is done.
LEMMA WhatIsDoing ==
  ASSUME StreamTyped
  PROVE  /\ Doing \in File => step \in {2, 3}
         /\ step = 2 <=> Doing = "so"
         /\ step = 3 <=> Doing = "dex"
         /\ Doing \in {"mkdir", "chmod"} => step \in {1, 4}
         /\ Doing = "launch" => step = 5
         /\ Doing \in Command <=> Doing \notin File
BY FiveSteps DEF StreamTyped, Doing, File, Command

LEMMA InitInv == Init => DeployInv
<1> SUFFICES ASSUME Init PROVE DeployInv
  OBVIOUS
<1>1. /\ asked \in Serials \cup {NoSerial, Address} /\ usb = {}
      /\ listed = [d \in Serials |-> "absent"] /\ at = "start" /\ via = "none"
      /\ target = NoSerial /\ clock = "running" /\ signed = FALSE /\ hand = 0
      /\ toAdbd = <<>> /\ toHost = <<>> /\ adbd = "offline" /\ token = 0
      /\ trusted \in BOOLEAN /\ prompted = FALSE /\ misled = {}
  BY DEF Init, ConnectInit
<1>2. ConnectTyped
  <2>1. toAdbd \in Seq(ToAdbd) /\ toHost \in Seq(ToHost) /\ hand \in Token /\ token \in Token
    BY <1>1 DEF Token
  <2>2. signed \in BOOLEAN /\ prompted \in BOOLEAN
    BY <1>1
  <2>3. listed \in Listing
    BY <1>1 DEF Listing
  <2> QED
    BY <1>1, <2>1, <2>2, <2>3 DEF ConnectTyped, ConnectTypes, Connecting
<1>3. StreamTyped
  BY DEF Init, StreamTyped
<1>4. PhoneTyped
  <2>1. failing \in BOOLEAN /\ running \subseteq Command
    BY DEF Init
  <2>2. file \in [File -> {"old", "part", "whole"}] /\ mode \in [File -> {"read", "run"}]
    BY DEF Init
  <2> QED
    BY <2>1, <2>2 DEF PhoneTyped
<1>5. TargetInv
  BY <1>1 DEF TargetInv
<1>6. PromptInv
  BY <1>1 DEF PromptInv, NoneNew
<1>7. DoneInv /\ StageInv
  BY <1>1 DEF Init, DoneInv, StageInv
<1> QED
  BY <1>2, <1>3, <1>4, <1>5, <1>6, <1>7, Whole

------------------------------------------------------------------------------
(* Connecting. *)

\* A step of the connection does not touch the push, nor does it begin one.
LEMMA StreamAside ==
  ASSUME DeployInv, UNCHANGED <<step, stream, phone>>,
         at' = at \/ at' \in Connecting \cup {"connected", "failed"}
  PROVE  StreamTyped' /\ PhoneTyped' /\ DoneInv' /\ StageInv'
<1>1. StreamTyped' /\ PhoneTyped' /\ DoneInv'
  BY Whole DEF StreamTyped, PhoneTyped, DoneInv, Good, stream, phone
<1>2. StageInv'
  <2>1. CASE at' = at
    BY <2>1, Whole DEF StageInv, SyncInv, Queue, Good, Doing, stream, phone
  <2>2. CASE at' \in Connecting \cup {"connected", "failed"}
    BY <2>2 DEF StageInv, Connecting, Handshaking
  <2> QED
    BY <2>1, <2>2
<1> QED
  BY <1>1, <1>2

\* A step that leaves the choice of the device alone.
LEMMA TargetAside ==
  ASSUME DeployInv, UNCHANGED <<world, via, target>>, at' \notin {"start", "ask_server"}
  PROVE  TargetInv'
<1>1. UNCHANGED <<asked, usb, listed, via, target>>
  BY DEF world
<1>2. TargetInv
  BY Whole
<1> QED
  BY <1>1, <1>2 DEF TargetInv, Found, PickSerial, Online

LEMMA ConnectTcpKeeps ==
  ASSUME DeployInv, ConnectTcp, UNCHANGED <<step, stream, phone>>
  PROVE  DeployInv'
<1>0. ConnectTyped /\ TargetInv /\ PromptInv
  BY Whole
<1>1. /\ at = "start" /\ asked = Address
      /\ UNCHANGED <<world, handshake>>
      /\ \/ at' = "hello" /\ via' = "tcp" /\ target' = Address
         \/ at' = "failed" /\ UNCHANGED <<via, target>>
  BY DEF ConnectTcp, GiveUp
<1>2. UNCHANGED <<asked, usb, listed>>
  BY <1>1 DEF world
<1>3. ConnectTyped'
  BY <1>0, <1>1 DEF ConnectTyped, ConnectTypes, Connecting, Handshaking, Over, world, handshake, pipes
<1>4. TargetInv'
  BY <1>0, <1>1, <1>2 DEF TargetInv
<1>5. PromptInv'
  BY <1>0, <1>1 DEF PromptInv, NoneNew, OneNew, handshake, pipes
<1> QED
  BY <1>1, <1>3, <1>4, <1>5, StreamAside, Whole DEF Connecting, Handshaking

LEMMA OpenUsbKeeps ==
  ASSUME DeployInv, OpenUsb, UNCHANGED <<step, stream, phone>>
  PROVE  DeployInv'
<1>0. ConnectTyped /\ TargetInv /\ PromptInv
  BY Whole
<1>1. /\ at = "start" /\ asked # Address /\ usb' \subseteq Phones
      /\ UNCHANGED <<asked, listed, clock, signed, hand, toAdbd, adbd, token, trusted, prompted, misled>>
      /\ at' \in {"hello", "ask_server", "failed"}
      /\ via = "none"
  BY <1>0 DEF OpenUsb, GiveUp, TargetInv
<1>2. CASE /\ Cardinality(Found(usb')) = 1
           /\ at' = "hello" /\ via' = "usb" /\ target' \in Found(usb')
           /\ toHost' \in Leftovers
  <2>1. PICK k \in 0..MaxLeftover :
          toHost' \in [1..k -> {[kind |-> c, token |-> 0, old |-> TRUE] : c \in {"CNXN", "TOKEN", "stream"}}]
    BY <1>2 DEF Leftovers
  <2>2. {[kind |-> c, token |-> 0, old |-> TRUE] : c \in {"CNXN", "TOKEN", "stream"}} \subseteq ToHost
    <3>1. ASSUME NEW c \in {"CNXN", "TOKEN", "stream"}, NEW b \in BOOLEAN
          PROVE  [kind |-> c, token |-> 0, old |-> b] \in ToHost
      BY DEF ToHost, Token
    <3>2. \A c \in {"CNXN", "TOKEN", "stream"} : [kind |-> c, token |-> 0, old |-> TRUE] \in ToHost
      BY <3>1
    <3> QED
      BY <3>2, Zenon
  <2>3. toHost' \in Seq(ToHost) /\ Len(toHost') = k
    BY <2>1, <2>2, ConnectAssumption
  <2>4. \A i \in 1..Len(toHost') : toHost'[i].old = TRUE
    BY <2>1, <2>3
  <2>5. NoneNew'
    BY <2>4 DEF NoneNew, New
  <2>6. target' \in Serials
    BY <1>1, <1>2 DEF Found, Serials
  <2>7. ConnectTyped'
    BY <1>0, <1>1, <1>2, <2>3, <2>6 DEF ConnectTyped, ConnectTypes, Connecting, Handshaking
  <2>8. TargetInv'
    <3>1. IsFiniteSet(Found(usb'))
      <4>1. Found(usb') \in SUBSET Phones
        BY <1>1 DEF Found
      <4> QED
        BY <4>1, FS_Subset, ConnectAssumption
    <3>2. Found(usb') = {target'}
      BY <1>2, <3>1, FS_Singleton
    <3>3. Found(usb)' = {target'}
      BY <1>1, <3>2 DEF Found
    <3> QED
      BY <1>1, <1>2, <3>3 DEF TargetInv
  <2>9. PromptInv'
    BY <1>0, <1>1, <1>2, <2>5 DEF PromptInv
  <2> QED
    BY <1>1, <2>7, <2>8, <2>9, StreamAside, Whole DEF Connecting, Handshaking
<1>3. CASE at' \in {"ask_server", "failed"} /\ UNCHANGED <<via, target, toHost>>
  <2>1. ConnectTyped'
    BY <1>0, <1>1, <1>3 DEF ConnectTyped, ConnectTypes, Connecting, Handshaking, Over
  <2>2. TargetInv'
    BY <1>1, <1>3 DEF TargetInv
  <2>3. PromptInv'
    BY <1>0, <1>1, <1>3 DEF PromptInv, NoneNew, OneNew
  <2> QED
    BY <1>1, <2>1, <2>2, <2>3, StreamAside, Whole DEF Connecting, Handshaking
<1> QED
  BY <1>2, <1>3 DEF OpenUsb, GiveUp

LEMMA AskServerKeeps ==
  ASSUME DeployInv, AskServer, UNCHANGED <<step, stream, phone>>
  PROVE  DeployInv'
<1>0. ConnectTyped /\ TargetInv /\ PromptInv
  BY Whole
<1>1. /\ at = "ask_server" /\ via = "none" /\ asked # Address
      /\ UNCHANGED <<asked, usb, handshake>>
      /\ at' \in {"connected", "failed"}
  BY <1>0 DEF AskServer, GiveUp, TargetInv
<1>2. PromptInv'
  BY <1>0, <1>1 DEF PromptInv, NoneNew, OneNew, handshake, pipes
<1>3. CASE /\ listed' \in Listing /\ target' \in PickSerial(listed')
           /\ via' = "server" /\ at' = "connected"
  <2>1. target' \in Serials
    BY <1>3, PickedIsListed
  <2>2. ConnectTyped'
    BY <1>0, <1>1, <1>3, <2>1 DEF ConnectTyped, ConnectTypes, Deploying, handshake, pipes
  <2>3. target' \in PickSerial(listed)'
    BY <1>1, <1>3 DEF PickSerial, Online
  <2>4. TargetInv'
    BY <1>0, <1>1, <1>3, <2>3 DEF TargetInv
  <2> QED
    BY <1>1, <1>2, <2>2, <2>4, StreamAside, Whole
<1>4. CASE at' = "failed" /\ UNCHANGED <<via, target, listed>>
  <2>1. ConnectTyped'
    BY <1>0, <1>1, <1>4 DEF ConnectTyped, ConnectTypes, Over, handshake, pipes
  <2>2. TargetInv'
    BY <1>0, <1>1, <1>4 DEF TargetInv
  <2> QED
    BY <1>1, <1>2, <2>1, <2>2, StreamAside, Whole
<1> QED
  BY <1>3, <1>4 DEF AskServer, GiveUp

------------------------------------------------------------------------------
(* The handshake. *)

\* Taking a packet leaves no new token behind, or not more than there was.
LEMMA TakesOne ==
  ASSUME toHost \in Seq(ToHost), toHost # <<>>, toHost' = Tail(toHost), UNCHANGED token
  PROVE  /\ toHost' \in Seq(ToHost)
         /\ Head(toHost) \in ToHost
         /\ NoneNew => NoneNew'
         /\ OneNew => OneNew'
         /\ OneNew /\ New(Head(toHost)) => NoneNew' /\ Head(toHost).token = token
<1>1. /\ Tail(toHost) \in Seq(ToHost) /\ Len(Tail(toHost)) = Len(toHost) - 1
      /\ \A i \in 1..Len(Tail(toHost)) : Tail(toHost)[i] = toHost[i + 1]
      /\ Head(toHost) = toHost[1] /\ Head(toHost) \in ToHost
      /\ Len(toHost) \in Nat /\ 1 \in 1..Len(toHost)
  OBVIOUS
<1>2. \A i \in 1..Len(toHost') : i + 1 \in 1..Len(toHost) /\ toHost'[i] = toHost[i + 1]
  BY <1>1
<1>3. NoneNew => NoneNew'
  BY <1>2 DEF NoneNew, New
<1>4. OneNew => OneNew'
  <2> SUFFICES ASSUME OneNew, NEW i \in 1..Len(toHost'), New(toHost'[i])
               PROVE  /\ toHost'[i].token = token
                      /\ \A j \in 1..Len(toHost') : New(toHost'[j]) => j = i
    BY DEF OneNew, New
  <2>1. toHost'[i].token = token
    BY <1>2 DEF OneNew
  <2>2. ASSUME NEW j \in 1..Len(toHost'), New(toHost'[j]) PROVE j = i
    <3>1. j + 1 = i + 1
      BY <1>2, <2>2 DEF OneNew
    <3> QED
      BY <1>1, <3>1
  <2> QED
    BY <2>1, <2>2
<1>5. OneNew /\ New(Head(toHost)) => NoneNew' /\ Head(toHost).token = token
  <2> SUFFICES ASSUME OneNew, New(Head(toHost))
               PROVE  NoneNew' /\ Head(toHost).token = token
    OBVIOUS
  <2>1. Head(toHost).token = token
    BY <1>1 DEF OneNew
  <2>2. ASSUME NEW i \in 1..Len(toHost'), New(toHost'[i]) PROVE FALSE
    <3>1. i + 1 = 1
      BY <1>1, <1>2, <2>2 DEF OneNew
    <3> QED
      BY <1>1, <3>1
  <2> QED
    BY <2>1, <2>2 DEF NoneNew, New
<1> QED
  BY <1>1, <1>3, <1>4, <1>5

LEMMA HandshakeKeeps ==
  ASSUME DeployInv, UNCHANGED <<step, stream, phone>>,
         SendHello \/ HandshakeTimeout \/ TakeCnxn \/ TakeToken \/ SendSignature \/ SendPublicKey
           \/ Unexpected \/ ClockRunsOut
  PROVE  DeployInv'
<1>0. ConnectTyped /\ PromptInv
  BY Whole
<1>1. /\ UNCHANGED <<world, via, target, adbd, token, trusted, prompted>>
      /\ at' = at \/ at' \in Connecting \cup {"connected", "failed"}
      /\ at' \notin {"start", "ask_server"}
  BY DEF SendHello, HandshakeTimeout, TakeCnxn, TakeToken, SendSignature, SendPublicKey, Unexpected,
         ClockRunsOut, GiveUp, Connecting, Handshaking, pipes
<1>2. TargetInv'
  BY <1>1, TargetAside
<1>3. at' \in Connecting \cup Deploying \cup Over
  BY <1>0, <1>1 DEF ConnectTyped, Deploying, Over
<1>4. /\ asked \in Serials \cup {NoSerial, Address} /\ usb \subseteq Phones /\ listed \in Listing
      /\ via \in {"none", "usb", "tcp", "server"} /\ target \in Serials \cup {Address, NoSerial}
      /\ clock \in {"running", "over"} /\ signed \in BOOLEAN /\ hand \in Token
      /\ toAdbd \in Seq(ToAdbd) /\ toHost \in Seq(ToHost)
      /\ adbd \in {"offline", "asking", "prompting", "online"} /\ token \in Token
      /\ trusted \in BOOLEAN /\ prompted \in BOOLEAN /\ misled \subseteq {"CNXN", "TOKEN", "stream"}
  BY <1>0 DEF ConnectTyped, ConnectTypes
<1>5. ASSUME /\ clock' \in {"running", "over"} /\ signed' \in BOOLEAN /\ hand' \in Token
             /\ toAdbd' \in Seq(ToAdbd) /\ toHost' \in Seq(ToHost)
             /\ misled' \subseteq {"CNXN", "TOKEN", "stream"},
             PromptInv'
      PROVE  DeployInv'
  <2>1. UNCHANGED <<asked, usb, listed>>
    BY <1>1 DEF world
  <2>2. ConnectTypes'
    BY <1>1, <1>4, <1>5, <2>1 DEF ConnectTypes
  <2>3. ConnectTyped'
    BY <1>3, <2>2 DEF ConnectTyped
  <2> QED
    BY <1>1, <1>2, <1>5, <2>3, StreamAside, Whole
<1>6. CASE SendHello
  <2>1. /\ at = "hello" /\ at' = "await"
        /\ toAdbd' = Append(toAdbd, [kind |-> "CNXN", token |-> 0])
        /\ UNCHANGED <<clock, signed, hand, toHost, misled>>
    BY <1>6 DEF SendHello, SendAdbd
  <2>2. [kind |-> "CNXN", token |-> 0] \in ToAdbd
    BY DEF ToAdbd, Token
  <2>3. toAdbd' \in Seq(ToAdbd)
    BY <1>4, <2>1, <2>2
  <2>4. toAdbd = <<>> => toAdbd' = <<[kind |-> "CNXN", token |-> 0]>>
    BY <2>1
  <2>5. PromptInv'
    BY <1>0, <1>1, <2>1, <2>4 DEF PromptInv, NoneNew, OneNew
  <2> QED
    BY <1>4, <1>5, <2>1, <2>3, <2>5
<1>7. CASE SendSignature
  <2>1. /\ at = "sign" /\ at' = "await" /\ signed' = TRUE
        /\ toAdbd' = Append(toAdbd, [kind |-> "SIGNATURE", token |-> hand])
        /\ UNCHANGED <<clock, hand, toHost, misled>>
    BY <1>7 DEF SendSignature, SendAdbd
  <2>2. [kind |-> "SIGNATURE", token |-> hand] \in ToAdbd /\ signed' \in BOOLEAN
    BY <1>4, <2>1 DEF ToAdbd
  <2>3. toAdbd' \in Seq(ToAdbd)
    BY <1>4, <2>1, <2>2
  <2>4. toAdbd = <<>> => toAdbd' = <<[kind |-> "SIGNATURE", token |-> hand]>>
    BY <2>1
  <2>5. PromptInv'
    BY <1>0, <1>1, <2>1, <2>4 DEF PromptInv, NoneNew, OneNew
  <2> QED
    BY <1>4, <1>5, <2>1, <2>2, <2>3, <2>5
<1>8. CASE SendPublicKey
  <2>1. /\ at = "offer" /\ at' = "await"
        /\ toAdbd' = Append(toAdbd, [kind |-> "PUBLICKEY", token |-> 0])
        /\ UNCHANGED <<clock, signed, hand, toHost, misled>>
    BY <1>8 DEF SendPublicKey, SendAdbd
  <2>2. [kind |-> "PUBLICKEY", token |-> 0] \in ToAdbd
    BY DEF ToAdbd, Token
  <2>3. toAdbd' \in Seq(ToAdbd)
    BY <1>4, <2>1, <2>2
  <2>4. PromptInv'
    BY <1>0, <1>1, <2>1 DEF PromptInv
  <2> QED
    BY <1>4, <1>5, <2>1, <2>3, <2>4
<1>9. CASE HandshakeTimeout \/ ClockRunsOut
  <2>1. /\ UNCHANGED <<toAdbd, toHost, misled>>
        /\ at' \in {at, "failed"} /\ clock' \in {"running", "over"}
        /\ at' # "failed" => UNCHANGED hand
        /\ hand' \in Token
    BY <1>4, <1>9 DEF HandshakeTimeout, ClockRunsOut, Leave, GiveUp, pipes, Token
  <2>2. signed' \in BOOLEAN
    <3>1. signed' = signed \/ signed' = FALSE
      BY <1>9 DEF HandshakeTimeout, ClockRunsOut, Leave
    <3> QED
      BY <1>4, <3>1
  <2>3. signed' => signed
    BY <1>9 DEF HandshakeTimeout, ClockRunsOut, Leave
  <2>4. PromptInv'
    BY <1>0, <1>1, <2>1, <2>3 DEF PromptInv, NoneNew, OneNew
  <2> QED
    BY <1>4, <1>5, <2>1, <2>2, <2>4
<1>10. CASE TakeCnxn \/ Unexpected
  <2>1. /\ toHost # <<>> /\ toHost' = Tail(toHost) /\ Head(toHost).kind \in {"CNXN", "stream"}
        /\ misled' \subseteq misled \cup {"CNXN", "stream"} /\ misled \subseteq misled'
        /\ at' \in {"connected", "failed"} /\ clock' = "running" /\ signed' = FALSE /\ hand' = 0
        /\ UNCHANGED toAdbd
    BY <1>10 DEF TakeCnxn, Unexpected, Arrives, Leave, GiveUp
  <2>2. toHost' \in Seq(ToHost) /\ (NoneNew => NoneNew') /\ (OneNew => OneNew')
    BY <1>1, <1>4, <2>1, TakesOne
  <2>3. signed' \in BOOLEAN /\ ~signed' /\ hand' \in Token
    <3>1. signed' = FALSE
      BY <2>1
    <3>2. hand' \in Token
      BY <2>1 DEF Token
    <3> QED
      BY <3>1, <3>2
  <2>4. misled' \subseteq {"CNXN", "TOKEN", "stream"} /\ ("TOKEN" \notin misled' => "TOKEN" \notin misled)
    BY <1>4, <2>1
  <2>5. PromptInv'
    BY <1>0, <1>1, <2>1, <2>2, <2>3, <2>4 DEF PromptInv
  <2> QED
    BY <1>4, <1>5, <2>1, <2>2, <2>3, <2>4, <2>5
<1>11. CASE TakeToken
  <2>1. /\ toHost # <<>> /\ toHost' = Tail(toHost) /\ Head(toHost).kind = "TOKEN" /\ at = "await"
        /\ misled' = misled \cup (IF Head(toHost).old THEN {"TOKEN"} ELSE {})
        /\ hand' = Head(toHost).token
        /\ at' = IF signed THEN "offer" ELSE "sign"
        /\ UNCHANGED <<clock, signed, toAdbd>>
    BY <1>11 DEF TakeToken, Arrives
  <2>2. /\ toHost' \in Seq(ToHost) /\ Head(toHost) \in ToHost
        /\ OneNew /\ New(Head(toHost)) => NoneNew' /\ Head(toHost).token = token
    BY <1>1, <1>4, <2>1, TakesOne
  <2>3. hand' \in Token /\ misled' \subseteq {"CNXN", "TOKEN", "stream"}
    BY <1>4, <2>1, <2>2 DEF ToHost
  <2>4. PromptInv'
    <3> SUFFICES ASSUME trusted, "TOKEN" \notin misled' PROVE PromptInv'
      BY <1>1 DEF PromptInv
    <3>1. "TOKEN" \notin misled /\ ~Head(toHost).old
      BY <2>1
    <3>2. New(Head(toHost))
      BY <2>1, <3>1 DEF New
    <3>3. ~NoneNew
      <4>1. 1 \in 1..Len(toHost) /\ Head(toHost) = toHost[1]
        BY <1>4, <2>1
      <4> QED
        BY <3>2, <4>1 DEF NoneNew
    <3>4. OneNew /\ toAdbd = <<>> /\ adbd = "asking" /\ ~signed /\ ~prompted
      BY <1>0, <3>1, <3>3 DEF PromptInv
    <3>5. at' = "sign" /\ hand' = token /\ NoneNew'
      BY <2>1, <2>2, <3>2, <3>4
    <3> QED
      BY <1>1, <2>1, <3>4, <3>5 DEF PromptInv
  <2> QED
    BY <1>4, <1>5, <2>1, <2>2, <2>3, <2>4
<1> QED
  BY <1>6, <1>7, <1>8, <1>9, <1>10, <1>11

LEMMA TransferFailsKeeps ==
  ASSUME DeployInv, TransferFails, UNCHANGED <<step, stream, phone>>
  PROVE  DeployInv'
<1>0. ConnectTyped /\ TargetInv /\ PromptInv
  BY Whole
<1>1. /\ at \in Handshaking /\ at' = IF via = "usb" THEN "ask_server" ELSE "failed"
      /\ via' = "none" /\ target' = NoSerial
      /\ toAdbd' = <<>> /\ toHost' = <<>> /\ adbd' = "offline" /\ token' = 0
      /\ clock' = "running" /\ signed' = FALSE /\ hand' = 0
      /\ UNCHANGED <<world, trusted, prompted, misled>>
  BY DEF TransferFails, Leave
<1>2. UNCHANGED <<asked, usb, listed>>
  BY <1>1 DEF world
<1>3. ConnectTyped'
  <2>1. toAdbd' \in Seq(ToAdbd) /\ toHost' \in Seq(ToHost) /\ hand' \in Token /\ token' \in Token
    BY <1>1 DEF Token
  <2>2. signed' \in BOOLEAN
    BY <1>1
  <2> QED
    BY <1>0, <1>1, <1>2, <2>1, <2>2 DEF ConnectTyped, ConnectTypes, Connecting, Over
<1>4. TargetInv'
  BY <1>0, <1>1, <1>2 DEF TargetInv
<1>5. PromptInv'
  BY <1>0, <1>1 DEF PromptInv, NoneNew
<1> QED
  BY <1>1, <1>3, <1>4, <1>5, StreamAside, Whole DEF Connecting

\* What adbd's answers add to the packets on their way.
LEMMA Posts ==
  ASSUME toHost \in Seq(ToHost), NEW kind \in {"CNXN", "TOKEN"}, NEW t \in Token, Post(kind, t)
  PROVE  /\ toHost' \in Seq(ToHost)
         /\ kind = "CNXN" /\ UNCHANGED token => (NoneNew => NoneNew') /\ (OneNew => OneNew')
         /\ kind = "TOKEN" /\ token' = t /\ NoneNew => OneNew'
<1> DEFINE packet == [kind |-> kind, token |-> t, old |-> FALSE]
<1>1. ASSUME NEW b \in BOOLEAN PROVE [kind |-> kind, token |-> t, old |-> b] \in ToHost
  BY DEF ToHost
<1>2. packet \in ToHost /\ packet.kind = kind /\ packet.token = t
  BY <1>1
<1>3. toHost' = Append(toHost, packet)
  BY DEF Post
<1> HIDE DEF packet
<1>4. /\ toHost' \in Seq(ToHost) /\ Len(toHost') = Len(toHost) + 1
      /\ \A i \in 1..Len(toHost) : toHost'[i] = toHost[i]
      /\ toHost'[Len(toHost) + 1] = packet
      /\ Len(toHost) \in Nat
  BY <1>2, <1>3
<1>5. \A i \in 1..Len(toHost') : i \in 1..Len(toHost) \/ i = Len(toHost) + 1
  BY <1>4
<1>6. ASSUME kind = "CNXN", UNCHANGED token
      PROVE  (NoneNew => NoneNew') /\ (OneNew => OneNew')
  <2>1. ~New(packet)
    BY <1>2, <1>6 DEF New
  <2>2. NoneNew => NoneNew'
    BY <1>4, <1>5, <2>1 DEF NoneNew, New
  <2>3. OneNew => OneNew'
    <3> SUFFICES ASSUME OneNew, NEW i \in 1..Len(toHost'), New(toHost'[i])
                 PROVE  /\ toHost'[i].token = token
                        /\ \A j \in 1..Len(toHost') : New(toHost'[j]) => j = i
      BY <1>6 DEF OneNew, New
    <3>1. \A j \in 1..Len(toHost') : New(toHost'[j]) => j \in 1..Len(toHost) /\ New(toHost[j])
      BY <1>4, <1>5, <2>1
    <3> QED
      BY <1>4, <3>1 DEF OneNew
  <2> QED
    BY <2>2, <2>3
<1>7. ASSUME kind = "TOKEN", token' = t, NoneNew
      PROVE  OneNew'
  <2>1. ASSUME NEW i \in 1..Len(toHost'), New(toHost'[i]) PROVE i = Len(toHost) + 1
    BY <1>4, <1>5, <1>7, <2>1 DEF NoneNew
  <2>2. packet.token = token'
    BY <1>2, <1>7
  <2> QED
    BY <1>4, <2>1, <2>2 DEF OneNew, New
<1> QED
  BY <1>4, <1>6, <1>7

LEMMA AdmitPosts ==
  ASSUME toHost \in Seq(ToHost), Admit
  PROVE  /\ toHost' \in Seq(ToHost) /\ token' = token /\ adbd' = "online"
         /\ (NoneNew => NoneNew') /\ (OneNew => OneNew')
<1>1. Post("CNXN", 0) /\ token' = token /\ adbd' = "online" /\ 0 \in Token
  BY DEF Admit, Token
<1> QED
  BY <1>1, Posts

LEMMA AskPosts ==
  ASSUME toHost \in Seq(ToHost), token \in Token, Ask
  PROVE  /\ toHost' \in Seq(ToHost) /\ token' \in Token /\ adbd' = "asking"
         /\ NoneNew => OneNew'
<1>1. Post("TOKEN", token') /\ token' = (token % 3) + 1 /\ adbd' = "asking"
  BY DEF Ask
<1>2. token' \in Token
  BY <1>1 DEF Token
<1>3. PICK t \in Token : t = token'
  BY <1>2
<1>4. Post("TOKEN", t)
  BY <1>1, <1>3
<1> QED
  BY <1>1, <1>2, <1>3, <1>4, Posts

LEMMA AdbdKeeps ==
  ASSUME DeployInv, UNCHANGED <<step, stream, phone>>, AdbdTakes \/ UserAllows \/ UserDeclines
  PROVE  DeployInv'
<1>0. ConnectTyped /\ PromptInv
  BY Whole
<1>1. UNCHANGED <<world, at, via, target, clock, signed, hand, trusted, misled>>
  BY DEF AdbdTakes, UserAllows, UserDeclines
<1>2. /\ asked \in Serials \cup {NoSerial, Address} /\ usb \subseteq Phones /\ listed \in Listing
      /\ via \in {"none", "usb", "tcp", "server"} /\ target \in Serials \cup {Address, NoSerial}
      /\ clock \in {"running", "over"} /\ signed \in BOOLEAN /\ hand \in Token
      /\ toAdbd \in Seq(ToAdbd) /\ toHost \in Seq(ToHost)
      /\ adbd \in {"offline", "asking", "prompting", "online"} /\ token \in Token
      /\ trusted \in BOOLEAN /\ prompted \in BOOLEAN /\ misled \subseteq {"CNXN", "TOKEN", "stream"}
  BY <1>0 DEF ConnectTyped, ConnectTypes
<1>3. /\ UNCHANGED <<asked, usb, listed>>
      /\ TargetInv'
  <2>1. UNCHANGED <<asked, usb, listed>>
    BY <1>1 DEF world
  <2>2. TargetInv
    BY Whole
  <2> QED
    BY <1>1, <2>1, <2>2 DEF TargetInv, Found, PickSerial, Online
<1>4. ASSUME /\ toAdbd' \in Seq(ToAdbd) /\ toHost' \in Seq(ToHost)
             /\ adbd' \in {"offline", "asking", "prompting", "online"} /\ token' \in Token
             /\ prompted' \in BOOLEAN,
             PromptInv'
      PROVE  DeployInv'
  <2>1. ConnectTypes'
    BY <1>1, <1>2, <1>3, <1>4 DEF ConnectTypes
  <2>2. ConnectTyped'
    BY <1>0, <1>1, <2>1 DEF ConnectTyped
  <2> QED
    BY <1>1, <1>3, <1>4, <2>2, StreamAside, Whole
<1>5. CASE AdbdTakes
  <2>1. /\ toAdbd # <<>> /\ toAdbd' = Tail(toAdbd)
        /\ toAdbd' \in Seq(ToAdbd)
    BY <1>2, <1>5 DEF AdbdTakes
  <2>2. \/ Admit /\ UNCHANGED prompted
        \/ Ask /\ UNCHANGED prompted
        \/ adbd' = "prompting" /\ prompted' = TRUE /\ UNCHANGED <<token, toHost>>
        \/ UNCHANGED <<adbd, token, toHost, prompted>>
    BY <1>5 DEF AdbdTakes
  <2>3. /\ toHost' \in Seq(ToHost) /\ token' \in Token
        /\ adbd' \in {"offline", "asking", "prompting", "online"}
    BY <1>2, <2>2, AdmitPosts, AskPosts
  <2>4. prompted' \in BOOLEAN
    BY <1>2, <2>2
  <2>5. PromptInv'
    <3> SUFFICES ASSUME trusted, "TOKEN" \notin misled PROVE PromptInv'
      BY <1>1 DEF PromptInv
    <3>1. at \notin {"start", "hello", "sign", "offer"} /\ ~prompted
      BY <1>0, <2>1 DEF PromptInv
    <3>2. CASE toAdbd = <<[kind |-> "CNXN", token |-> 0]>> /\ adbd = "offline" /\ ~signed /\ NoneNew
      <4>1. toAdbd' = <<>> /\ Head(toAdbd).kind = "CNXN"
        BY <2>1, <3>2
      <4>2. (Admit \/ Ask) /\ UNCHANGED prompted
        BY <1>5, <4>1 DEF AdbdTakes
      <4>3. NoneNew' \/ (OneNew' /\ adbd' = "asking")
        BY <1>2, <3>2, <4>2, AdmitPosts, AskPosts
      <4>4. adbd' # "prompting"
        BY <4>2 DEF Admit, Ask
      <4> QED
        BY <1>1, <3>1, <3>2, <4>1, <4>2, <4>3, <4>4 DEF PromptInv
    <3>3. CASE /\ toAdbd = <<[kind |-> "SIGNATURE", token |-> token]>>
               /\ adbd = "asking" /\ NoneNew
      <4>1. /\ toAdbd' = <<>>
            /\ Head(toAdbd).kind = "SIGNATURE" /\ Head(toAdbd).token = token
        BY <2>1, <3>3
      <4>2. Admit /\ UNCHANGED prompted
        BY <1>5, <3>3, <4>1 DEF AdbdTakes
      <4>3. NoneNew' /\ adbd' = "online"
        BY <1>2, <3>3, <4>2, AdmitPosts
      <4> QED
        BY <1>1, <3>1, <4>1, <4>2, <4>3 DEF PromptInv
    <3> QED
      BY <1>0, <2>1, <3>2, <3>3 DEF PromptInv
  <2> QED
    BY <1>4, <2>1, <2>3, <2>4, <2>5
<1>6. CASE UserAllows \/ UserDeclines
  <2>1. /\ adbd = "prompting" /\ (Admit \/ Ask) /\ UNCHANGED <<toAdbd, prompted>>
    BY <1>6 DEF UserAllows, UserDeclines
  <2>2. /\ toHost' \in Seq(ToHost) /\ token' \in Token
        /\ adbd' \in {"offline", "asking", "prompting", "online"}
    BY <1>2, <2>1, AdmitPosts, AskPosts
  <2>3. PromptInv'
    BY <1>0, <1>1, <2>1 DEF PromptInv
  <2> QED
    BY <1>2, <1>4, <2>1, <2>2, <2>3
<1> QED
  BY <1>5, <1>6

LEMMA ConnectKeeps ==
  ASSUME DeployInv, ConnectNext, UNCHANGED <<step, stream, phone>>
  PROVE  DeployInv'
BY ConnectTcpKeeps, OpenUsbKeeps, AskServerKeeps, HandshakeKeeps, TransferFailsKeeps, AdbdKeeps
   DEF ConnectNext, HostConnects

------------------------------------------------------------------------------
(* Deploying. *)

\* A step of the deployment does not touch the connection.
LEMMA ConnectAside ==
  ASSUME DeployInv, UNCHANGED connect,
         at' = at \/ at' \in Deploying \cup Over
  PROVE  ConnectTyped' /\ TargetInv' /\ PromptInv'
<1>1. /\ UNCHANGED <<asked, usb, listed, via, target>>
      /\ UNCHANGED <<clock, signed, hand, toAdbd, toHost, adbd, token, trusted, prompted, misled>>
  BY DEF connect, world, handshake, pipes
<1>2. at' = at \/ at' \notin {"start", "ask_server", "hello", "sign", "offer"}
  BY DEF Deploying, Over
<1>3. ConnectTyped'
  BY <1>1, Whole DEF ConnectTyped, ConnectTypes
<1>4. TargetInv'
  BY <1>1, <1>2, Whole DEF TargetInv, Found, PickSerial, Online
<1>5. PromptInv'
  BY <1>1, <1>2, Whole DEF PromptInv, NoneNew, OneNew
<1> QED
  BY <1>3, <1>4, <1>5

\* A step between two streams.
LEMMA BetweenKeeps ==
  ASSUME DeployInv, MissingFiles \/ Open \/ OpenFails
  PROVE  DeployInv'
<1>1. /\ UNCHANGED <<connect, step, stream, phone>>
      /\ at' \in {"failed", "opening"}
  BY DEF MissingFiles, Open, OpenFails, GiveUp
<1>2. ConnectTyped' /\ TargetInv' /\ PromptInv'
  BY <1>1, ConnectAside DEF Deploying, Over
<1>3. StreamTyped' /\ PhoneTyped' /\ DoneInv'
  BY <1>1, Whole DEF StreamTyped, PhoneTyped, DoneInv, Good, stream, phone
<1>4. StageInv'
  BY <1>1 DEF StageInv
<1> QED
  BY <1>2, <1>3, <1>4, Whole

\* A sequence between a first and a last element.
LEMMA Framed ==
  ASSUME NEW S, NEW x \in S, NEW y \in S, NEW d \in Seq(S),
         NEW q, q = <<x>> \o d \o <<y>>
  PROVE  /\ q \in Seq(S) /\ Len(q) = Len(d) + 2
         /\ q[1] = x /\ q[Len(d) + 2] = y
         /\ \A i \in 2..(Len(d) + 1) : q[i] = d[i - 1]
<1>1. PICK front : front = <<x>> \o d
  OBVIOUS
<1>2. /\ front \in Seq(S) /\ Len(front) = Len(d) + 1 /\ front[1] = x
      /\ \A i \in 2..(Len(d) + 1) : front[i] = d[i - 1]
  BY <1>1
<1>3. q = front \o <<y>>
  BY <1>1
<1>4. /\ q \in Seq(S) /\ Len(q) = Len(front) + 1 /\ q[Len(front) + 1] = y
      /\ \A i \in 1..Len(front) : q[i] = front[i]
  BY <1>2, <1>3
<1> QED
  BY <1>2, <1>4

LEMMA OpenedKeeps ==
  ASSUME DeployInv, Opened
  PROVE  DeployInv'
<1>0. StreamTyped /\ PhoneTyped /\ DoneInv
  BY Whole
<1>1. /\ reply' = "none" /\ status' = "none" /\ prints' = 0 /\ pipe' = <<>>
      /\ UNCHANGED <<connect, step, file, mode>>
      /\ at' \in {"launched", "draining", "writing"}
  BY DEF Opened, After
<1>2. ConnectTyped' /\ TargetInv' /\ PromptInv'
  BY <1>1, ConnectAside DEF Deploying, Over
<1>3. DoneInv' /\ Doing' = Doing
  BY <1>0, <1>1 DEF DoneInv, Good, Doing
<1>4. CASE /\ Doing \in Command /\ running' = running \cup {Doing}
           /\ at' = After(Doing)
           /\ UNCHANGED <<todo, failing>>
  <2>1. StreamTyped' /\ PhoneTyped'
    <3>1. pipe' \in Seq({"SEND", "DATA", "DONE", "QUIT"})
      BY <1>1
    <3> QED
      BY <1>0, <1>1, <1>4, <3>1 DEF StreamTyped, PhoneTyped
  <2>2. StageInv'
    <3>1. CASE Doing = "launch"
      BY <1>4, <3>1 DEF After, StageInv
    <3>2. CASE Doing \in {"mkdir", "chmod"}
      <4>1. at' = "draining"
        BY <1>4, <3>2 DEF After
      <4> QED
        BY <1>3, <3>2, <4>1 DEF StageInv
    <3> QED
      BY <1>4, <3>1, <3>2 DEF Command
  <2> QED
    BY <1>2, <1>3, <2>1, <2>2, Whole
<1>5. CASE /\ Doing \in File
           /\ \E k \in 0..MaxChunks : todo' = Requests(k)
           /\ failing' = FALSE
           /\ at' = "writing"
           /\ UNCHANGED running
  <2>1. PICK k \in 0..MaxChunks : todo' = Requests(k)
    BY <1>5
  <2>2. k \in Nat
    BY <2>1, DeployAssumption
  <2>3. /\ Requests(k) \in Seq({"SEND", "DATA", "DONE"}) /\ Len(Requests(k)) = k + 2
        /\ \A i \in 1..(k + 2) :
             Requests(k)[i] = IF i = 1 THEN "SEND" ELSE IF i = k + 2 THEN "DONE" ELSE "DATA"
    <3>1. PICK data : data = [i \in 1..k |-> "DATA"]
      OBVIOUS
    <3>2. /\ data \in Seq({"SEND", "DATA", "DONE"}) /\ Len(data) = k
          /\ \A i \in 1..k : data[i] = "DATA"
      BY <2>2, <3>1
    <3>3. Requests(k) = <<"SEND">> \o data \o <<"DONE">>
      BY <3>1 DEF Requests
    <3>4. /\ Requests(k) \in Seq({"SEND", "DATA", "DONE"}) /\ Len(Requests(k)) = Len(data) + 2
          /\ Requests(k)[1] = "SEND" /\ Requests(k)[Len(data) + 2] = "DONE"
          /\ \A i \in 2..(Len(data) + 1) : Requests(k)[i] = data[i - 1]
      BY <3>2, <3>3, Framed
    <3>5. ASSUME NEW i \in 2..(k + 1) PROVE Requests(k)[i] = "DATA"
      BY <2>2, <3>2, <3>4
    <3> QED
      BY <2>2, <3>2, <3>4, <3>5
  <2>4. StreamTyped' /\ PhoneTyped'
    <3>1. pipe' \in Seq({"SEND", "DATA", "DONE", "QUIT"}) /\ todo' \in Seq({"SEND", "DATA", "DONE"})
      BY <1>1, <2>1, <2>3
    <3>2. failing' \in BOOLEAN
      BY <1>5
    <3> QED
      BY <1>0, <1>1, <1>5, <3>1, <3>2 DEF StreamTyped, PhoneTyped
  <2>5. Queue' = todo'
    BY <1>1, <2>1, <2>3 DEF Queue
  <2>6. SyncInv'
    BY <1>1, <1>5, <2>1, <2>2, <2>3, <2>5 DEF SyncInv
  <2>7. StageInv'
    BY <1>3, <1>5, <2>6 DEF StageInv
  <2> QED
    BY <1>2, <1>3, <2>4, <2>7, Whole
<1> QED
  BY <1>4, <1>5 DEF Opened

\* Writing a request moves it from one part of the queue to the other.
LEMMA QueueWritten ==
  ASSUME StreamTyped, todo # <<>>, pipe' = Append(pipe, Head(todo)), todo' = Tail(todo)
  PROVE  Queue' = Queue
<1> DEFINE R == {"SEND", "DATA", "DONE", "QUIT"}
<1>1. pipe \in Seq(R) /\ todo \in Seq(R)
  BY DEF StreamTyped
<1>2. /\ Append(pipe, Head(todo)) \o Tail(todo) \in Seq(R) /\ pipe \o todo \in Seq(R)
      /\ Len(Append(pipe, Head(todo)) \o Tail(todo)) = Len(pipe \o todo)
  BY <1>1
<1>3. ASSUME NEW i \in 1..Len(pipe \o todo)
      PROVE  (Append(pipe, Head(todo)) \o Tail(todo))[i] = (pipe \o todo)[i]
  <2>1. CASE i <= Len(pipe)
    BY <1>1, <2>1
  <2>2. CASE i = Len(pipe) + 1
    BY <1>1, <2>2
  <2>3. CASE i > Len(pipe) + 1
    BY <1>1, <2>3
  <2> QED
    BY <1>1, <2>1, <2>2, <2>3
<1>4. Append(pipe, Head(todo)) \o Tail(todo) = pipe \o todo
  BY <1>2, <1>3
<1> QED
  BY <1>4 DEF Queue

\* adbd takes the first request of the queue.
LEMMA QueueTaken ==
  ASSUME StreamTyped, pipe # <<>>, pipe' = Tail(pipe), todo' = todo
  PROVE  /\ Queue # <<>> /\ Queue[1] = Head(pipe)
         /\ Len(Queue) \in Nat /\ Len(Queue') \in Nat /\ Len(Queue') = Len(Queue) - 1
         /\ Len(Queue') = 0 => Queue' = <<>>
         /\ \A i \in 1..Len(Queue') : i + 1 \in 1..Len(Queue) /\ Queue'[i] = Queue[i + 1]
<1> DEFINE R == {"SEND", "DATA", "DONE", "QUIT"}
<1>1. pipe \in Seq(R) /\ todo \in Seq(R)
  BY DEF StreamTyped
<1>2. /\ pipe \o todo \in Seq(R) /\ Tail(pipe) \o todo \in Seq(R)
      /\ Len(pipe \o todo) = Len(pipe) + Len(todo)
      /\ Len(Tail(pipe) \o todo) = Len(pipe) - 1 + Len(todo)
      /\ Len(pipe) >= 1 /\ (pipe \o todo)[1] = Head(pipe)
  BY <1>1
<1>3. ASSUME NEW i \in 1..Len(Tail(pipe) \o todo)
      PROVE  (Tail(pipe) \o todo)[i] = (pipe \o todo)[i + 1]
  <2>1. CASE i <= Len(pipe) - 1
    BY <1>1, <2>1
  <2>2. CASE i > Len(pipe) - 1
    BY <1>1, <1>2, <2>2
  <2> QED
    BY <1>1, <2>1, <2>2
<1>4. Queue = pipe \o todo /\ Queue' = Tail(pipe) \o todo
  BY DEF Queue
<1>5. Len(Queue) \in Nat /\ Len(Queue') \in Nat /\ Len(Queue') = Len(Queue) - 1 /\ Queue # <<>>
  BY <1>1, <1>2, <1>4
<1>6. Len(Queue') = 0 => Queue' = <<>>
  BY <1>2, <1>4
<1> QED
  BY <1>2, <1>3, <1>4, <1>5, <1>6

\* A sequence of length 0 is the empty one.
LEMMA Emptied ==
  ASSUME NEW S, NEW t \in Seq(S), Len(t) = 0
  PROVE  t = <<>>
OBVIOUS

LEMMA WriteKeeps ==
  ASSUME DeployInv, WriteRequest \/ WriteFails
  PROVE  DeployInv'
<1>0. StreamTyped /\ PhoneTyped /\ DoneInv /\ StageInv
  BY Whole
<1>1. /\ at = "writing" /\ at' \in {"writing", "status", "failed"}
      /\ UNCHANGED <<connect, step, reply, status, prints, phone>>
  BY DEF WriteRequest, WriteFails, GiveUp
<1>2. ConnectTyped' /\ TargetInv' /\ PromptInv'
  BY <1>1, ConnectAside DEF Deploying, Over
<1>3. PhoneTyped' /\ DoneInv'
  BY <1>0, <1>1 DEF PhoneTyped, DoneInv, Good, phone
<1>4. SyncInv /\ Doing \in File /\ todo # <<>> /\ Doing' = Doing
  BY <1>0, <1>1 DEF StageInv, SyncInv, Doing
<1>5. /\ pipe \in Seq({"SEND", "DATA", "DONE", "QUIT"})
      /\ todo \in Seq({"SEND", "DATA", "DONE"}) /\ Tail(todo) \in Seq({"SEND", "DATA", "DONE"})
      /\ Append(pipe, Head(todo)) \in Seq({"SEND", "DATA", "DONE", "QUIT"})
      /\ Len(todo) = 1 => Tail(todo) = <<>>
      /\ Len(todo) # 1 => Tail(todo) # <<>>
  <2>1. pipe \in Seq({"SEND", "DATA", "DONE", "QUIT"}) /\ todo \in Seq({"SEND", "DATA", "DONE"})
    BY <1>0 DEF StreamTyped
  <2>2. /\ Tail(todo) \in Seq({"SEND", "DATA", "DONE"}) /\ Len(Tail(todo)) = Len(todo) - 1
        /\ Head(todo) \in {"SEND", "DATA", "DONE", "QUIT"}
    BY <1>4, <2>1
  <2>3. Append(pipe, Head(todo)) \in Seq({"SEND", "DATA", "DONE", "QUIT"})
    BY <2>1, <2>2
  <2>4. Len(todo) = 1 => Tail(todo) = <<>>
    <3>1. SUFFICES ASSUME Len(todo) = 1
                   PROVE  Tail(todo) = <<>>
      OBVIOUS
    <3>2. Tail(todo) \in Seq({"SEND", "DATA", "DONE"})
      BY <2>2
    <3>3. Len(Tail(todo)) = 0
      BY <2>2, <3>1
    <3> QED
      BY ONLY <3>2, <3>3, Emptied, Zenon
  <2>5. Len(todo) # 1 => Tail(todo) # <<>>
    BY <2>1, <2>2
  <2> QED
    BY <2>1, <2>2, <2>3, <2>4, <2>5
<1>6. CASE WriteRequest
  <2>1. /\ pipe' = Append(pipe, Head(todo)) /\ todo' = Tail(todo)
        /\ at' = IF Len(todo) = 1 THEN "status" ELSE "writing"
    BY <1>6 DEF WriteRequest
  <2>2. StreamTyped'
    BY <1>0, <1>1, <1>5, <2>1 DEF StreamTyped
  <2>3. Queue' = Queue
    BY <1>0, <1>4, <2>1, QueueWritten
  <2>4. SyncInv'
    BY <1>1, <1>4, <1>5, <2>1, <2>3 DEF SyncInv, Good, phone
  <2>5. StageInv'
    BY <1>4, <2>1, <2>4 DEF StageInv
  <2> QED
    BY <1>2, <1>3, <2>2, <2>5, Whole
<1>7. CASE WriteFails
  <2>1. at' = "failed" /\ todo' = todo /\ pipe' \in {pipe, Append(pipe, Head(todo))}
    BY <1>1, <1>7 DEF WriteFails, GiveUp
  <2>2. StreamTyped'
    BY <1>0, <1>1, <1>5, <2>1 DEF StreamTyped
  <2>3. StageInv'
    BY <2>1 DEF StageInv
  <2> QED
    BY <1>2, <1>3, <2>2, <2>3, Whole
<1> QED
  BY <1>6, <1>7

LEMMA ReadStatusKeeps ==
  ASSUME DeployInv, ReadStatus
  PROVE  DeployInv'
<1>0. StreamTyped /\ PhoneTyped /\ DoneInv /\ StageInv
  BY Whole
<1>1. /\ at = "status" /\ at' \in {"quit", "failed"}
      /\ UNCHANGED <<connect, step, todo, pipe, reply, prints, phone>>
      /\ at' = "quit" => status' = reply
      /\ status' \in {status, reply}
  BY DEF ReadStatus, GiveUp
<1>2. ConnectTyped' /\ TargetInv' /\ PromptInv'
  BY <1>1, ConnectAside DEF Deploying, Over
<1>3. PhoneTyped' /\ DoneInv'
  BY <1>0, <1>1 DEF PhoneTyped, DoneInv, Good, phone
<1>4. SyncInv /\ Doing \in File /\ Doing' = Doing /\ todo = <<>> /\ Queue' = Queue
  BY <1>0, <1>1 DEF StageInv, SyncInv, Doing, Queue
<1>5. status' \in {"none", "OKAY", "FAIL"}
  <2>1. reply # "output"
    BY <1>4 DEF SyncInv
  <2> QED
    BY <1>0, <1>1, <2>1 DEF StreamTyped
<1>6. StreamTyped'
  BY <1>0, <1>1, <1>5 DEF StreamTyped
<1>7. SyncInv'
  BY <1>1, <1>4 DEF SyncInv, Good, phone
<1>8. StageInv'
  BY <1>1, <1>4, <1>7 DEF StageInv
<1> QED
  BY <1>2, <1>3, <1>6, <1>8, Whole

LEMMA QuitKeeps ==
  ASSUME DeployInv, Quit
  PROVE  DeployInv'
<1>0. StreamTyped /\ PhoneTyped /\ DoneInv /\ StageInv
  BY Whole
<1>1. /\ at = "quit" /\ at' \in {"connected", "failed"}
      /\ UNCHANGED <<connect, todo, reply, status, prints, phone>>
      /\ pipe' \in {pipe, Append(pipe, "QUIT")}
      /\ \/ step' = step
         \/ step' = step + 1 /\ status = "OKAY"
  BY DEF Quit, NextStep, GiveUp
<1>2. ConnectTyped' /\ TargetInv' /\ PromptInv'
  BY <1>1, ConnectAside DEF Deploying, Over
<1>3. SyncInv /\ Doing \in File /\ step \in {2, 3}
  BY <1>0, <1>1, WhatIsDoing DEF StageInv
<1>4. StreamTyped'
  <2>1. pipe' \in Seq({"SEND", "DATA", "DONE", "QUIT"})
    BY <1>0, <1>1 DEF StreamTyped
  <2>2. step' \in 1..5
    BY <1>1, <1>3
  <2> QED
    BY <1>0, <1>1, <2>1, <2>2 DEF StreamTyped
<1>5. PhoneTyped'
  BY <1>0, <1>1 DEF PhoneTyped, phone
<1>6. DoneInv'
  <2>1. /\ file' = file /\ mode' = mode
    BY <1>1 DEF phone
  <2>2. CASE step' = step
    BY <1>0, <2>1, <2>2 DEF DoneInv, Good
  <2>3. CASE step' = step + 1 /\ status = "OKAY"
    <3>1. Good(Doing)
      BY <1>3, <2>3 DEF SyncInv
    <3>2. CASE step = 2
      <4>1. Good("so")
        BY <1>0, <3>1, <3>2, WhatIsDoing
      <4> QED
        BY <2>1, <2>3, <3>2, <4>1 DEF DoneInv, Good
    <3>3. CASE step = 3
      <4>1. Good("dex") /\ Good("so")
        BY <1>0, <3>1, <3>3, WhatIsDoing DEF DoneInv
      <4> QED
        BY <2>1, <2>3, <3>3, <4>1 DEF DoneInv, Good
    <3> QED
      BY <1>3, <3>2, <3>3
  <2> QED
    BY <1>1, <2>2, <2>3
<1>7. StageInv'
  BY <1>1 DEF StageInv
<1> QED
  BY <1>2, <1>4, <1>5, <1>6, <1>7, Whole

\* A shell command: its output is drained, and it is over.
LEMMA ShellKeeps ==
  ASSUME DeployInv, Drain \/ ShellReturns \/ CommandPrints
  PROVE  DeployInv'
<1>0. StreamTyped /\ PhoneTyped /\ DoneInv /\ StageInv
  BY Whole
<1>1. /\ at = "draining" /\ at' \in {"draining", "connected"}
      /\ UNCHANGED <<connect, todo, pipe, status, phone>>
  BY DEF Drain, ShellReturns, CommandPrints, NextStep, stream
<1>2. ConnectTyped' /\ TargetInv' /\ PromptInv'
  BY <1>1, ConnectAside DEF Deploying, Over
<1>3. Doing \in {"mkdir", "chmod"} /\ step \in {1, 4}
  BY <1>0, <1>1, WhatIsDoing DEF StageInv
<1>4. /\ \/ step' = step
         \/ step' = step + 1 /\ at' = "connected"
      /\ reply' \in {reply, "none", "output"} /\ prints' \in {prints, prints + 1}
  BY DEF Drain, ShellReturns, CommandPrints, NextStep, stream
<1>5. StreamTyped' /\ PhoneTyped'
  <2>1. step' \in 1..5
    BY <1>3, <1>4
  <2>2. prints' \in Nat /\ reply' \in {"none", "output", "OKAY", "FAIL"}
    BY <1>0, <1>4 DEF StreamTyped
  <2> QED
    BY <1>0, <1>1, <2>1, <2>2 DEF StreamTyped, PhoneTyped, phone
<1>6. DoneInv'
  BY <1>0, <1>1, <1>3, <1>4 DEF DoneInv, Good, phone
<1>7. StageInv'
  <2>1. CASE step' = step
    BY <1>1, <1>3, <2>1 DEF StageInv, Doing
  <2>2. CASE at' = "connected"
    BY <2>2 DEF StageInv
  <2> QED
    BY <1>4, <2>1, <2>2
<1> QED
  BY <1>2, <1>5, <1>6, <1>7, Whole

------------------------------------------------------------------------------
(* On the device. *)

LEMMA CommandEndsKeeps ==
  ASSUME DeployInv, NEW c \in Command, CommandEnds(c)
  PROVE  DeployInv'
<1>0. StreamTyped /\ PhoneTyped /\ DoneInv /\ StageInv
  BY Whole
<1>1. /\ running' = running \ {c}
      /\ mode' = mode \/ mode' = [mode EXCEPT !["so"] = "run"]
      /\ UNCHANGED <<connect, at, step, stream, file, failing>>
  BY DEF CommandEnds
<1>2. ConnectTyped' /\ TargetInv' /\ PromptInv'
  BY <1>1, ConnectAside
<1>3. StreamTyped'
  BY <1>0, <1>1 DEF StreamTyped, stream
<1>4. PhoneTyped'
  BY <1>0, <1>1 DEF PhoneTyped, File
<1>5. \A f \in File : mode[f] = ModeOf(f) => mode'[f] = ModeOf(f)
  BY <1>0, <1>1 DEF PhoneTyped, File, ModeOf
<1>6. DoneInv'
  BY <1>0, <1>1, <1>5 DEF DoneInv, Good, File
<1>7. StageInv'
  BY <1>0, <1>1, <1>5 DEF StageInv, SyncInv, Queue, Doing, Good, stream
<1> QED
  BY <1>2, <1>3, <1>4, <1>6, <1>7, Whole

\* The sync service works off one request.
LEMMA SyncTakesKeeps ==
  ASSUME DeployInv, SyncTakes
  PROVE  DeployInv'
<1>0. StreamTyped /\ PhoneTyped /\ DoneInv /\ StageInv
  BY Whole
<1>1. /\ pipe # <<>> /\ Doing \in File /\ pipe' = Tail(pipe)
      /\ UNCHANGED <<connect, at, step, todo, status, prints, running>>
  BY DEF SyncTakes
<1>2. ConnectTyped' /\ TargetInv' /\ PromptInv'
  BY <1>1, ConnectAside
<1>3. Doing' = Doing
  BY <1>1 DEF Doing
<1>4. /\ reply' \in {reply, "OKAY", "FAIL"} /\ failing' \in BOOLEAN
      /\ file' \in {file, [file EXCEPT ![Doing] = "part"], [file EXCEPT ![Doing] = "whole"]}
      /\ mode' \in {mode, [mode EXCEPT ![Doing] = ModeOf(Doing)]}
  <2>1. failing' \in BOOLEAN
    <3>1. failing' = failing \/ failing' = TRUE
      BY DEF SyncTakes, Fail
    <3> QED
      BY <1>0, <3>1 DEF PhoneTyped
  <2> QED
    BY <2>1 DEF SyncTakes, Fail
<1>5. StreamTyped'
  <2>1. pipe' \in Seq({"SEND", "DATA", "DONE", "QUIT"})
    BY <1>0, <1>1 DEF StreamTyped
  <2> QED
    BY <1>0, <1>1, <1>4, <2>1 DEF StreamTyped
<1>6. PhoneTyped'
  <2>1. file' \in [File -> {"old", "part", "whole"}]
    BY <1>0, <1>1, <1>4 DEF PhoneTyped
  <2>2. mode' \in [File -> {"read", "run"}]
    BY <1>0, <1>1, <1>4 DEF PhoneTyped, ModeOf
  <2> QED
    BY <1>0, <1>1, <1>4, <2>1, <2>2 DEF PhoneTyped
<1>7. DoneInv'
  <2>1. \A f \in File \ {Doing} : file'[f] = file[f] /\ mode'[f] = mode[f]
    BY <1>0, <1>1, <1>4 DEF PhoneTyped
  <2>2. step > 2 => Doing # "so"
    BY <1>0, WhatIsDoing
  <2>3. step > 3 => Doing # "dex"
    BY <1>0, WhatIsDoing
  <2>4. "so" \in File /\ "dex" \in File
    BY DEF File
  <2> QED
    BY <1>0, <1>1, <2>1, <2>2, <2>3, <2>4 DEF DoneInv, Good
<1>8. CASE at \in {"writing", "status", "quit"}
  <2>1. SyncInv
    BY <1>0, <1>8 DEF StageInv
  <2>2. /\ Queue # <<>> /\ Queue[1] = Head(pipe)
        /\ Len(Queue) \in Nat /\ Len(Queue') \in Nat /\ Len(Queue') = Len(Queue) - 1
        /\ Len(Queue') = 0 => Queue' = <<>>
        /\ \A i \in 1..Len(Queue') : i + 1 \in 1..Len(Queue) /\ Queue'[i] = Queue[i + 1]
    BY <1>0, <1>1, QueueTaken
  <2>3. \A i \in 1..Len(Queue') :
          /\ Queue'[i] # "SEND"
          /\ Queue'[i] = "DONE" => i = Len(Queue')
          /\ Queue'[i] # "QUIT"
    BY <2>1, <2>2 DEF SyncInv
  <2>4. reply # "OKAY" /\ status # "OKAY" /\ 1 \in 1..Len(Queue)
    BY <2>1, <2>2 DEF SyncInv
  <2>5. at' = "writing" => todo' # <<>>
    BY <1>1, <2>1 DEF SyncInv
  <2>6. at' # "writing" => todo' = <<>>
    BY <1>1, <2>1 DEF SyncInv
  <2>7. Head(pipe) \in {"SEND", "DATA", "DONE"}
    <3>1. Head(pipe) \in {"SEND", "DATA", "DONE", "QUIT"}
      BY <1>0, <1>1 DEF StreamTyped
    <3> QED
      BY <2>1, <2>2, <2>4, <3>1 DEF SyncInv
  <2>8. Head(pipe) # "SEND" => failing \/ mode[Doing] = ModeOf(Doing)
    BY <2>1, <2>2 DEF SyncInv
  <2>9. failing' \/ mode'[Doing] = ModeOf(Doing)
    <3>1. CASE Head(pipe) = "SEND"
      <4>1. \/ mode' = [mode EXCEPT ![Doing] = ModeOf(Doing)]
            \/ failing'
        BY <3>1 DEF SyncTakes, Fail
      <4> QED
        BY <1>0, <1>1, <4>1 DEF PhoneTyped
    <3>2. CASE Head(pipe) # "SEND"
      <4>1. failing' \/ (failing' = failing /\ mode' = mode)
        BY <3>2 DEF SyncTakes, Fail
      <4> QED
        BY <2>8, <3>2, <4>1
    <3> QED
      BY <3>1, <3>2
  <2>10. reply' = "OKAY" => Queue' = <<>> /\ file'[Doing] = "whole" /\ mode'[Doing] = ModeOf(Doing)
    <3> SUFFICES ASSUME reply' = "OKAY"
                 PROVE  Queue' = <<>> /\ file'[Doing] = "whole" /\ mode'[Doing] = ModeOf(Doing)
      OBVIOUS
    <3>1. /\ Head(pipe) = "DONE" /\ ~failing
          /\ file' = [file EXCEPT ![Doing] = "whole"] /\ mode' = mode
      BY <2>4 DEF SyncTakes, Fail
    <3>2. 1 = Len(Queue)
      BY <2>1, <2>2, <2>4, <3>1 DEF SyncInv
    <3>3. Queue' = <<>>
      BY <2>2, <3>2
    <3>4. file'[Doing] = "whole"
      BY <1>0, <1>1, <3>1 DEF PhoneTyped
    <3>5. mode'[Doing] = ModeOf(Doing)
      BY <2>8, <3>1
    <3> QED
      BY <3>3, <3>4, <3>5
  <2>11. status' # "OKAY" /\ reply' # "output"
    BY <1>1, <1>4, <2>1, <2>4 DEF SyncInv
  <2>12. SyncInv'
    BY <1>3, <2>3, <2>5, <2>6, <2>9, <2>10, <2>11 DEF SyncInv, Good
  <2>13. StageInv'
    BY <1>1, <1>3, <1>8, <2>12 DEF StageInv
  <2> QED
    BY <1>2, <1>5, <1>6, <1>7, <2>13, Whole
<1>9. CASE at \notin {"writing", "status", "quit"}
  <2>1. StageInv'
    BY <1>0, <1>1, <1>3, <1>9 DEF StageInv
  <2> QED
    BY <1>2, <1>5, <1>6, <1>7, <2>1, Whole
<1> QED
  BY <1>8, <1>9

------------------------------------------------------------------------------

LEMMA NextKeeps == DeployInv /\ [Next]_vars => DeployInv'
<1> SUFFICES ASSUME DeployInv, [Next]_vars PROVE DeployInv'
  OBVIOUS
<1>1. CASE ConnectNext /\ UNCHANGED <<step, stream, phone>>
  BY <1>1, ConnectKeeps
<1>2. CASE Deploys
  BY <1>2, BetweenKeeps, OpenedKeeps, WriteKeeps, ReadStatusKeeps, QuitKeeps, ShellKeeps DEF Deploys
<1>3. CASE CommandPrints
  BY <1>3, ShellKeeps
<1>4. CASE SyncTakes
  BY <1>4, SyncTakesKeeps
<1>5. CASE \E c \in Command : CommandEnds(c)
  BY <1>5, CommandEndsKeeps
<1>6. CASE UNCHANGED vars
  <2>1. UNCHANGED connect /\ at' = at /\ UNCHANGED <<step, stream, phone>>
    BY <1>6 DEF vars, connect
  <2> QED
    BY <2>1, ConnectAside, StreamAside, Whole
<1> QED
  BY <1>1, <1>2, <1>3, <1>4, <1>5, <1>6 DEF Next

\* DeployInv holds in every state the program can reach.
LEMMA Invariant == Spec => []DeployInv
BY InitInv, NextKeeps, PTL DEF Spec

------------------------------------------------------------------------------

\* Every variable keeps its type.
THEOREM TypeCorrect == Spec => []TypeOK
<1>1. DeployInv => TypeOK
  BY DEF DeployInv
<1> QED
  BY <1>1, Invariant, PTL

\* connect leads to the device that was named, or to the one phone on USB, whatever else is on
\* the bus or known to the adb server.
THEOREM DeviceIsRight == Spec => []RightDevice
<1>1. DeployInv => RightDevice
  BY TargetIsRight DEF DeployInv
<1> QED
  BY <1>1, Invariant, PTL

\* handshake makes a phone that trusts the key prompt only if a leftover token misled it.
THEOREM PromptIsNeeded == Spec => []NoNeedlessPrompt
<1>1. DeployInv => NoNeedlessPrompt
  BY DEF DeployInv, PromptInv, NoNeedlessPrompt
<1> QED
  BY <1>1, Invariant, PTL

\* deploy launches the server only from files it has pushed completely, with their modes.
THEOREM LaunchFindsFiles == Spec => []LaunchHasFiles
<1>1. DeployInv => LaunchHasFiles
  <2> SUFFICES ASSUME DeployInv, Doing = "launch"
               PROVE  \A f \in File : file[f] = "whole" /\ mode[f] = ModeOf(f)
    BY DEF LaunchHasFiles
  <2>1. step = 5
    BY Whole, WhatIsDoing
  <2>2. Good("so") /\ Good("dex")
    BY <2>1, Whole DEF DoneInv
  <2> QED
    BY <2>2 DEF Good, File
<1> QED
  BY <1>1, Invariant, PTL

=============================================================================
