-------------------------------- MODULE Connect --------------------------------
(***************************************************************************)
(* How the host gets a connection: connect of crates/native/src/main.rs,   *)
(* connect_usb and connect_tcp of crates/transport/src/lib.rs with the     *)
(* choice of the device (usb.rs, pick_serial of server.rs), and the AUTH   *)
(* handshake of client.rs. What is done with the connection is Deploy.     *)
(*                                                                         *)
(* External, modelled from how the host uses it: the USB bus, the adb      *)
(* server's list of devices, the device's adbd and its user. What an       *)
(* earlier process did not read may still be in the USB pipe: packets of   *)
(* its streams, a token adbd has replaced since, or a CNXN.                *)
(***************************************************************************)
EXTENDS Naturals, Sequences, FiniteSets

CONSTANTS
  Phones,      \* serials of devices on the bus or known to the adb server
  Emulators,   \* serials emulator-*, which only the adb server knows
  NoSerial,    \* no --serial is given
  Address,     \* --tcp is given; stands for the address and its device
  MaxLeftover, \* bound: packets an earlier process left in the pipe
  PipeDepth    \* bound: packets on their way in one direction

ASSUME ConnectAssumption ==
  /\ IsFiniteSet(Phones) /\ IsFiniteSet(Emulators) /\ Phones \cap Emulators = {}
  /\ NoSerial \notin Phones \cup Emulators /\ Address \notin Phones \cup Emulators \cup {NoSerial}
  /\ MaxLeftover \in Nat /\ PipeDepth \in Nat \ {0}

Serials == Phones \cup Emulators

\* Tokens are told apart as long as their packets are about: number 0 is an earlier process's.
Token  == 0..3
ToHost == [kind: {"CNXN", "TOKEN", "stream"}, token: Token, old: BOOLEAN]
ToAdbd == [kind: {"CNXN", "SIGNATURE", "PUBLICKEY"}, token: Token]

Handshaking == {"hello", "await", "sign", "offer"}
Connecting  == {"start", "ask_server"} \cup Handshaking

VARIABLES
  asked,     \* --serial, --tcp, or neither
  usb,       \* phones with an ADB interface, when the bus was looked at
  listed,    \* the adb server's list, when it was asked
  at,        \* where the host is
  via,       \* the link or back end in use
  target,    \* the device at its other end
  clock,     \* the 60 s of the handshake
  signed,    \* sent_signature
  hand,      \* the token in the host's hands
  toAdbd, toHost,
  adbd,      \* what the device's adbd makes of this host
  token,     \* the token adbd waits for an answer to
  trusted,   \* adbd knows the host's key
  prompted,  \* history: the public key made the phone show its prompt
  misled     \* history: kinds of the leftover packets the handshake took

world     == <<asked, usb, listed>>
pipes     == <<toAdbd, toHost>>
handshake == <<clock, signed, hand, pipes, adbd, token, trusted, prompted, misled>>

Leftovers ==
  UNION {[1..k -> {[kind |-> c, token |-> 0, old |-> TRUE] : c \in {"CNXN", "TOKEN", "stream"}}] :
           k \in 0..MaxLeftover}

ConnectInit ==
  /\ asked \in Serials \cup {NoSerial, Address}
  /\ usb = {} /\ listed = [d \in Serials |-> "absent"]
  /\ at = "start" /\ via = "none" /\ target = NoSerial
  /\ clock = "running" /\ signed = FALSE /\ hand = 0
  /\ toAdbd = <<>> /\ toHost = <<>>
  /\ adbd = "offline" /\ token = 0 /\ trusted \in BOOLEAN
  /\ prompted = FALSE /\ misled = {}

------------------------------------------------------------------------------
(* Choosing the device and the back end. *)

GiveUp == at' = "failed"

\* The handshake returns: its locals are gone.
Leave == clock' = "running" /\ signed' = FALSE /\ hand' = 0

ConnectTcp ==
  /\ at = "start" /\ asked = Address
  /\ \/ at' = "hello" /\ via' = "tcp" /\ target' = Address
     \/ GiveUp /\ UNCHANGED <<via, target>>
  /\ UNCHANGED <<world, handshake>>

Found(bus) == {d \in bus : asked \in {NoSerial, d}}

\* open_usb. Only a busy interface makes connect_usb turn to the adb server.
OpenUsb ==
  /\ at = "start" /\ asked # Address
  /\ usb' \in SUBSET Phones
  /\ \/ /\ Cardinality(Found(usb')) = 1
        /\ at' = "hello" /\ via' = "usb" /\ target' \in Found(usb')
        /\ toHost' \in Leftovers
     \/ /\ Found(usb') # {} /\ (asked = NoSerial => Cardinality(Found(usb')) = 1)
        /\ at' = "ask_server"
        /\ UNCHANGED <<via, target, toHost>>
     \/ /\ GiveUp
        /\ UNCHANGED <<via, target, toHost>>
  /\ UNCHANGED <<asked, listed, clock, signed, hand, toAdbd, adbd, token, trusted, prompted, misled>>

Listing == [Serials -> {"absent", "device", "unauthorized"}]
Online(list) == {d \in Serials : list[d] = "device"}

\* Mutant: an emulator counts as much as a phone, and any of the list is taken.
PickSerialFirst(list) ==
  IF asked # NoSerial THEN Online(list) \cap {asked} ELSE Online(list)

\* The device pick_serial takes, if there is exactly one to take.
PickSerial(list) ==
  LET hardware   == Online(list) \ Emulators
      candidates == IF hardware = {} THEN Online(list) ELSE hardware
  IN IF asked # NoSerial THEN Online(list) \cap {asked}
     ELSE IF Cardinality(candidates) = 1 THEN candidates ELSE {}

\* AdbServer::connect; the server may not be running.
AskServer ==
  /\ at = "ask_server"
  /\ \/ /\ listed' \in Listing
        /\ target' \in PickSerial(listed')
        /\ via' = "server" /\ at' = "connected"
     \/ /\ GiveUp
        /\ UNCHANGED <<via, target, listed>>
  /\ UNCHANGED <<asked, usb, handshake>>

------------------------------------------------------------------------------
(* handshake *)

SendAdbd(kind, t) ==
  /\ Len(toAdbd) < PipeDepth
  /\ toAdbd' = Append(toAdbd, [kind |-> kind, token |-> t])

SendHello ==
  /\ at = "hello"
  /\ SendAdbd("CNXN", 0)
  /\ at' = "await"
  /\ UNCHANGED <<world, via, target, clock, signed, hand, toHost, adbd, token, trusted, prompted, misled>>

\* Mutant: each read has 60 s of its own.
ClockRunsOutPerRead ==
  /\ at = "await" /\ toHost = <<>>
  /\ clock = "running"
  /\ clock' = "over"
  /\ UNCHANGED <<world, at, via, target, signed, hand, pipes, adbd, token, trusted, prompted, misled>>

\* One deadline for the whole handshake, looked at before each read.
ClockRunsOut ==
  /\ at \in Handshaking \ {"hello"}
  /\ clock = "running"
  /\ clock' = "over"
  /\ UNCHANGED <<world, at, via, target, signed, hand, pipes, adbd, token, trusted, prompted, misled>>

HandshakeTimeout ==
  /\ at = "await" /\ clock = "over"
  /\ GiveUp /\ Leave
  /\ UNCHANGED <<world, via, target, pipes, adbd, token, trusted, prompted, misled>>

Arrives(kind) ==
  /\ at = "await" /\ clock = "running"
  /\ toHost # <<>> /\ Head(toHost).kind = kind
  /\ toHost' = Tail(toHost)
  /\ misled' = misled \cup (IF Head(toHost).old THEN {kind} ELSE {})

TakeCnxn ==
  /\ Arrives("CNXN")
  /\ at' = "connected" /\ Leave
  /\ UNCHANGED <<world, via, target, toAdbd, adbd, token, trusted, prompted>>

\* Mutant: the public key is offered at once.
TakeTokenOffersKey ==
  /\ Arrives("TOKEN")
  /\ hand' = Head(toHost).token
  /\ at' = "offer"
  /\ UNCHANGED <<world, via, target, clock, signed, toAdbd, adbd, token, trusted, prompted>>

\* The first token is signed, every later one is answered with the public key.
TakeToken ==
  /\ Arrives("TOKEN")
  /\ hand' = Head(toHost).token
  /\ at' = IF signed THEN "offer" ELSE "sign"
  /\ UNCHANGED <<world, via, target, clock, signed, toAdbd, adbd, token, trusted, prompted>>

SendSignature ==
  /\ at = "sign"
  /\ SendAdbd("SIGNATURE", hand)
  /\ signed' = TRUE
  /\ at' = "await"
  /\ UNCHANGED <<world, via, target, clock, hand, toHost, adbd, token, trusted, prompted, misled>>

SendPublicKey ==
  /\ at = "offer"
  /\ SendAdbd("PUBLICKEY", 0)
  /\ at' = "await"
  /\ UNCHANGED <<world, via, target, clock, signed, hand, toHost, adbd, token, trusted, prompted, misled>>

\* "unexpected .. during connect": no reason to try the adb server.
Unexpected ==
  /\ Arrives("stream")
  /\ GiveUp /\ Leave
  /\ UNCHANGED <<world, via, target, toAdbd, adbd, token, trusted, prompted>>

\* A failed transfer sends connect_usb to the adb server, connect_tcp home.
TransferFails ==
  /\ at \in Handshaking
  /\ at' = IF via = "usb" THEN "ask_server" ELSE "failed"
  /\ via' = "none" /\ target' = NoSerial
  /\ toAdbd' = <<>> /\ toHost' = <<>> /\ adbd' = "offline" /\ token' = 0
  /\ Leave
  /\ UNCHANGED <<world, trusted, prompted, misled>>

HostConnects ==
  \/ ConnectTcp \/ OpenUsb \/ AskServer \/ SendHello \/ HandshakeTimeout
  \/ TakeCnxn \/ TakeToken \/ SendSignature \/ SendPublicKey \/ Unexpected

------------------------------------------------------------------------------
(* adbd and the user of the phone. *)

Post(kind, t) ==
  /\ Len(toHost) < PipeDepth + MaxLeftover
  /\ toHost' = Append(toHost, [kind |-> kind, token |-> t, old |-> FALSE])

Admit == adbd' = "online" /\ Post("CNXN", 0) /\ UNCHANGED token
Ask   == adbd' = "asking" /\ token' = (token % 3) + 1 /\ Post("TOKEN", token')

AdbdTakes ==
  /\ toAdbd # <<>> /\ at \notin {"failed", "launched"}
  /\ toAdbd' = Tail(toAdbd)
  /\ LET p == Head(toAdbd) IN
       \/ p.kind = "CNXN" /\ (Admit \/ Ask) /\ UNCHANGED prompted
       \/ /\ p.kind = "SIGNATURE" /\ adbd # "online"
          /\ IF trusted /\ p.token = token THEN Admit ELSE Ask
          /\ UNCHANGED prompted
       \/ /\ p.kind = "PUBLICKEY" /\ adbd # "online"
          /\ adbd' = "prompting" /\ prompted' = TRUE
          /\ UNCHANGED <<token, toHost>>
       \/ /\ p.kind # "CNXN" /\ adbd = "online"
          /\ UNCHANGED <<adbd, token, toHost, prompted>>
  /\ UNCHANGED <<world, at, via, target, clock, signed, hand, trusted, misled>>

UserAllows ==
  /\ adbd = "prompting"
  /\ Admit
  /\ UNCHANGED <<world, at, via, target, clock, signed, hand, toAdbd, trusted, prompted, misled>>

\* The prompt is put away: adbd asks once more.
UserDeclines ==
  /\ adbd = "prompting"
  /\ Ask
  /\ UNCHANGED <<world, at, via, target, clock, signed, hand, toAdbd, trusted, prompted, misled>>

ConnectNext ==
  \/ HostConnects \/ ClockRunsOut \/ TransferFails
  \/ AdbdTakes \/ UserAllows \/ UserDeclines

------------------------------------------------------------------------------
(* Properties. *)

ConnectTypes ==
  /\ asked \in Serials \cup {NoSerial, Address} /\ usb \subseteq Phones
  /\ listed \in Listing
  /\ via \in {"none", "usb", "tcp", "server"} /\ target \in Serials \cup {Address, NoSerial}
  /\ clock \in {"running", "over"} /\ signed \in BOOLEAN /\ hand \in Token
  /\ toAdbd \in Seq(ToAdbd) /\ toHost \in Seq(ToHost)
  /\ adbd \in {"offline", "asking", "prompting", "online"} /\ token \in Token
  /\ trusted \in BOOLEAN /\ prompted \in BOOLEAN /\ misled \subseteq {"CNXN", "TOKEN", "stream"}

\* Whichever way the connection is made, it leads to the device that was meant: the one that
\* was named, or else the one phone on USB, provided that the adb server, when it has to be
\* asked, shows it as a device (README.md:213). An emulator never comes in between.
RightDevice ==
  via # "none" /\ at # "failed" =>
    /\ asked # NoSerial => target = asked
    /\ asked = NoSerial /\ Cardinality(usb) = 1 /\ (via = "server" => usb \subseteq Online(listed))
         => target \in usb

\* A phone that trusts the key does not prompt (README.md:144), unless a leftover token took
\* the place of the one that was to be signed.
NoNeedlessPrompt == trusted /\ prompted => "TOKEN" \in misled

===============================================================================
