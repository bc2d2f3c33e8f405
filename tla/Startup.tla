------------------------------ MODULE Startup ------------------------------
(***************************************************************************)
(* How a host comes to a mirror, over several runs of the host:            *)
(* crates/native/src/main.rs (prepare, open_retry), the two back ends'     *)
(* open_stream, adbd and the abstract socket, and on the device the        *)
(* processes that serve (crates/server/src/android: run.rs, net.rs) with   *)
(* the setting that power.rs borrows.                                      *)
(*                                                                         *)
(* Run r of the host launches server process r. A connection <<r, a>> is   *)
(* the a-th open of run r. MirrorServer has what a server does once it     *)
(* serves, AdbClient what becomes of an open.                              *)
(***************************************************************************)
EXTENDS Integers, Sequences

CONSTANTS
  MaxRuns,  \* bound: runs of the host
  Attempts  \* opens open_retry tries (40)

ASSUME BoundsAssumption == MaxRuns \in Nat /\ Attempts \in Nat \ {0}

Runs        == 1..MaxRuns
Connections == Runs \X (1..Attempts)
NoConn      == <<0, 0>>

VARIABLES
  run,       \* the current run of the host, or the last one
  backend,   \* the back end it uses
  host,      \* where it is in prepare and session
  attempt,   \* opens it has tried
  timed_out, \* history: one of them timed out
  greeted,   \* history: it has the handshake
  opens,     \* per connection: the request, as adbd and the link see it
  closed,    \* connections that have ended
  server,    \* per run: where the process it launched is
  served,    \* per run: the connection that process accepted
  changed,   \* per run: StayAwake.previous_stay_on is Some
  listener,  \* the process that has bound localabstract:droidmirror
  backlog,   \* connections it has not accepted
  setting,   \* stay_on_while_plugged_in
  original,  \* history: its value before the first run
  unrestored     \* history: a process was killed, or could not put the setting back

client == <<run, backend, host, attempt, timed_out, greeted>>
links  == <<opens, closed>>
socket == <<listener, backlog>>
power  == <<changed, setting, original>>
vars   == <<client, links, server, served, socket, power, unrestored>>

Init ==
  /\ run = 0 /\ backend = "device" /\ host = "off"
  /\ attempt = 0 /\ timed_out = FALSE /\ greeted = FALSE
  /\ opens = [c \in Connections |-> "none"] /\ closed = {}
  /\ server = [s \in Runs |-> "none"]
  /\ served = [s \in Runs |-> NoConn]
  /\ changed = [s \in Runs |-> FALSE]
  /\ listener = 0 /\ backlog = <<>>
  /\ setting \in {"off", "on"} /\ original = setting
  /\ unrestored = FALSE

------------------------------------------------------------------------------
(* The host. *)

\* The open it waits for, or its video stream.
Video == <<run, attempt>>

\* connect and deploy are over; the shell that runs the server is open.
Launch ==
  /\ host = "off" /\ run < MaxRuns
  /\ run' = run + 1
  /\ backend' \in {"device", "adb server"}
  /\ host' = "opening"
  /\ attempt' = 0 /\ timed_out' = FALSE /\ greeted' = FALSE
  /\ server' = [server EXCEPT ![run + 1] = "get"]
  /\ UNCHANGED <<links, served, socket, power, unrestored>>

\* Mutant: one open too many.
OpenOneMore ==
  /\ host = "opening" /\ attempt <= Attempts
  /\ attempt' = attempt + 1
  /\ host' = "waiting"
  /\ opens' = [opens EXCEPT ![<<run, attempt + 1>>] = "asked"]
  /\ UNCHANGED <<run, backend, timed_out, greeted, closed, server, served, socket, power, unrestored>>

Open ==
  /\ host = "opening" /\ attempt < Attempts
  /\ attempt' = attempt + 1
  /\ host' = "waiting"
  /\ opens' = [opens EXCEPT ![<<run, attempt + 1>>] = "asked"]
  /\ UNCHANGED <<run, backend, timed_out, greeted, closed, server, served, socket, power, unrestored>>

\* Mutant: the count of opens starts again.
GiveUpNever ==
  /\ host = "opening" /\ attempt = Attempts
  /\ attempt' = 0
  /\ UNCHANGED <<run, backend, host, timed_out, greeted, links, server, served, socket, power, unrestored>>

\* Every open has failed.
GiveUp ==
  /\ host = "opening" /\ attempt = Attempts
  /\ host' = "failed"
  /\ UNCHANGED <<run, backend, attempt, timed_out, greeted, links, server, served, socket, power, unrestored>>

OpenOk ==
  /\ host = "waiting" /\ opens[Video] = "okay"
  /\ host' = "prepared"
  /\ UNCHANGED <<run, backend, attempt, timed_out, greeted, links, server, served, socket, power, unrestored>>

OpenRefused ==
  /\ host = "waiting" /\ opens[Video] = "refused"
  /\ host' = "opening"
  /\ UNCHANGED <<run, backend, attempt, timed_out, greeted, links, server, served, socket, power, unrestored>>

\* AdbClient gives up after 10 s, whether adbd has not decided or its answer is on its way,
\* and sends no CLSE; AdbServer waits.
OpenTimeout ==
  /\ host = "waiting" /\ backend = "device"
  /\ host' = "opening" /\ timed_out' = TRUE
  /\ UNCHANGED <<run, backend, attempt, greeted, links, server, served, socket, power, unrestored>>

\* The process ends, after a failure, at the user's wish or not; adbd drops its connections.
HostExits ==
  /\ host # "off"
  /\ host' = "off"
  /\ closed' = closed \cup {c \in Connections : c[1] = run}
  /\ UNCHANGED <<run, backend, attempt, timed_out, greeted, opens, server, served, socket, power, unrestored>>

Host == Open \/ GiveUp \/ OpenOk \/ OpenRefused \/ OpenTimeout

------------------------------------------------------------------------------
(* adbd connects to the abstract socket. *)

\* listen(fd, 1): a connect has to wait while more than one is waiting for accept.
ListenBacklog == 1

AdbdConnects(c) ==
  /\ opens[c] = "asked" /\ c \notin closed
  /\ listener # 0 /\ Len(backlog) <= ListenBacklog
  /\ opens' = [opens EXCEPT ![c] = "okay"]
  /\ backlog' = Append(backlog, c)
  /\ UNCHANGED <<client, closed, server, served, listener, power, unrestored>>

AdbdRefuses(c) ==
  /\ opens[c] = "asked" /\ c \notin closed
  /\ listener = 0
  /\ opens' = [opens EXCEPT ![c] = "refused"]
  /\ UNCHANGED <<client, closed, server, served, socket, power, unrestored>>

Adbd == \E c \in Connections : AdbdConnects(c) \/ AdbdRefuses(c)

------------------------------------------------------------------------------
(* A server process. *)

Goes(s, to) == server' = [server EXCEPT ![s] = to]

\* settings_get: the setting is on already, or the command failed, or it is to be changed.
SettingsGet(s) ==
  /\ server[s] = "get"
  /\ \/ Goes(s, "bind")
     \/ setting = "off" /\ Goes(s, "put")
  /\ UNCHANGED <<client, links, served, socket, power, unrestored>>

SettingsPut(s) ==
  /\ server[s] = "put"
  /\ Goes(s, "bind")
  /\ \/ setting' = "on" /\ changed' = [changed EXCEPT ![s] = TRUE]
     \/ UNCHANGED <<setting, changed>>
  /\ UNCHANGED <<client, links, served, socket, original, unrestored>>

\* The socket is bound after the encoder has started; either may fail.
Bind(s) ==
  /\ server[s] = "bind"
  /\ \/ listener = 0 /\ listener' = s /\ Goes(s, "accept")
     \/ Goes(s, "restore") /\ UNCHANGED listener
  /\ UNCHANGED <<client, links, served, backlog, power, unrestored>>

\* One connection, ever.
Accept(s) ==
  /\ server[s] = "accept" /\ backlog # <<>>
  /\ served' = [served EXCEPT ![s] = Head(backlog)]
  /\ backlog' = Tail(backlog)
  /\ Goes(s, "greet")
  /\ UNCHANGED <<client, links, listener, power, unrestored>>

\* The handshake reaches whoever opened the connection; a timed-out open has no reader.
Greet(s) ==
  /\ server[s] = "greet" /\ served[s] \notin closed
  /\ Goes(s, "serving")
  /\ UNCHANGED <<client, links, served, socket, power, unrestored>>

Backlogged == {backlog[i] : i \in 1..Len(backlog)}

\* Mutant: the server drops its listener but not the connection it served.
LeavesConnection(s) ==
  /\ closed' = closed \cup Backlogged
  /\ listener' = 0 /\ backlog' = <<>>

\* Mutant: the listener outlives the session, and what waits there with it.
LeavesBacklog(s) ==
  /\ closed' = closed \cup ({served[s]} \ {NoConn})
  /\ listener' = 0 /\ backlog' = <<>>

\* What leaving serve_session closes: the listener, what waits there, and the connection.
Leaves(s) ==
  /\ closed' = closed \cup Backlogged \cup ({served[s]} \ {NoConn})
  /\ listener' = 0 /\ backlog' = <<>>

\* The connection has ended, as a write or a read finds out.
SessionEnds(s) ==
  /\ server[s] \in {"greet", "serving"} /\ served[s] \in closed
  /\ Leaves(s)
  /\ Goes(s, "restore")
  /\ UNCHANGED <<client, opens, served, power, unrestored>>

\* Mutant: only a session that was served puts the setting back.
RestoreServed(s) ==
  /\ server[s] = "restore"
  /\ setting' = IF changed[s] /\ served[s] # NoConn THEN "off" ELSE setting
  /\ Goes(s, "over")
  /\ UNCHANGED <<client, links, served, socket, changed, original, unrestored>>

\* StayAwake.release; a failure is only logged.
Restore(s) ==
  /\ server[s] = "restore"
  /\ \/ /\ setting' = IF changed[s] THEN "off" ELSE setting
        /\ UNCHANGED unrestored
     \/ changed[s] /\ unrestored' = TRUE /\ UNCHANGED setting
  /\ Goes(s, "over")
  /\ UNCHANGED <<client, links, served, socket, changed, original>>

Killed(s) ==
  /\ server[s] \notin {"none", "over", "killed"}
  /\ IF listener = s THEN Leaves(s) ELSE UNCHANGED <<closed, socket>>
  /\ Goes(s, "killed")
  /\ unrestored' = TRUE
  /\ UNCHANGED <<client, opens, served, power>>

Server(s) ==
  SettingsGet(s) \/ SettingsPut(s) \/ Bind(s) \/ Accept(s) \/ Greet(s) \/ SessionEnds(s) \/ Restore(s)

\* The session task reads the handshake from its stream.
HandshakeArrives ==
  /\ host = "prepared" /\ ~greeted
  /\ \E s \in Runs : server[s] = "serving" /\ served[s] = Video
  /\ greeted' = TRUE
  /\ UNCHANGED <<run, backend, host, attempt, timed_out, links, server, served, socket, power, unrestored>>

Next ==
  \/ Launch \/ Host \/ HostExits \/ HandshakeArrives
  \/ Adbd
  \/ \E s \in Runs : Server(s) \/ Killed(s)

Spec == Init /\ [][Next]_vars

\* The host, adbd and the server processes run; nobody has to start or end anything.
FairSpec ==
  /\ Spec
  /\ WF_vars(Host) /\ WF_vars(HandshakeArrives) /\ WF_vars(Adbd)
  /\ \A s \in Runs : WF_vars(Server(s))

------------------------------------------------------------------------------
(* Properties. *)

ServerPoints == {"none", "get", "put", "bind", "accept", "greet", "serving", "restore", "over", "killed"}

\* Every variable holds a value of its type.
TypeOK ==
  /\ run \in 0..MaxRuns /\ backend \in {"device", "adb server"}
  /\ host \in {"off", "opening", "waiting", "prepared", "failed"}
  /\ attempt \in 0..Attempts /\ timed_out \in BOOLEAN /\ greeted \in BOOLEAN
  /\ opens \in [Connections -> {"none", "asked", "okay", "refused"}]
  /\ closed \subseteq Connections
  /\ server \in [Runs -> ServerPoints]
  /\ served \in [Runs -> Connections \cup {NoConn}]
  /\ changed \in [Runs -> BOOLEAN]
  /\ listener \in 0..MaxRuns /\ backlog \in Seq(Connections)
  /\ setting \in {"off", "on"} /\ original \in {"off", "on"} /\ unrestored \in BOOLEAN

\* Processes that overlap, started and ended in any order, leave the device's setting as
\* they found it, if none is killed and every one that has to put it back can.
SettingRestored ==
  ~unrestored /\ (\A s \in Runs : server[s] \in {"none", "over"}) => setting = original

\* A host that has a handshake on a live stream is the one a server serves: its stream is
\* never left without a server, nor taken over by another host.
LiveMirrorIsServed ==
  greeted /\ host = "prepared" /\ Video \notin closed =>
    \E s \in Runs : server[s] = "serving" /\ served[s] = Video

\* prepare comes to a result.
PrepareEnds == host \in {"opening", "waiting"} ~> host \in {"prepared", "failed", "off"}

\* A host whose opens were all answered in time is not left in front of a stream on which
\* nothing comes: it gets the handshake or sees the stream closed, even if a server of an
\* earlier run still holds the socket.
NoSilentMirror ==
  host = "prepared" /\ ~timed_out ~> greeted \/ Video \in closed \/ host # "prepared"

=============================================================================
