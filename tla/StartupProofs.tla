--------------------------- MODULE StartupProofs ---------------------------
(***************************************************************************)
(* The safety properties of Startup for any number of runs and of opens.   *)
(* Borrowed says who still owes the setting its old value; OneListener     *)
(* and Greeted what a session rests on.                                    *)
(***************************************************************************)
EXTENDS Startup, TLAPS

\* A process that has changed the setting and will put it back.
Owes(s) == changed[s] /\ server[s] \in {"bind", "accept", "greet", "serving", "restore"}

\* The setting is as it was, or a process owes it that.
Borrowed ==
  /\ original = "on" => setting = "on" /\ \A s \in Runs : ~changed[s] /\ server[s] # "put"
  /\ ~unrestored /\ setting # original => \E s \in Runs : Owes(s)

\* The processes between bind and the end of their session are the one that has bound.
OneListener == \A s \in Runs : server[s] \in {"accept", "greet", "serving"} <=> listener = s

\* A run that has not begun has no process.
NotBegun == \A s \in Runs : s > run => server[s] = "none"

\* The handshake comes after prepare, on a connection the host has opened.
Greeted ==
  /\ greeted => host \in {"prepared", "off"}
  /\ host # "off" => run \in Runs
  /\ host \in {"waiting", "prepared"} => attempt \in 1..Attempts

\* The inductive invariant.
StartupInv ==
  /\ TypeOK /\ Borrowed /\ OneListener /\ NotBegun /\ Greeted /\ LiveMirrorIsServed

\* Init satisfies the invariant.
LEMMA InitInv == Init => StartupInv
<1> SUFFICES ASSUME Init PROVE StartupInv
  OBVIOUS
<1> USE BoundsAssumption DEF Init
<1>1. TypeOK
  <2>1. run \in 0..MaxRuns /\ attempt \in 0..Attempts /\ listener \in 0..MaxRuns
    OBVIOUS
  <2>2. /\ opens \in [Connections -> {"none", "asked", "okay", "refused"}] /\ closed \subseteq Connections
        /\ served \in [Runs -> Connections \cup {NoConn}] /\ backlog \in Seq(Connections)
    OBVIOUS
  <2>3. server \in [Runs -> ServerPoints] /\ changed \in [Runs -> BOOLEAN]
    BY DEF ServerPoints
  <2>4. QED
    BY <2>1, <2>2, <2>3 DEF TypeOK
<1>2. Borrowed
  BY DEF Borrowed
<1>3. OneListener /\ NotBegun /\ Greeted /\ LiveMirrorIsServed
  BY DEF OneListener, NotBegun, Greeted, LiveMirrorIsServed, Runs
<1>4. QED
  BY <1>1, <1>2, <1>3 DEF StartupInv

\* What TypeOK says of the numbers and of the backlog.
LEMMA Numbers ==
  TypeOK => run \in 0..MaxRuns /\ attempt \in 0..Attempts /\ listener \in 0..MaxRuns /\ backlog \in Seq(Connections)
BY DEF TypeOK

\* What a step of the host, of the link or of adbd keeps: it does not touch the processes.
LEMMA HostKeeps ==
  ASSUME StartupInv, Host \/ HostExits \/ HandshakeArrives \/ Adbd
  PROVE  StartupInv'
<1> USE BoundsAssumption DEF StartupInv
<1>1. UNCHANGED <<run, server, served, changed, listener, setting, original, unrestored>>
  BY DEF Host, Open, GiveUp, OpenOk, OpenRefused, OpenTimeout, HostExits, HandshakeArrives, Adbd,
         AdbdConnects, AdbdRefuses, client, links, socket, power
<1>2. Borrowed' /\ OneListener' /\ NotBegun'
  BY <1>1 DEF Borrowed, Owes, OneListener, NotBegun
<1>3. CASE Open
  <2>1. attempt' \in 1..Attempts
    <3>1. attempt' = attempt + 1 /\ attempt < Attempts
      BY <1>3 DEF Open
    <3>2. QED
      BY <3>1, Numbers
  <2>2. opens' \in [Connections -> {"none", "asked", "okay", "refused"}]
    BY <1>3 DEF Open, TypeOK
  <2>3. host' = "waiting" /\ UNCHANGED <<run, backend, timed_out, greeted, closed, server, served, socket, power, unrestored>>
    BY <1>3 DEF Open
  <2>4. TypeOK'
    <3>1. attempt' \in 0..Attempts
      BY <2>1
    <3>2. QED
      BY <2>2, <2>3, <3>1 DEF TypeOK, socket, power
  <2>5. ~greeted /\ run \in Runs
    BY <1>3 DEF Open, Greeted
  <2>6. Greeted'
    BY <2>1, <2>3, <2>5 DEF Greeted
  <2>7. LiveMirrorIsServed'
    BY <2>3 DEF LiveMirrorIsServed
  <2>8. QED
    BY <1>2, <2>4, <2>6, <2>7
<1>4. CASE GiveUp \/ OpenOk \/ OpenRefused \/ OpenTimeout
  <2>1. TypeOK'
    BY <1>4 DEF GiveUp, OpenOk, OpenRefused, OpenTimeout, TypeOK, links, socket, power
  <2>2. Greeted' /\ LiveMirrorIsServed'
    BY <1>4 DEF GiveUp, OpenOk, OpenRefused, OpenTimeout, Greeted, LiveMirrorIsServed
  <2>3. QED
    BY <1>2, <2>1, <2>2
<1>5. CASE HostExits
  <2>1. TypeOK'
    BY <1>5 DEF HostExits, TypeOK, socket, power
  <2>2. Greeted' /\ LiveMirrorIsServed'
    BY <1>5 DEF HostExits, Greeted, LiveMirrorIsServed
  <2>3. QED
    BY <1>2, <2>1, <2>2
<1>6. CASE HandshakeArrives
  <2>1. TypeOK'
    BY <1>6 DEF HandshakeArrives, TypeOK, links, socket, power
  <2>2. Greeted' /\ LiveMirrorIsServed'
    BY <1>6 DEF HandshakeArrives, Greeted, LiveMirrorIsServed, Video
  <2>3. QED
    BY <1>2, <2>1, <2>2
<1>7. CASE Adbd
  <2> SUFFICES ASSUME NEW c \in Connections, AdbdConnects(c) \/ AdbdRefuses(c)
               PROVE  StartupInv'
    BY <1>7 DEF Adbd
  <2>1. opens' \in [Connections -> {"none", "asked", "okay", "refused"}]
    BY DEF AdbdConnects, AdbdRefuses, TypeOK
  <2>2. backlog' \in Seq(Connections)
    <3>1. CASE AdbdConnects(c)
      BY <3>1, Numbers DEF AdbdConnects
    <3>2. CASE AdbdRefuses(c)
      BY <3>2, Numbers DEF AdbdRefuses, socket
    <3>3. QED
      BY <3>1, <3>2
  <2>3. UNCHANGED <<client, closed>>
    BY DEF AdbdConnects, AdbdRefuses
  <2>4. TypeOK'
    BY <1>1, <2>1, <2>2, <2>3 DEF TypeOK, client
  <2>5. Greeted' /\ LiveMirrorIsServed'
    BY <1>1, <2>3 DEF Greeted, LiveMirrorIsServed, Video, client
  <2>6. QED
    BY <1>2, <2>4, <2>5
<1>8. QED
  BY <1>3, <1>4, <1>5, <1>6, <1>7 DEF Host

\* A new run of the host and its process.
LEMMA LaunchKeeps ==
  ASSUME StartupInv, Launch
  PROVE  StartupInv'
<1> USE BoundsAssumption DEF StartupInv
<1>1. run + 1 \in Runs /\ run \in Nat /\ server[run + 1] = "none"
  <2>1. run \in 0..MaxRuns /\ run < MaxRuns
    BY Numbers DEF Launch
  <2>2. run + 1 \in Runs /\ run \in Nat /\ run + 1 > run
    BY <2>1 DEF Runs
  <2>3. QED
    BY <2>2 DEF NotBegun
<1>2. server' = [server EXCEPT ![run + 1] = "get"] /\ UNCHANGED <<links, served, socket, power, unrestored>>
  BY DEF Launch
<1>3. TypeOK'
  <2>1. server' \in [Runs -> ServerPoints]
    BY <1>2 DEF TypeOK, ServerPoints
  <2>2. run' \in 0..MaxRuns
    <3>1. run' = run + 1
      BY DEF Launch
    <3>2. run + 1 \in 0..MaxRuns
      BY <1>1 DEF Runs
    <3>3. QED
      BY <3>1, <3>2
  <2>3. backend' \in {"device", "adb server"} /\ host' = "opening" /\ attempt' \in 0..Attempts
    <3>1. backend' \in {"device", "adb server"} /\ host' = "opening" /\ attempt' = 0
      BY DEF Launch
    <3>2. 0 \in 0..Attempts
      OBVIOUS
    <3>3. QED
      BY <3>1, <3>2
  <2>4. timed_out' \in BOOLEAN /\ greeted' \in BOOLEAN
    BY ZenonT(30) DEF Launch
  <2>5. QED
    BY <1>2, <2>1, <2>2, <2>3, <2>4 DEF TypeOK, links, socket, power
<1>4. Borrowed'
  <2>1. \A s \in Runs : s # run + 1 => server'[s] = server[s]
    BY <1>2 DEF TypeOK
  <2>2. server'[run + 1] = "get"
    BY <1>1, <1>2 DEF TypeOK
  <2>3. QED
    BY <1>1, <1>2, <2>1, <2>2 DEF Borrowed, Owes, power
<1>5. OneListener'
  BY <1>1, <1>2 DEF OneListener, TypeOK, socket
<1>6. NotBegun'
  <2>1. run' = run + 1
    BY DEF Launch
  <2>2. \A s \in Runs : s > run + 1 => s > run /\ s # run + 1
    BY <1>1 DEF Runs
  <2>3. \A s \in Runs : s # run + 1 => server'[s] = server[s]
    BY <1>2 DEF TypeOK
  <2>4. QED
    BY <2>1, <2>2, <2>3 DEF NotBegun
<1>7. Greeted' /\ LiveMirrorIsServed'
  <2>1. run' \in Runs /\ host' = "opening" /\ ~greeted'
    BY <1>1 DEF Launch
  <2>2. QED
    BY <2>1 DEF Greeted, LiveMirrorIsServed
<1>8. QED
  BY <1>3, <1>4, <1>5, <1>6, <1>7

\* A step of process s leaves the other processes where they are.
LEMMA Moves ==
  ASSUME TypeOK, NEW s \in Runs, NEW to \in ServerPoints, Goes(s, to)
  PROVE  /\ server' \in [Runs -> ServerPoints]
         /\ server'[s] = to
         /\ \A t \in Runs : t # s => server'[t] = server[t]
BY DEF TypeOK, Goes

\* What leaving serve_session closes.
LEMMA ClosedGrows ==
  ASSUME TypeOK, NEW s \in Runs, Leaves(s)
  PROVE  /\ closed \subseteq closed' /\ closed' \subseteq Connections
         /\ listener' = 0 /\ backlog' = <<>>
         /\ served[s] # NoConn => served[s] \in closed'
<1>1. \A i \in 1..Len(backlog) : backlog[i] \in Connections
  BY Numbers
<1>2. Backlogged \subseteq Connections
  BY <1>1 DEF Backlogged
<1>3. {served[s]} \ {NoConn} \subseteq Connections
  BY DEF TypeOK
<1>4. QED
  BY <1>2, <1>3 DEF TypeOK, Leaves

\* The steps of process s.
LEMMA ServerKeeps ==
  ASSUME StartupInv, NEW s \in Runs, Server(s) \/ Killed(s)
  PROVE  StartupInv'
<1> USE BoundsAssumption DEF StartupInv
<1>a. s \in Nat \ {0} /\ s # 0
  BY DEF Runs
<1>0. UNCHANGED client
  BY DEF Server, Killed, SettingsGet, SettingsPut, Bind, Accept, Greet, SessionEnds, Restore
<1>1. CASE SettingsGet(s)
  <2>1. /\ server[s] = "get"
        /\ server'[s] = "bind" \/ (setting = "off" /\ server'[s] = "put")
        /\ server' \in [Runs -> ServerPoints]
        /\ \A t \in Runs : t # s => server'[t] = server[t]
        /\ UNCHANGED <<links, served, socket, power, unrestored>>
    BY <1>1, Moves DEF SettingsGet, ServerPoints
  <2>2. TypeOK'
    BY <1>0, <2>1 DEF TypeOK, client, links, socket, power
  <2>3. Borrowed'
    BY <2>1 DEF Borrowed, Owes, power
  <2>4. OneListener' /\ NotBegun' /\ Greeted' /\ LiveMirrorIsServed'
    BY <1>0, <2>1 DEF OneListener, NotBegun, Greeted, LiveMirrorIsServed, Video, client, links, socket
  <2>5. QED
    BY <2>2, <2>3, <2>4
<1>2. CASE SettingsPut(s)
  <2>1. /\ server[s] = "put" /\ server'[s] = "bind"
        /\ server' \in [Runs -> ServerPoints]
        /\ \A t \in Runs : t # s => server'[t] = server[t]
        /\ UNCHANGED <<links, served, socket, original, unrestored>>
    BY <1>2, Moves DEF SettingsPut, ServerPoints
  <2>2. /\ changed' \in [Runs -> BOOLEAN] /\ setting' \in {"off", "on"}
        /\ \/ setting' = "on" /\ changed'[s]
           \/ UNCHANGED <<setting, changed>>
        /\ \A t \in Runs : t # s => changed'[t] = changed[t]
    BY <1>2 DEF SettingsPut, TypeOK
  <2>3. TypeOK'
    BY <1>0, <2>1, <2>2 DEF TypeOK, client, links, socket
  <2>4. Borrowed'
    BY <2>1, <2>2 DEF Borrowed, Owes, TypeOK
  <2>5. OneListener' /\ NotBegun' /\ Greeted' /\ LiveMirrorIsServed'
    BY <1>0, <2>1 DEF OneListener, NotBegun, Greeted, LiveMirrorIsServed, Video, client, links, socket
  <2>6. QED
    BY <2>3, <2>4, <2>5
<1>3. CASE Bind(s)
  <2>1. /\ server[s] = "bind"
        /\ \/ listener = 0 /\ listener' = s /\ server'[s] = "accept"
           \/ listener' = listener /\ server'[s] = "restore"
        /\ server' \in [Runs -> ServerPoints]
        /\ \A t \in Runs : t # s => server'[t] = server[t]
        /\ UNCHANGED <<links, served, backlog, power, unrestored>>
    BY <1>3, Moves DEF Bind, ServerPoints
  <2>2. TypeOK'
    <3>1. listener' \in 0..MaxRuns
      BY <2>1, Numbers DEF Runs
    <3>2. QED
      BY <1>0, <2>1, <3>1 DEF TypeOK, client, links, power
  <2>3. Borrowed'
    BY <2>1 DEF Borrowed, Owes, power
  <2>4. OneListener'
    BY <1>a, <2>1 DEF OneListener, Runs
  <2>5. NotBegun' /\ Greeted' /\ LiveMirrorIsServed'
    BY <1>0, <2>1 DEF NotBegun, Greeted, LiveMirrorIsServed, Video, client, links
  <2>6. QED
    BY <2>2, <2>3, <2>4, <2>5
<1>4. CASE Accept(s)
  <2>1. /\ server[s] = "accept" /\ server'[s] = "greet"
        /\ server' \in [Runs -> ServerPoints]
        /\ \A t \in Runs : t # s => server'[t] = server[t]
        /\ UNCHANGED <<links, listener, power, unrestored>>
    BY <1>4, Moves DEF Accept, ServerPoints
  <2>2. /\ backlog' \in Seq(Connections)
        /\ served' \in [Runs -> Connections \cup {NoConn}]
        /\ \A t \in Runs : t # s => served'[t] = served[t]
    <3>1. backlog \in Seq(Connections) /\ backlog # <<>>
      BY <1>4 DEF Accept, TypeOK
    <3>2. Head(backlog) \in Connections /\ Tail(backlog) \in Seq(Connections)
      BY <3>1
    <3>3. QED
      BY <1>4, <3>2 DEF Accept, TypeOK
  <2>3. TypeOK'
    BY <1>0, <2>1, <2>2 DEF TypeOK, client, links, power
  <2>4. Borrowed' /\ OneListener' /\ NotBegun' /\ Greeted'
    BY <1>0, <2>1 DEF Borrowed, Owes, OneListener, NotBegun, Greeted, client, power
  <2>5. LiveMirrorIsServed'
    BY <1>0, <2>1, <2>2 DEF LiveMirrorIsServed, Video, client, links
  <2>6. QED
    BY <2>3, <2>4, <2>5
<1>5. CASE Greet(s)
  <2>1. /\ server[s] = "greet" /\ server'[s] = "serving"
        /\ server' \in [Runs -> ServerPoints]
        /\ \A t \in Runs : t # s => server'[t] = server[t]
        /\ UNCHANGED <<links, served, socket, power, unrestored>>
    BY <1>5, Moves DEF Greet, ServerPoints
  <2>2. TypeOK'
    BY <1>0, <2>1 DEF TypeOK, client, links, socket, power
  <2>3. Borrowed' /\ OneListener' /\ NotBegun' /\ Greeted' /\ LiveMirrorIsServed'
    BY <1>0, <2>1 DEF Borrowed, Owes, OneListener, NotBegun, Greeted, LiveMirrorIsServed, Video,
                      client, links, socket, power
  <2>4. QED
    BY <2>2, <2>3
<1>6. CASE SessionEnds(s)
  <2>1. /\ server[s] \in {"greet", "serving"} /\ served[s] \in closed /\ server'[s] = "restore"
        /\ server' \in [Runs -> ServerPoints]
        /\ \A t \in Runs : t # s => server'[t] = server[t]
        /\ UNCHANGED <<opens, served, power, unrestored>>
    BY <1>6, Moves DEF SessionEnds, ServerPoints
  <2>2. listener' = 0 /\ backlog' = <<>> /\ closed \subseteq closed' /\ closed' \subseteq Connections
    BY <1>6, ClosedGrows DEF SessionEnds
  <2>3. TypeOK'
    <3>1. listener' \in 0..MaxRuns /\ backlog' \in Seq(Connections)
      BY <2>2
    <3>2. QED
      BY <1>0, <2>1, <2>2, <3>1 DEF TypeOK, client, power
  <2>4. Borrowed' /\ OneListener' /\ NotBegun' /\ Greeted'
    BY <1>0, <1>a, <2>1, <2>2 DEF Borrowed, Owes, OneListener, NotBegun, Greeted, client, power, Runs
  <2>5. LiveMirrorIsServed'
    BY <1>0, <2>1, <2>2 DEF LiveMirrorIsServed, Video, client
  <2>6. QED
    BY <2>3, <2>4, <2>5
<1>7. CASE Restore(s)
  <2>1. /\ server[s] = "restore" /\ server'[s] = "over"
        /\ server' \in [Runs -> ServerPoints]
        /\ \A t \in Runs : t # s => server'[t] = server[t]
        /\ UNCHANGED <<links, served, socket, changed, original>>
    BY <1>7, Moves DEF Restore, ServerPoints
  <2>2. \/ setting' = (IF changed[s] THEN "off" ELSE setting) /\ UNCHANGED unrestored
        \/ unrestored' = TRUE /\ UNCHANGED setting
    BY <1>7 DEF Restore
  <2>3. setting' \in {"off", "on"}
    BY <2>2 DEF TypeOK
  <2>4. unrestored' \in BOOLEAN
    BY <2>2, ZenonT(30) DEF TypeOK
  <2>5. TypeOK'
    BY <1>0, <2>1, <2>3, <2>4 DEF TypeOK, client, links, socket
  <2>6. Borrowed'
    <3>1. CASE setting' = (IF changed[s] THEN "off" ELSE setting) /\ UNCHANGED unrestored
      BY <2>1, <3>1 DEF Borrowed, Owes, TypeOK
    <3>2. CASE unrestored' = TRUE /\ UNCHANGED setting
      BY <2>1, <3>2 DEF Borrowed
    <3>3. QED
      BY <2>2, <3>1, <3>2
  <2>7. OneListener' /\ NotBegun' /\ Greeted' /\ LiveMirrorIsServed'
    BY <1>0, <2>1 DEF OneListener, NotBegun, Greeted, LiveMirrorIsServed, Video, client, links, socket
  <2>8. QED
    BY <2>5, <2>6, <2>7
<1>8. CASE Killed(s)
  <2>1. /\ server[s] \notin {"none", "over", "killed"} /\ server'[s] = "killed" /\ unrestored' = TRUE
        /\ server' \in [Runs -> ServerPoints]
        /\ \A t \in Runs : t # s => server'[t] = server[t]
        /\ UNCHANGED <<opens, served, power>>
    BY <1>8, Moves DEF Killed, ServerPoints
  <2>2. /\ closed \subseteq closed' /\ closed' \subseteq Connections
        /\ backlog' \in Seq(Connections)
        /\ listener' = IF listener = s THEN 0 ELSE listener
        /\ listener = s /\ served[s] # NoConn => served[s] \in closed'
    <3>1. CASE listener = s
      <4>1. Leaves(s)
        BY <1>8, <3>1 DEF Killed
      <4>2. /\ closed \subseteq closed' /\ closed' \subseteq Connections
            /\ listener' = 0 /\ backlog' = <<>>
            /\ served[s] # NoConn => served[s] \in closed'
        BY <4>1, ClosedGrows
      <4>3. backlog' \in Seq(Connections)
        BY <4>2
      <4>4. QED
        BY <3>1, <4>2, <4>3
    <3>2. CASE listener # s
      <4>1. UNCHANGED <<closed, socket>>
        BY <1>8, <3>2 DEF Killed
      <4>2. QED
        BY <3>2, <4>1 DEF socket, TypeOK
    <3>3. QED
      BY <3>1, <3>2
  <2>3. TypeOK'
    <3>1. listener' \in 0..MaxRuns
      BY <2>2, Numbers
    <3>2. QED
      BY <1>0, <2>1, <2>2, <3>1 DEF TypeOK, client, power
  <2>4. Borrowed'
    BY <2>1 DEF Borrowed, power
  <2>5. OneListener'
    BY <1>a, <2>1, <2>2 DEF OneListener, Runs
  <2>6. NotBegun' /\ Greeted'
    <3>1. ~(s > run) /\ UNCHANGED <<run, host, attempt, greeted>>
      BY <1>0, <2>1 DEF NotBegun, client
    <3>2. QED
      BY <2>1, <3>1 DEF NotBegun, Greeted
  <2>7. LiveMirrorIsServed'
    <3>1. SUFFICES ASSUME greeted, host = "prepared", Video \notin closed'
                   PROVE  \E t \in Runs : server'[t] = "serving" /\ served[t] = Video
      BY <1>0, <2>1 DEF LiveMirrorIsServed, Video, client
    <3>2. PICK t \in Runs : server[t] = "serving" /\ served[t] = Video
      BY <2>2, <3>1 DEF LiveMirrorIsServed
    <3>3. CASE t = s
      <4>1. listener = s
        BY <3>2, <3>3 DEF OneListener
      <4>2. run # 0
        BY <3>1 DEF Greeted, Runs
      <4>3. served[s] # NoConn
        BY <3>2, <3>3, <4>2 DEF Video, NoConn
      <4>4. QED
        BY <2>2, <3>1, <3>2, <3>3, <4>1, <4>3
    <3>4. CASE t # s
      BY <2>1, <3>2, <3>4
    <3>5. QED
      BY <3>3, <3>4
  <2>8. QED
    BY <2>3, <2>4, <2>5, <2>6, <2>7
<1>9. QED
  BY <1>1, <1>2, <1>3, <1>4, <1>5, <1>6, <1>7, <1>8 DEF Server

\* Every step keeps the inductive invariant.
LEMMA NextInv == StartupInv /\ [Next]_vars => StartupInv'
<1> SUFFICES ASSUME StartupInv, [Next]_vars PROVE StartupInv'
  OBVIOUS
<1>1. CASE UNCHANGED vars
  <2>1. TypeOK'
    BY <1>1 DEF StartupInv, TypeOK, vars, client, links, socket, power
  <2>2. Borrowed' /\ OneListener'
    BY <1>1 DEF StartupInv, Borrowed, Owes, OneListener, vars, client, links, socket, power
  <2>3. NotBegun' /\ Greeted'
    BY <1>1 DEF StartupInv, NotBegun, Greeted, vars, client, links, socket, power
  <2>4. LiveMirrorIsServed'
    BY <1>1 DEF StartupInv, LiveMirrorIsServed, Video, vars, client, links, socket, power
  <2>5. QED
    BY <2>1, <2>2, <2>3, <2>4 DEF StartupInv
<1>2. CASE Next
  BY <1>2, HostKeeps, LaunchKeeps, ServerKeeps DEF Next
<1>3. QED
  BY <1>1, <1>2

\* The inductive invariant holds in every reachable state of Startup, however many runs of
\* the host follow each other and however often each retries.
THEOREM StartupCorrect == Spec => []StartupInv
<1>1. QED
  BY InitInv, NextInv, PTL DEF Spec

\* Every variable keeps its type, and no run opens the mirror more often than it may.
THEOREM TypeCorrect == Spec => []TypeOK
<1>1. StartupInv => TypeOK
  BY DEF StartupInv
<1>2. QED
  BY <1>1, StartupCorrect, PTL

\* power.rs: server processes that overlap leave stay_on_while_plugged_in as they found it,
\* if none is killed and every one that has to put it back can, for any number of processes.
THEOREM SettingIsRestored == Spec => []SettingRestored
<1>1. StartupInv => SettingRestored
  BY DEF StartupInv, Borrowed, Owes, SettingRestored, TypeOK, ServerPoints
<1>2. QED
  BY <1>1, StartupCorrect, PTL

\* run.rs, net.rs: a host that has the handshake on a live stream is served by a process.
THEOREM MirrorIsServed == Spec => []LiveMirrorIsServed
<1>1. StartupInv => LiveMirrorIsServed
  BY DEF StartupInv
<1>2. QED
  BY <1>1, StartupCorrect, PTL

=============================================================================
