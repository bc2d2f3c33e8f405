--------------------------------- MODULE Deploy ---------------------------------
(***************************************************************************)
(* What the host does with a new connection until the server is launched:  *)
(* deploy of crates/native/src/main.rs, and shell and push of client.rs    *)
(* and server.rs, which differ only in the timers and the meaning of Ok of *)
(* the stream calls below them (ByteStream). Sync requests and statuses    *)
(* are whole; a file is what its last SEND and DATA made of it.            *)
(*                                                                         *)
(* External: the shell commands, and adbd's sync service, which works off  *)
(* its requests in order, at its own pace.                                 *)
(***************************************************************************)
EXTENDS Connect

CONSTANTS
  MaxChunks,  \* bound: DATA requests of one file
  SyncDepth,  \* sync requests the stream holds
  MaxPrints   \* bound: times a shell command prints

ASSUME DeployAssumption ==
  MaxChunks \in Nat \ {0} /\ SyncDepth \in Nat \ {0} /\ MaxPrints \in Nat

File    == {"so", "dex"}
Command == {"mkdir", "chmod", "launch"}
Steps   == <<"mkdir", "so", "dex", "chmod", "launch">>

\* What mode push gives a file: by its name.
ModeOf(f) == IF f = "dex" THEN "read" ELSE "run"

VARIABLES
  step,    \* index of what deploy is at
  todo,    \* sync requests not written yet
  pipe,    \* sync requests on their way
  reply,   \* what adbd has sent back on the stream and the host has not read
  status,  \* the sync status the host has read
  prints,  \* times the current command has printed
  file,    \* each file on the device
  mode,    \* its mode
  failing, \* the sync service answered FAIL and skips to DONE
  running  \* commands adbd has started and not finished

stream  == <<todo, pipe, reply, status, prints>>
phone   == <<file, mode, failing, running>>
vars    == <<world, at, via, target, handshake, step, stream, phone>>
connect == <<world, via, target, handshake>>

\* An earlier run may have left its files.
Init ==
  /\ ConnectInit
  /\ step = 1
  /\ todo = <<>> /\ pipe = <<>> /\ reply = "none" /\ status = "none" /\ prints = 0
  /\ file = [f \in File |-> "old"]
  /\ mode = [f \in File |-> "read"]
  /\ failing = FALSE /\ running = {}

Doing  == Steps[step]
Direct == via \in {"usb", "tcp"}

------------------------------------------------------------------------------
(* The stream of a command or of a push. *)

\* The two files are read before anything is sent to the phone.
MissingFiles ==
  /\ at = "connected" /\ step = 1
  /\ GiveUp
  /\ UNCHANGED <<connect, step, stream, phone>>

Open ==
  /\ at = "connected"
  /\ at' = "opening"
  /\ UNCHANGED <<connect, step, stream, phone>>

\* The whole of a push: SEND with path and mode, the chunks of the file, DONE.
Requests(k) == <<"SEND">> \o [i \in 1..k |-> "DATA"] \o <<"DONE">>

\* Mutant: the server is run as the other commands are, and its end waited for.
AfterDrains(c) == "draining"

\* shell waits for the end of a command; the launched server's output is another task's.
After(c) == IF c = "launch" THEN "launched" ELSE "draining"

\* adbd starts the service.
Opened ==
  /\ at = "opening"
  /\ Direct => adbd = "online"
  /\ reply' = "none" /\ status' = "none" /\ prints' = 0 /\ pipe' = <<>>
  /\ \/ /\ Doing \in Command
        /\ running' = running \cup {Doing}
        /\ at' = After(Doing)
        /\ UNCHANGED <<todo, failing>>
     \/ /\ Doing \in File
        /\ \E k \in 0..MaxChunks : todo' = Requests(k)
        /\ failing' = FALSE
        /\ at' = "writing"
        /\ UNCHANGED running
  /\ UNCHANGED <<connect, step, file, mode>>

\* Refused, a broken connection, or the 10 s timer, which the adb server back end does not have.
OpenFails ==
  /\ at = "opening"
  /\ GiveUp
  /\ UNCHANGED <<connect, step, stream, phone>>

\* Ok to a write: it is on its way, not more.
WriteRequest ==
  /\ at = "writing"
  /\ Len(pipe) < SyncDepth
  /\ pipe' = Append(pipe, Head(todo))
  /\ todo' = Tail(todo)
  /\ at' = IF Len(todo) = 1 THEN "status" ELSE "writing"
  /\ UNCHANGED <<connect, step, reply, status, prints, phone>>

\* A broken connection, or the 15 s timer of AdbClient, with the request on its way or not;
\* `?` leaves the stream open.
WriteFails ==
  /\ at = "writing"
  /\ GiveUp
  /\ pipe' \in {pipe} \cup (IF Direct THEN {Append(pipe, Head(todo))} ELSE {})
  /\ UNCHANGED <<connect, step, todo, reply, status, prints, phone>>

\* Mutant: what is written is taken for done.
StatusAssumed ==
  /\ at = "status"
  /\ at' = "quit" /\ status' = "OKAY"
  /\ UNCHANGED <<connect, step, todo, pipe, reply, prints, phone>>

\* The status, or its 20 s timer, or Closed; the last two leave the stream open.
ReadStatus ==
  /\ at = "status"
  /\ \/ reply # "none" /\ at' = "quit" /\ status' = reply
     \/ reply = "none" /\ GiveUp /\ UNCHANGED status
  /\ UNCHANGED <<connect, step, todo, pipe, reply, prints, phone>>

NextStep == step' = step + 1 /\ at' = "connected"

\* QUIT and close_stream, whatever becomes of them; then the status decides.
Quit ==
  /\ at = "quit"
  /\ \/ Len(pipe) < SyncDepth /\ pipe' = Append(pipe, "QUIT")
     \/ Direct /\ UNCHANGED pipe
  /\ IF status = "OKAY" THEN NextStep ELSE GiveUp /\ UNCHANGED step
  /\ UNCHANGED <<connect, todo, reply, status, prints, phone>>

\* A chunk of output; the 60 s begin again.
Drain ==
  /\ at = "draining"
  /\ reply = "output"
  /\ reply' = "none"
  /\ UNCHANGED <<connect, at, step, todo, pipe, status, prints, phone>>

\* The end of the command, a broken connection, or 60 s of silence: the result is Ok.
ShellReturns ==
  /\ at = "draining"
  /\ reply = "none"
  /\ NextStep
  /\ UNCHANGED <<connect, stream, phone>>

Deploys ==
  \/ MissingFiles \/ Open \/ Opened \/ OpenFails
  \/ WriteRequest \/ WriteFails \/ ReadStatus \/ Quit
  \/ Drain \/ ShellReturns

------------------------------------------------------------------------------
(* On the device. *)

CommandPrints ==
  /\ at = "draining" /\ Doing \in running
  /\ reply = "none" /\ prints < MaxPrints
  /\ reply' = "output" /\ prints' = prints + 1
  /\ UNCHANGED <<connect, at, step, todo, pipe, status, phone>>

\* A command ends, with success or without, whether or not the host still listens.
CommandEnds(c) ==
  /\ c \in running \ {"launch"}
  /\ running' = running \ {c}
  /\ mode' \in {mode} \cup (IF c = "chmod" THEN {[mode EXCEPT !["so"] = "run"]} ELSE {})
  /\ UNCHANGED <<connect, at, step, stream, file, failing>>

Fail == failing' = TRUE /\ reply' = "FAIL"

\* A request is carried out. After a FAIL the rest of the push is skipped.
SyncTakes ==
  /\ pipe # <<>> /\ Doing \in File
  /\ pipe' = Tail(pipe)
  /\ \/ /\ Head(pipe) = "SEND"
        /\ file' = [file EXCEPT ![Doing] = "part"]
        /\ mode' = [mode EXCEPT ![Doing] = ModeOf(Doing)]
        /\ UNCHANGED <<reply, failing>>
     \/ Head(pipe) \in {"SEND", "DATA"} /\ ~failing /\ Fail /\ UNCHANGED <<file, mode>>
     \/ Head(pipe) = "DATA" /\ UNCHANGED <<reply, failing, file, mode>>
     \/ /\ Head(pipe) = "DONE" /\ ~failing
        /\ file' = [file EXCEPT ![Doing] = "whole"]
        /\ reply' = "OKAY"
        /\ UNCHANGED <<failing, mode>>
     \/ /\ Head(pipe) = "QUIT" \/ (Head(pipe) = "DONE" /\ failing)
        /\ UNCHANGED <<reply, failing, file, mode>>
  /\ UNCHANGED <<connect, at, step, todo, status, prints, running>>

Next ==
  \/ ConnectNext /\ UNCHANGED <<step, stream, phone>>
  \/ Deploys
  \/ CommandPrints \/ SyncTakes
  \/ \E c \in Command : CommandEnds(c)

Spec == Init /\ [][Next]_vars

(***************************************************************************)
(* The host's steps are taken and its timers fire, and adbd reads the link *)
(* (no transfer has a timer). Nothing is asked of the user, the sync       *)
(* service or the commands, nor of the adb server: on its back end opens   *)
(* and writes have no timer.                                               *)
(***************************************************************************)
Fairness ==
  /\ WF_vars(HostConnects /\ UNCHANGED <<step, stream, phone>>)
  /\ WF_vars(ClockRunsOut /\ UNCHANGED <<step, stream, phone>>)
  /\ WF_vars(AdbdTakes /\ UNCHANGED <<step, stream, phone>>)
  /\ WF_vars(MissingFiles \/ Open \/ ReadStatus \/ Quit \/ Drain \/ ShellReturns)
  /\ WF_vars(Direct /\ (Opened \/ OpenFails \/ WriteRequest \/ WriteFails))

FairSpec == Spec /\ Fairness

------------------------------------------------------------------------------
(* Properties. *)

Deploying == {"connected", "opening", "writing", "status", "quit", "draining"}
Over      == {"failed", "launched"}

\* Every variable holds a value of its type.
TypeOK ==
  /\ ConnectTypes
  /\ at \in Connecting \cup Deploying \cup Over
  /\ step \in 1..Len(Steps)
  /\ todo \in Seq({"SEND", "DATA", "DONE"}) /\ pipe \in Seq({"SEND", "DATA", "DONE", "QUIT"})
  /\ reply \in {"none", "output", "OKAY", "FAIL"} /\ status \in {"none", "OKAY", "FAIL"}
  /\ prints \in Nat /\ failing \in BOOLEAN /\ running \subseteq Command
  /\ file \in [File -> {"old", "part", "whole"}] /\ mode \in [File -> {"read", "run"}]

\* The server is launched from files this run has pushed completely, and its library can be
\* run, although no result of a shell command is looked at.
LaunchHasFiles ==
  Doing = "launch" => \A f \in File : file[f] = "whole" /\ mode[f] = ModeOf(f)

\* prepare comes to an end on a direct connection whatever the phone and its user do, in 60 s
\* for the handshake and a timer for every call after it; over the adb server it gets that far.
PrepareEnds == at \in Connecting \cup Deploying ~> at \in Over \/ via = "server"

=================================================================================
