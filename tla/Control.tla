------------------------------ MODULE Control ------------------------------
(***************************************************************************)
(* Input from the window to the device: crates/native/src/main.rs          *)
(* (window_event, on_key, encode_cmd), the control calls of crates/client, *)
(* the framing of crates/proto, and on the device ControlDemux             *)
(* (crates/server/src/control.rs) with the three injectors.                *)
(*                                                                         *)
(* A message keeps what the code tells apart: its kind, its action, its    *)
(* key, the modifiers it carries, and of the view that its coordinates are *)
(* relative to, whether it has a width. On the stream a message is a       *)
(* header cell, its length, and one or more body cells, and a read may end *)
(* between any two. JNI and uinput calls succeed, as does the clipboard.   *)
(***************************************************************************)
EXTENDS Integers, Sequences, FiniteSets

CONSTANTS
  Keys,      \* the keyboard's keys: some of "a", "s", "enter"
  MaxActs,   \* bound: things the user does
  MaxCells   \* cells the socket holds before a write has to wait

ASSUME KeysAssumption == Keys \subseteq {"a", "s", "enter"}
ASSUME BoundsAssumption == MaxActs \in Nat /\ MaxCells \in Nat \ {0}

Mods == {"ctrl", "shift"}

Touch(action, wide)    == [kind |-> "touch", action |-> action, key |-> "none", meta |-> {}, wide |-> wide]
Key(action, key, meta) == [kind |-> "key", action |-> action, key |-> key, meta |-> meta, wide |-> TRUE]
Nav(action, key)       == [kind |-> "nav", action |-> action, key |-> key, meta |-> {}, wide |-> TRUE]
Text(key, meta)        == [kind |-> "text", action |-> "none", key |-> key, meta |-> meta, wide |-> TRUE]
Scroll(wide)           == [kind |-> "scroll", action |-> "none", key |-> "none", meta |-> {}, wide |-> wide]
Message ==
  {Touch(action, wide) : action \in {"down", "up", "move"}, wide \in BOOLEAN}
  \cup {Key(action, key, meta) : action \in {"down", "up"}, key \in Keys, meta \in SUBSET Mods}
  \cup {Nav(action, key) : action \in {"down", "up"}, key \in {"back", "apps"}}
  \cup {Text(key, meta) : key \in Keys, meta \in SUBSET Mods}
  \cup {Scroll(wide) : wide \in BOOLEAN}

VARIABLES
  no_control, \* App.no_control
  visible,    \* the window's view has a width
  cursor,     \* what the cursor is over
  buttons,    \* App.buttons # 0
  mods,       \* App.mods
  held,       \* the mouse button and the keys the user holds
  acts,       \* number of things the user did
  stays,      \* history: keys that nothing is sent to release
  cmds,       \* HostCmds waiting for the session
  session,    \* the session task
  sized,      \* Client has a video size
  lost_up,    \* history: the last Up the session took was dropped
  stream,     \* cells written and not yet read by the server
  buf,        \* ControlDemux.buf
  injector,   \* the Inject the server chose
  server,     \* the server's loop: at its read, or in ControlDemux.push
  touching,   \* the device sees a finger
  pressed,    \* keys the device sees down
  pending     \* history: messages written and not yet dispatched

app    == <<no_control, visible, cursor, buttons, mods, held, acts, stays>>
host   == <<session, sized, lost_up>>
device == <<injector, server, touching, pressed>>
vars   == <<app, cmds, host, stream, buf, device, pending>>

Init ==
  /\ no_control \in BOOLEAN /\ visible = TRUE
  /\ cursor = "view" /\ buttons = FALSE /\ mods = {} /\ held = {} /\ acts = 0 /\ stays = {}
  /\ cmds = <<>>
  /\ session = "running" /\ sized = FALSE /\ lost_up = FALSE
  /\ stream = <<>> /\ buf = <<>>
  /\ injector \in {"sdk", "uinput", "shell"} /\ server = "serving"
  /\ touching = FALSE /\ pressed = {}
  /\ pending = <<>>

------------------------------------------------------------------------------
(* The window. *)

Act == acts < MaxActs /\ acts' = acts + 1

Send(messages) == cmds' = cmds \o messages

\* view-only windows leave these out
SendIfControlled(messages) == Send(IF no_control THEN <<>> ELSE messages)

\* A minimised window may have no width.
Resized ==
  /\ Act
  /\ visible' = ~visible
  /\ UNCHANGED <<no_control, cursor, buttons, mods, held, stays, cmds>>

CursorMoved(to) ==
  /\ Act /\ cursor # to
  /\ cursor' = to
  /\ SendIfControlled(IF buttons THEN <<Touch("move", visible)>> ELSE <<>>)
  /\ UNCHANGED <<no_control, visible, buttons, mods, held, stays>>

\* Of the toolbar, the row of navigation keys; a click there leaves buttons alone.
MousePressed ==
  /\ Act /\ "left" \notin held
  /\ held' = held \cup {"left"}
  /\ \/ /\ cursor = "toolbar"
        /\ Send(<<Nav("down", "back"), Nav("up", "back")>>)
        /\ UNCHANGED buttons
     \/ /\ cursor = "view"
        /\ buttons' = TRUE
        /\ SendIfControlled(<<Touch("down", visible)>>)
  /\ UNCHANGED <<no_control, visible, cursor, mods, stays>>

\* Mutant: the toolbar swallows the release as it does the press.
MouseReleasedInView ==
  /\ Act /\ "left" \in held
  /\ held' = held \ {"left"}
  /\ buttons' = (buttons /\ cursor = "toolbar")
  /\ SendIfControlled(IF cursor = "view" THEN <<Touch("up", visible)>> ELSE <<>>)
  /\ UNCHANGED <<no_control, visible, cursor, mods, stays>>

MouseReleased ==
  /\ Act /\ "left" \in held
  /\ held' = held \ {"left"}
  /\ buttons' = FALSE
  /\ SendIfControlled(<<Touch("up", visible)>>)
  /\ UNCHANGED <<no_control, visible, cursor, mods, stays>>

RightClicked ==
  /\ Act
  /\ SendIfControlled(<<Nav("down", "back"), Nav("up", "back")>>)
  /\ UNCHANGED <<no_control, visible, cursor, buttons, mods, held, stays>>

MouseWheel ==
  /\ Act
  /\ SendIfControlled(<<Scroll(visible)>>)
  /\ UNCHANGED <<no_control, visible, cursor, buttons, mods, held, stays>>

\* While a key is held, its release will carry other modifiers than its press.
ModifiersChanged(to) ==
  /\ Act /\ mods # to
  /\ mods' = to
  /\ stays' = IF held \cap Keys = {} THEN stays ELSE stays \cup (mods \ to) \cup (to \ mods)
  /\ UNCHANGED <<no_control, visible, cursor, buttons, held, cmds>>

\* capture_shortcut: Ctrl-Shift-S takes a screenshot.
CaptureShortcut(key) == key = "s" /\ mods = Mods

Recents(key) == key = "s" /\ mods = {"ctrl"}

\* on_key: Ctrl-S is Recents, printable keys are text, the others are keys.
OnKey(key) ==
  IF Recents(key) THEN <<Nav("down", "apps")>>
  ELSE IF "ctrl" \notin mods /\ key # "enter" THEN <<Text(key, mods)>>
  ELSE <<Key("down", key, mods)>>

\* A press or, while the key is held, a repeat.
KeyPressed(key) ==
  /\ Act
  /\ held' = held \cup {key}
  /\ IF CaptureShortcut(key) /\ key \notin held THEN UNCHANGED cmds ELSE SendIfControlled(OnKey(key))
  /\ stays' = IF Recents(key) /\ ~no_control THEN stays \cup {"apps"} ELSE stays
  /\ UNCHANGED <<no_control, visible, cursor, buttons, mods>>

KeyReleased(key) ==
  /\ Act /\ key \in held
  /\ held' = held \ {key}
  /\ Send(<<Key("up", key, mods)>>)
  /\ stays' = stays \ mods
  /\ UNCHANGED <<no_control, visible, cursor, buttons, mods>>

User ==
  /\ \/ Resized
     \/ \E to \in {"view", "toolbar"} : CursorMoved(to)
     \/ MousePressed \/ MouseReleased \/ RightClicked \/ MouseWheel
     \/ \E to \in SUBSET Mods : ModifiersChanged(to)
     \/ \E key \in Keys : KeyPressed(key) \/ KeyReleased(key)
  /\ UNCHANGED <<host, stream, buf, device, pending>>

------------------------------------------------------------------------------
(* The session and the wire. *)

\* Number of body cells.
Size(message) == IF message.kind = "text" THEN 2 ELSE 1

\* Mutant: total_len counts the length field itself.
FrameCountsLength(message) == [i \in 1..Size(message) + 2 |-> [part |-> i - 1, message |-> message]]

\* Message::encode: part 0 is the length.
Frame(message) == [i \in 1..Size(message) + 1 |-> [part |-> i - 1, message |-> message]]

\* map_to_device needs a video size and a view with a width (its height is at least 1).
Mapped(message) == sized /\ message.wide

\* Touches and scrolls that cannot be mapped are dropped, an Up like the rest.
EncodeCmd(message) ==
  IF message.kind \in {"touch", "scroll"} /\ ~Mapped(message) THEN <<>> ELSE Frame(message)

\* The handshake comes in.
Sized ==
  /\ session = "running" /\ ~sized
  /\ sized' = TRUE
  /\ UNCHANGED <<app, cmds, session, lost_up, stream, buf, device, pending>>

\* The session takes a command and writes its bytes, if there are any.
Write ==
  /\ session = "running" /\ cmds # <<>>
  /\ Len(stream) < MaxCells
  /\ cmds' = Tail(cmds)
  /\ stream' = stream \o EncodeCmd(Head(cmds))
  /\ pending' = IF EncodeCmd(Head(cmds)) = <<>> THEN pending ELSE Append(pending, Head(cmds))
  /\ lost_up' = IF Head(cmds).kind = "touch" /\ Head(cmds).action = "up"
                THEN sized /\ ~Head(cmds).wide ELSE lost_up
  /\ UNCHANGED <<app, session, sized, buf, device>>

\* A failed write, or the window closed.
SessionEnds ==
  /\ session = "running"
  /\ session' = "over"
  /\ UNCHANGED <<app, cmds, sized, lost_up, stream, buf, device, pending>>

------------------------------------------------------------------------------
(* The device. *)

\* The loop reads what has come in, up to the size of its buffer.
ServerReads ==
  /\ server = "serving"
  /\ \E n \in 1..Len(stream) :
       /\ buf' = buf \o SubSeq(stream, 1, n)
       /\ stream' = SubSeq(stream, n + 1, Len(stream))
  /\ server' = "push"
  /\ UNCHANGED <<app, cmds, host, injector, touching, pressed, pending>>

\* SdkInject passes a touch on as it is, and so does ShellInput.
PassedOn(d, message) ==
  message.action = "down" \/ (message.action = "move" /\ d.touching)

\* UInput holds its slot from a move on, too.
TouchDown(d, message) ==
  IF injector = "uinput" THEN message.action \in {"down", "move"} ELSE PassedOn(d, message)

\* UInput presses the modifiers a key carries with it and releases them with it; SdkInject
\* ignores them; ShellInput types the key.
KeysDown(d, message) ==
  LET keys == {message.key} \cup (IF injector = "uinput" THEN message.meta ELSE {}) IN
  IF injector = "shell" THEN d.pressed
  ELSE IF message.action = "down" THEN d.pressed \cup keys
  ELSE d.pressed \ keys

\* UInput taps the key of a character, and shift if it needs it; the others run `input`.
TextTyped(d, message) ==
  IF injector = "uinput"
  THEN d.pressed \ ({message.key} \cup (message.meta \cap {"shift"}))
  ELSE d.pressed

\* apply_message.
Apply(d, message) ==
  IF message.kind = "touch" THEN [d EXCEPT !.touching = TouchDown(d, message)]
  ELSE IF message.kind = "text" THEN [d EXCEPT !.pressed = TextTyped(d, message)]
  ELSE IF message.kind = "scroll" THEN d
  ELSE [d EXCEPT !.pressed = KeysDown(d, message)]

\* try_decode_frame on buf: an error if it does not begin with a length, a message if all
\* of its frame is there.
Malformed == buf # <<>> /\ buf[1].part # 0
Complete  == buf # <<>> /\ buf[1].part = 0 /\ Len(buf) > Size(buf[1].message)

\* One turn of the loop in ControlDemux.push: the frame is drained, its message applied.
DispatchFrame ==
  /\ server = "push" /\ Complete
  /\ LET message == buf[1].message
         d == Apply([touching |-> touching, pressed |-> pressed], message)
     IN  /\ buf' = SubSeq(buf, Size(message) + 2, Len(buf))
         /\ touching' = d.touching /\ pressed' = d.pressed
  /\ pending' = SubSeq(pending, 2, Len(pending))
  /\ UNCHANGED <<app, cmds, host, stream, injector, server>>

\* Mutant: what is left of a frame is forgotten between two reads.
PushForgetsRest ==
  /\ server = "push" /\ ~Complete
  /\ buf' = <<>>
  /\ server' = "serving"
  /\ UNCHANGED <<app, cmds, host, stream, injector, touching, pressed, pending>>

\* push returns: the rest waits for the next read, or an error empties buf and is logged.
PushEnds ==
  /\ server = "push" /\ ~Complete
  /\ buf' = IF Malformed THEN <<>> ELSE buf
  /\ server' = "serving"
  /\ UNCHANGED <<app, cmds, host, stream, injector, touching, pressed, pending>>

\* The connection ends; UInput's device goes with it, other injectors leave things as they are.
ServerEnds ==
  /\ server = "serving"
  /\ session = "over" /\ stream = <<>>
  /\ server' = "over"
  /\ touching' = (touching /\ injector # "uinput")
  /\ pressed' = IF injector = "uinput" THEN {} ELSE pressed
  /\ UNCHANGED <<app, cmds, host, stream, buf, injector, pending>>

Next ==
  \/ User \/ Sized \/ Write \/ SessionEnds
  \/ ServerReads \/ DispatchFrame \/ PushEnds \/ ServerEnds

Spec == Init /\ [][Next]_vars

------------------------------------------------------------------------------
(* Properties. *)

Cell == [part: 0..2, message: Message]

\* Every variable holds a value of its type.
TypeOK ==
  /\ no_control \in BOOLEAN /\ visible \in BOOLEAN /\ cursor \in {"view", "toolbar"} /\ buttons \in BOOLEAN
  /\ mods \subseteq Mods /\ held \subseteq Keys \cup {"left"} /\ acts \in 0..MaxActs
  /\ stays \subseteq Mods \cup {"apps"}
  /\ cmds \in Seq(Message) /\ pending \in Seq(Message)
  /\ session \in {"running", "over"} /\ sized \in BOOLEAN /\ lost_up \in BOOLEAN
  /\ stream \in Seq(Cell) /\ buf \in Seq(Cell)
  /\ injector \in {"sdk", "uinput", "shell"} /\ server \in {"serving", "push", "over"}
  /\ touching \in BOOLEAN /\ pressed \subseteq Keys \cup Mods \cup {"back", "apps"}

\* Everything the user did has reached the device.
Settled == cmds = <<>> /\ pending = <<>> /\ session = "running"

\* What is down on the device once the input has arrived. A finger only if the user holds the
\* button, wherever the cursor was at the press and at the release; or if the last Up met a
\* window without a width, which drops it. Of the keys only those the user holds and, with
\* them, the modifiers held now, whatever was pressed, swallowed or repeated before; and those
\* the code does not release: Recents after Ctrl-S, and a modifier that changed while a key was
\* held, until a key is released with it.
NothingStuck ==
  Settled =>
    /\ touching => "left" \in held \/ lost_up
    /\ pressed \subseteq stays \cup (held \cap Keys) \cup (IF held \cap Keys = {} THEN {} ELSE mods)

\* The cells that begin a frame.
Starts(cells) == {k \in 1..Len(cells) : cells[k].part = 0}

\* The place among them of the frame that begins at s.
Place(cells, s) == Cardinality({t \in Starts(cells) : t <= s})

\* The cells are the frames of these messages, one after the other, whole.
InFrames(cells, messages) ==
  /\ Cardinality(Starts(cells)) = Len(messages)
  /\ \A s \in Starts(cells) :
       LET message == messages[Place(cells, s)]
       IN  \A i \in 1..Size(message) + 1 :
             s + i - 1 <= Len(cells) /\ cells[s + i - 1] = Frame(message)[i]
  /\ \A k \in 1..Len(cells) :
       \E s \in Starts(cells) : k \in s..s + Size(cells[s].message)

\* However the stream is cut into reads, the messages dispatched are the ones written, in
\* order and once each: the cells in flight are exactly the frames not yet dispatched, and
\* a frame taken from the buffer does to the device what the oldest of them asks for.
InputInOrder ==
  /\ []InFrames(buf \o stream, pending)
  /\ [][DispatchFrame =>
         /\ pending # <<>>
         /\ [touching |-> touching', pressed |-> pressed']
              = Apply([touching |-> touching, pressed |-> pressed], Head(pending))]_vars

=============================================================================
