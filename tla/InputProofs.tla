---------------------------- MODULE InputProofs ----------------------------
(***************************************************************************)
(* Theorems about the way of the input, for every value of the constants.  *)
(* Of Control: type correctness, which finger and which keys can be down   *)
(* on the device once the input has arrived, and that the messages         *)
(* dispatched are the ones written, however the stream is cut. Of View:    *)
(* the types, the frames, and where a touch lands.                         *)
(***************************************************************************)
EXTENDS Control, View, TLAPS, FiniteSetTheorems, SequenceTheorems

------------------------------------------------------------------------------
(* The inductive invariants. *)

\* The messages on their way: those written first.
OnTheWay == pending \o cmds

\* Each message of downs is followed by one of ups, and so is what is down already.
Paired(messages, down, downs, ups) ==
  /\ down => \E i \in 1..Len(messages) : messages[i] \in ups
  /\ \A i \in 1..Len(messages) :
       messages[i] \in downs => \E j \in i..Len(messages) : messages[j] \in ups

\* The touches that make the device see a finger, and those that lift it.
Feeling == {message \in Message : message.kind = "touch" /\ message.action # "up"}
Lifting == {message \in Message : message.kind = "touch" /\ message.action = "up"}

\* Unless the user holds the button, every touch among the commands is followed by an Up, and
\* the finger and the touches under way are, too, if the last Up was not dropped.
TouchInv ==
  "left" \notin held =>
    /\ Paired(cmds, FALSE, Feeling, Lifting)
    /\ lost_up \/ Paired(OnTheWay, touching, Feeling, Lifting)

\* The messages that may press or release a key, by naming it or by carrying it.
Concerning(key, action) ==
  {message \in Message : /\ message.kind \in {"key", "nav"} /\ message.action = action
                         /\ message.key = key \/ key \in message.meta}
Pressing(key)  == Concerning(key, "down")
Releasing(key) == Concerning(key, "up")

Pressables == Keys \cup Mods \cup {"back", "apps"}

\* A key that nothing holds down: not the user's hand, not a key held while it is on, and not
\* one of those that nothing is sent to release.
Loose(key) == key \notin held /\ key \notin stays /\ ~(key \in mods /\ held \cap Keys # {})

\* What presses such a key is followed by what releases it.
KeysInv ==
  \A key \in Pressables :
    Loose(key) => Paired(OnTheWay, key \in pressed, Pressing(key), Releasing(key))

\* No touch among these messages, and none the device feels.
Untouched(messages) ==
  ~touching /\ \A i \in 1..Len(messages) : messages[i].kind # "touch"

\* Why each is so: a view-only window sends no touch, the session none before it knows the
\* size, the window takes the button for held only while the user holds it, a shell presses
\* no key, and only uinput presses modifiers.
OriginInv ==
  /\ no_control => Untouched(OnTheWay)
  /\ ~sized => Untouched(pending)
  /\ buttons => "left" \in held
  /\ injector = "shell" => pressed = {}
  /\ injector # "uinput" => pressed \cap Mods = {}

\* NothingStuck with what it rests on.
StuckInv == TouchInv /\ KeysInv /\ OriginInv

\* The cells the device has not dispatched are the frames of the messages written.
FrameInv == InFrames(buf \o stream, pending)

\* TypeOK by what its parts are about.
AppTyped ==
  /\ no_control \in BOOLEAN /\ visible \in BOOLEAN /\ cursor \in {"view", "toolbar"}
  /\ buttons \in BOOLEAN
  /\ mods \subseteq Mods /\ held \subseteq Keys \cup {"left"} /\ acts \in 0..MaxActs
  /\ stays \subseteq Mods \cup {"apps"}

HostTyped == session \in {"running", "over"} /\ sized \in BOOLEAN /\ lost_up \in BOOLEAN

CellsTyped == stream \in Seq(Cell) /\ buf \in Seq(Cell)

DeviceTyped ==
  /\ injector \in {"sdk", "uinput", "shell"} /\ server \in {"serving", "push", "over"}
  /\ touching \in BOOLEAN /\ pressed \subseteq Keys \cup Mods \cup {"back", "apps"}

\* The parts together, before and after a step.
LEMMA Whole ==
  /\ TypeOK <=> /\ AppTyped /\ HostTyped /\ CellsTyped /\ DeviceTyped
                /\ cmds \in Seq(Message) /\ pending \in Seq(Message)
  /\ TypeOK' <=> /\ AppTyped' /\ HostTyped' /\ CellsTyped' /\ DeviceTyped'
                 /\ cmds' \in Seq(Message) /\ pending' \in Seq(Message)
BY DEF TypeOK, AppTyped, HostTyped, CellsTyped, DeviceTyped

------------------------------------------------------------------------------
(* Messages and their frames. *)

\* What the window makes is a message.
LEMMA MessagesTyped ==
  /\ \A action \in {"down", "up", "move"}, wide \in BOOLEAN : Touch(action, wide) \in Message
  /\ \A action \in {"down", "up"}, key \in {"back", "apps"} : Nav(action, key) \in Message
  /\ \A action \in {"down", "up"}, key \in Keys, meta \in SUBSET Mods :
       Key(action, key, meta) \in Message
  /\ \A key \in Keys, meta \in SUBSET Mods : Text(key, meta) \in Message
  /\ \A wide \in BOOLEAN : Scroll(wide) \in Message
<1>1. ASSUME NEW action \in {"down", "up", "move"}, NEW wide \in BOOLEAN
      PROVE  Touch(action, wide) \in Message
  BY DEF Message
<1>2. ASSUME NEW action \in {"down", "up"}, NEW key \in {"back", "apps"}
      PROVE  Nav(action, key) \in Message
  BY DEF Message
<1>3. ASSUME NEW action \in {"down", "up"}, NEW key \in Keys, NEW meta \in SUBSET Mods
      PROVE  Key(action, key, meta) \in Message
  BY DEF Message
<1>4. ASSUME NEW key \in Keys, NEW meta \in SUBSET Mods
      PROVE  Text(key, meta) \in Message
  BY DEF Message
<1>5. ASSUME NEW wide \in BOOLEAN
      PROVE  Scroll(wide) \in Message
  BY DEF Message
<1> QED
  BY <1>1, <1>2, <1>3, <1>4, <1>5

\* A message is one of these: what presses has a key of the keyboard or of the navigation.
LEMMA MessageParts ==
  ASSUME NEW message \in Message
  PROVE  /\ message.kind \in {"touch", "key", "nav", "text", "scroll"}
         /\ message.kind = "touch" => message.action \in {"down", "up", "move"}
         /\ message.kind \in {"key", "nav"} =>
              /\ message.action \in {"down", "up"}
              /\ message.key \in Keys \cup {"back", "apps"} /\ message.meta \subseteq Mods
         /\ message.wide \in BOOLEAN
<1>1. CASE \E action \in {"down", "up", "move"}, wide \in BOOLEAN : message = Touch(action, wide)
  BY <1>1 DEF Touch
<1>2. CASE \E action \in {"down", "up"}, key \in Keys, meta \in SUBSET Mods :
             message = Key(action, key, meta)
  BY <1>2 DEF Key
<1>3. CASE \E action \in {"down", "up"}, key \in {"back", "apps"} : message = Nav(action, key)
  BY <1>3 DEF Nav
<1>4. CASE \E key \in Keys, meta \in SUBSET Mods : message = Text(key, meta)
  BY <1>4 DEF Text
<1>5. CASE \E wide \in BOOLEAN : message = Scroll(wide)
  BY <1>5 DEF Scroll
<1> QED
  BY <1>1, <1>2, <1>3, <1>4, <1>5 DEF Message

\* Which touches are felt and which keys are pressed or released.
LEMMA MessageEffects ==
  /\ \A action \in {"down", "up", "move"}, wide \in BOOLEAN :
       /\ Touch("up", wide) \in Lifting /\ Touch("up", wide) \notin Feeling
       /\ \A key : Touch(action, wide) \notin Pressing(key) /\ Scroll(wide) \notin Pressing(key)
       /\ Scroll(wide) \notin Feeling
  /\ \A action, key : Nav(action, key) \notin Feeling
  /\ \A action, key, meta : Key(action, key, meta) \notin Feeling
  /\ \A key, meta : Text(key, meta) \notin Feeling
  /\ \A key : /\ Nav("up", "back") \notin Pressing(key)
              /\ Nav("down", "back") \in Pressing(key) => Nav("up", "back") \in Releasing(key)
              /\ Nav("down", "apps") \in Pressing(key) => key = "apps"
  /\ \A key : \A k \in Keys, meta \in SUBSET Mods :
       /\ Text(k, meta) \notin Pressing(key)
       /\ Key("up", k, meta) \notin Pressing(key)
       /\ key = k \/ key \in meta => Key("up", k, meta) \in Releasing(key)
       /\ Key("down", k, meta) \in Pressing(key) => key = k \/ key \in meta
<1>1. \A action \in {"down", "up", "move"}, wide \in BOOLEAN :
       /\ Touch("up", wide) \in Lifting /\ Touch("up", wide) \notin Feeling
       /\ \A key : Touch(action, wide) \notin Pressing(key) /\ Scroll(wide) \notin Pressing(key)
       /\ Scroll(wide) \notin Feeling
  BY MessagesTyped DEF Lifting, Feeling, Pressing, Concerning, Touch, Scroll
<1>2. /\ \A action, key : Nav(action, key) \notin Feeling
      /\ \A action, key, meta : Key(action, key, meta) \notin Feeling
      /\ \A key, meta : Text(key, meta) \notin Feeling
  BY DEF Feeling, Nav, Key, Text
<1>3. ASSUME NEW key
      PROVE  /\ Nav("up", "back") \notin Pressing(key)
             /\ Nav("down", "back") \in Pressing(key) => Nav("up", "back") \in Releasing(key)
             /\ Nav("down", "apps") \in Pressing(key) => key = "apps"
  BY MessagesTyped DEF Pressing, Releasing, Concerning, Nav
<1>4. ASSUME NEW k \in Keys, NEW meta \in SUBSET Mods, NEW key
      PROVE  /\ Text(k, meta) \notin Pressing(key)
             /\ Key("up", k, meta) \notin Pressing(key)
             /\ key = k \/ key \in meta => Key("up", k, meta) \in Releasing(key)
             /\ Key("down", k, meta) \in Pressing(key) => key = k \/ key \in meta
  BY MessagesTyped DEF Pressing, Releasing, Concerning, Text, Key
<1> QED
  BY <1>1, <1>2, <1>3, <1>4

\* No message does both.
LEMMA EffectsDisjoint ==
  /\ Feeling \cap Lifting = {}
  /\ \A key : Pressing(key) \cap Releasing(key) = {}
BY DEF Feeling, Lifting, Pressing, Releasing, Concerning

\* A frame is its length and one or two cells more.
LEMMA FrameTyped ==
  ASSUME NEW message \in Message
  PROVE  /\ Size(message) \in 1..2
         /\ Frame(message) \in Seq(Cell)
         /\ Len(Frame(message)) = Size(message) + 1
         /\ \A i \in 1..Size(message) + 1 :
              Frame(message)[i] = [part |-> i - 1, message |-> message]
         /\ Frame(message) # <<>>
<1>1. Size(message) \in 1..2
  BY DEF Size
<1>2. \A i \in 1..Size(message) + 1 : [part |-> i - 1, message |-> message] \in Cell
  BY <1>1 DEF Cell
<1>3. Frame(message) = [i \in 1..Size(message) + 1 |-> [part |-> i - 1, message |-> message]]
  BY DEF Frame
<1>4. Frame(message) \in [1..Size(message) + 1 -> Cell]
  BY <1>2, <1>3, Zenon
<1>5. Size(message) + 1 \in Nat \ {0}
  BY <1>1
<1>6. Frame(message) \in Seq(Cell) /\ Len(Frame(message)) = Size(message) + 1
  BY <1>4, <1>5, IsASeq, LenProperties, SMT
<1>7. Frame(message) # <<>>
  BY <1>5, <1>6, EmptySeq
<1> QED
  BY <1>1, <1>3, <1>6, <1>7

------------------------------------------------------------------------------
(* Sequences of messages in which what presses is followed by what releases. *)

\* Where the messages of two sequences are in the one made of both.
LEMMA Places ==
  ASSUME NEW s \in Seq(Message), NEW t \in Seq(Message)
  PROVE  /\ s \o t \in Seq(Message) /\ Len(s \o t) = Len(s) + Len(t)
         /\ \A i \in 1..Len(s) : i \in 1..Len(s \o t) /\ (s \o t)[i] = s[i]
         /\ \A i \in 1..Len(t) : Len(s) + i \in 1..Len(s \o t) /\ (s \o t)[Len(s) + i] = t[i]
         /\ \A i \in 1..Len(s \o t) :
              \/ i \in 1..Len(s) /\ (s \o t)[i] = s[i]
              \/ i - Len(s) \in 1..Len(t) /\ (s \o t)[i] = t[i - Len(s)]
<1>1. Len(s) \in Nat /\ Len(t) \in Nat
  BY LenProperties
<1>2. /\ s \o t \in Seq(Message) /\ Len(s \o t) = Len(s) + Len(t)
      /\ \A i \in 1..Len(s) + Len(t) : (s \o t)[i] = IF i <= Len(s) THEN s[i] ELSE t[i - Len(s)]
  BY ConcatProperties
<1> QED
  BY <1>1, <1>2

\* Two such sequences make one.
LEMMA PairedConcat ==
  ASSUME NEW s \in Seq(Message), NEW t \in Seq(Message), NEW down, NEW downs, NEW ups,
         Paired(s, down, downs, ups), Paired(t, FALSE, downs, ups)
  PROVE  Paired(s \o t, down, downs, ups)
<1> DEFINE w == s \o t
<1>0. Len(s) \in Nat /\ Len(t) \in Nat
  BY LenProperties
<1>1. /\ Len(w) = Len(s) + Len(t)
      /\ \A i \in 1..Len(s) : i \in 1..Len(w) /\ w[i] = s[i]
      /\ \A i \in 1..Len(t) : Len(s) + i \in 1..Len(w) /\ w[Len(s) + i] = t[i]
      /\ \A i \in 1..Len(w) :
           \/ i \in 1..Len(s) /\ w[i] = s[i]
           \/ i - Len(s) \in 1..Len(t) /\ w[i] = t[i - Len(s)]
  BY Places
<1> HIDE DEF w
<1>2. down => \E i \in 1..Len(w) : w[i] \in ups
  BY <1>1 DEF Paired
<1>3. ASSUME NEW i \in 1..Len(w), w[i] \in downs
      PROVE  \E j \in i..Len(w) : w[j] \in ups
  <2>1. CASE i \in 1..Len(s) /\ w[i] = s[i]
    <3>1. PICK j \in i..Len(s) : s[j] \in ups
      BY <1>3, <2>1 DEF Paired
    <3>2. j \in 1..Len(s) /\ j \in i..Len(w)
      BY <1>0, <1>1, <2>1
    <3> QED
      BY <1>1, <3>1, <3>2
  <2>2. CASE i - Len(s) \in 1..Len(t) /\ w[i] = t[i - Len(s)]
    <3>1. PICK j \in i - Len(s)..Len(t) : t[j] \in ups
      BY <1>3, <2>2 DEF Paired
    <3>2. j \in 1..Len(t) /\ Len(s) + j \in i..Len(w)
      BY <1>0, <1>1, <2>2
    <3> QED
      BY <1>1, <3>1, <3>2
  <2> QED
    BY <1>1, <2>1, <2>2
<1> QED
  BY <1>2, <1>3 DEF Paired, w

\* Whatever is before a release is followed by it.
LEMMA PairedRelease ==
  ASSUME NEW s \in Seq(Message), NEW t \in Seq(Message), NEW down, NEW downs, NEW ups,
         Paired(t, FALSE, downs, ups), \E i \in 1..Len(t) : t[i] \in ups
  PROVE  Paired(s \o t, down, downs, ups)
<1> DEFINE w == s \o t
<1>0. Len(s) \in Nat /\ Len(t) \in Nat
  BY LenProperties
<1>1. /\ Len(w) = Len(s) + Len(t)
      /\ \A i \in 1..Len(t) : Len(s) + i \in 1..Len(w) /\ w[Len(s) + i] = t[i]
      /\ \A i \in 1..Len(w) :
           \/ i \in 1..Len(s) /\ w[i] = s[i]
           \/ i - Len(s) \in 1..Len(t) /\ w[i] = t[i - Len(s)]
  BY Places
<1> HIDE DEF w
<1>2. PICK k \in 1..Len(t) : t[k] \in ups
  OBVIOUS
<1>3. Len(s) + k \in 1..Len(w) /\ w[Len(s) + k] \in ups
  BY <1>1, <1>2
<1>4. ASSUME NEW i \in 1..Len(w), w[i] \in downs
      PROVE  \E j \in i..Len(w) : w[j] \in ups
  <2>1. CASE i \in 1..Len(s)
    <3>1. Len(s) + k \in i..Len(w)
      BY <1>0, <1>1, <1>3, <2>1
    <3> QED
      BY <1>3, <3>1
  <2>2. CASE i - Len(s) \in 1..Len(t) /\ w[i] = t[i - Len(s)]
    <3>1. PICK j \in i - Len(s)..Len(t) : t[j] \in ups
      BY <1>4, <2>2 DEF Paired
    <3>2. j \in 1..Len(t) /\ Len(s) + j \in i..Len(w)
      BY <1>0, <1>1, <2>2
    <3> QED
      BY <1>1, <3>1, <3>2
  <2> QED
    BY <1>1, <2>1, <2>2
<1> QED
  BY <1>3, <1>4 DEF Paired, w

\* A sequence without its p-th message.
Without(s, p, w) ==
  /\ p \in 1..Len(s) /\ Len(w) = Len(s) - 1
  /\ \A i \in 1..p - 1 : w[i] = s[i]
  /\ \A i \in p..Len(w) : w[i] = s[i + 1]

\* A message may leave if it is the first or does not release, and what is down after it was
\* down and is not released by it, or is pressed by it.
LEMMA PairedWithout ==
  ASSUME NEW s \in Seq(Message), NEW w \in Seq(Message), NEW p, Without(s, p, w),
         NEW down, NEW after, NEW downs, NEW ups, downs \cap ups = {},
         Paired(s, down, downs, ups),
         p = 1 \/ s[p] \notin ups,
         after => (down /\ s[p] \notin ups) \/ s[p] \in downs
  PROVE  Paired(w, after, downs, ups)
<1>0. /\ Len(s) \in Nat /\ Len(w) \in Nat /\ p \in 1..Len(s) /\ Len(w) = Len(s) - 1
      /\ \A i \in 1..p - 1 : w[i] = s[i]
      /\ \A i \in p..Len(w) : w[i] = s[i + 1]
  BY LenProperties DEF Without
<1>1. /\ down => \E i \in 1..Len(s) : s[i] \in ups
      /\ \A i \in 1..Len(s) : s[i] \in downs => \E j \in i..Len(s) : s[j] \in ups
  BY DEF Paired
\* Where a message but the p-th has gone.
<1>2. \A j \in 1..Len(s) :
        /\ j < p => j \in 1..Len(w) /\ w[j] = s[j]
        /\ j > p => j - 1 \in 1..Len(w) /\ w[j - 1] = s[j]
  BY <1>0
<1>3. ASSUME after
      PROVE  \E i \in 1..Len(w) : w[i] \in ups
  <2>1. s[p] \notin ups
    BY <1>3
  <2>2. PICK j \in 1..Len(s) : s[j] \in ups
    <3>1. CASE down
      BY <1>1, <3>1
    <3>2. CASE s[p] \in downs
      <4>1. PICK j \in p..Len(s) : s[j] \in ups
        BY <1>0, <1>1, <3>2
      <4> QED
        BY <1>0, <4>1
    <3> QED
      BY <1>3, <3>1, <3>2
  <2>3. j < p \/ j > p
    BY <1>0, <2>1, <2>2
  <2> QED
    BY <1>2, <2>2, <2>3
<1>4. ASSUME NEW i \in 1..Len(w), w[i] \in downs
      PROVE  \E j \in i..Len(w) : w[j] \in ups
  <2>1. CASE i < p
    <3>1. i \in 1..Len(s) /\ w[i] = s[i] /\ s[p] \notin ups
      BY <1>0, <2>1
    <3>2. PICK j \in i..Len(s) : s[j] \in ups
      BY <1>1, <1>4, <3>1
    <3>3. j \in 1..Len(s) /\ (j < p \/ j > p)
      BY <1>0, <3>1, <3>2
    <3>4. CASE j < p
      <4>1. j \in i..Len(w) /\ w[j] = s[j]
        BY <1>0, <3>3, <3>4
      <4> QED
        BY <3>2, <4>1
    <3>5. CASE j > p
      <4>1. j - 1 \in i..Len(w) /\ w[j - 1] = s[j]
        BY <1>0, <1>2, <2>1, <3>3, <3>5
      <4> QED
        BY <3>2, <4>1
    <3> QED
      BY <3>3, <3>4, <3>5
  <2>2. CASE i >= p
    <3>1. i + 1 \in 1..Len(s) /\ w[i] = s[i + 1]
      BY <1>0, <2>2
    <3>2. PICK j \in i + 1..Len(s) : s[j] \in ups
      BY <1>1, <1>4, <3>1
    <3>3. j - 1 \in i..Len(w) /\ w[j - 1] = s[j]
      BY <1>0, <1>2, <2>2
    <3> QED
      BY <3>2, <3>3
  <2> QED
    BY <1>0, <2>1, <2>2
<1> QED
  BY <1>3, <1>4 DEF Paired

\* Short sequences: none, one that does not press, the two of a click on "back".
LEMMA PairedShort ==
  /\ \A downs, ups : Paired(<<>>, FALSE, downs, ups)
  /\ \A message, downs, ups : message \notin downs => Paired(<<message>>, FALSE, downs, ups)
  /\ \A key : Paired(<<Nav("down", "back"), Nav("up", "back")>>, FALSE,
                     Pressing(key), Releasing(key))
  /\ Paired(<<Nav("down", "back"), Nav("up", "back")>>, FALSE, Feeling, Lifting)
<1>1. ASSUME NEW downs, NEW ups
      PROVE  Paired(<<>>, FALSE, downs, ups)
  BY EmptySeq DEF Paired
<1>2. ASSUME NEW message, NEW downs, NEW ups, message \notin downs
      PROVE  Paired(<<message>>, FALSE, downs, ups)
  BY <1>2 DEF Paired
<1> DEFINE click == <<Nav("down", "back"), Nav("up", "back")>>
<1>c. /\ Len(click) = 2 /\ click[1] = Nav("down", "back") /\ click[2] = Nav("up", "back")
      /\ \A i \in 1..Len(click) : i = 1 \/ i = 2
  OBVIOUS
<1> HIDE DEF click
<1>3. ASSUME NEW key
      PROVE  Paired(click, FALSE, Pressing(key), Releasing(key))
  <2>1. ASSUME NEW i \in 1..Len(click), click[i] \in Pressing(key)
        PROVE  \E j \in i..Len(click) : click[j] \in Releasing(key)
    <3>1. i = 1 /\ 2 \in i..Len(click) /\ click[2] \in Releasing(key)
      BY <1>c, <2>1, MessageEffects
    <3> QED
      BY <3>1
  <2> QED
    BY <2>1 DEF Paired
<1>4. Paired(click, FALSE, Feeling, Lifting)
  BY <1>c, MessageEffects DEF Paired
<1> QED
  BY <1>1, <1>2, <1>3, <1>4 DEF click

------------------------------------------------------------------------------
(* The user. *)

\* What the user's doing adds to the messages, and how it leaves the hands: what is loose
\* after it was so before or is released by it, and nothing it sends presses for good.
Hands(messages) ==
  /\ no_control => \A i \in 1..Len(messages) : messages[i].kind # "touch"
  /\ buttons' => "left" \in held'
  /\ "left" \notin held' /\ ~no_control =>
       /\ Paired(messages, FALSE, Feeling, Lifting)
       /\ "left" \notin held \/ \E i \in 1..Len(messages) : messages[i] \in Lifting
  /\ \A key \in Pressables : Loose(key)' =>
       /\ Paired(messages, FALSE, Pressing(key), Releasing(key))
       /\ Loose(key) \/ \E i \in 1..Len(messages) : messages[i] \in Releasing(key)

UserSends(messages) ==
  /\ messages \in Seq(Message) /\ cmds' = cmds \o messages
  /\ AppTyped' /\ no_control' = no_control
  /\ Hands(messages)
  /\ UNCHANGED <<host, stream, buf, device, pending>>

\* What leaves the keys and their history alone loosens none.
LEMMA SameGrip ==
  ASSUME AppTyped, held' \cap Keys = held \cap Keys, UNCHANGED <<mods, stays>>,
         NEW key \in Pressables, Loose(key)'
  PROVE  Loose(key)
<1>1. key # "left"
  BY KeysAssumption DEF Pressables, Mods
<1>2. key \notin held
  BY <1>1 DEF Loose, AppTyped
<1> QED
  BY <1>2 DEF Loose

\* Each thing the user does is such.
LEMMA UserStep ==
  ASSUME TypeOK, OriginInv, User
  PROVE  \E messages \in Seq(Message) : UserSends(messages)
<1> USE DEF SendIfControlled, Send, Act
<1>0. /\ AppTyped /\ cmds \in Seq(Message) /\ (buttons => "left" \in held)
      /\ UNCHANGED <<host, stream, buf, device, pending>>
      /\ "left" \notin Keys /\ visible \in BOOLEAN /\ mods \in SUBSET Mods
  BY Whole, KeysAssumption DEF OriginInv, User, AppTyped
<1>e. /\ <<>> \in Seq(Message) /\ Len(<<>>) = 0 /\ cmds \o <<>> = cmds
      /\ \A i : i \notin 1..Len(<<>>)
  BY <1>0, EmptySeq, ConcatEmptySeq
<1>s. /\ <<Nav("down", "back"), Nav("up", "back")>> \in Seq(Message)
      /\ \A action \in {"down", "up", "move"} : <<Touch(action, visible)>> \in Seq(Message)
      /\ <<Scroll(visible)>> \in Seq(Message)
  BY <1>0, MessagesTyped
<1>1. ASSUME \/ \E to \in {"view", "toolbar"} : CursorMoved(to)
             \/ MousePressed \/ MouseReleased \/ RightClicked \/ MouseWheel \/ Resized
      PROVE  \E messages \in Seq(Message) : UserSends(messages)
  <2>1. /\ acts < MaxActs /\ acts' = acts + 1 /\ UNCHANGED <<no_control, mods, stays>>
        /\ visible' \in BOOLEAN /\ cursor' \in {"view", "toolbar"} /\ buttons' \in BOOLEAN
        /\ held' \in {held, held \cup {"left"}, held \ {"left"}}
    BY <1>0, <1>1
       DEF AppTyped, CursorMoved, MousePressed, MouseReleased, RightClicked, MouseWheel, Resized
  <2>2. AppTyped'
    <3>1. acts' \in 0..MaxActs
      BY <1>0, <2>1, BoundsAssumption DEF AppTyped
    <3>2. held' \subseteq Keys \cup {"left"}
      BY <1>0, <2>1 DEF AppTyped
    <3> QED
      BY <1>0, <2>1, <3>1, <3>2 DEF AppTyped
  <2>3. \A key \in Pressables : Loose(key)' => Loose(key)
    <3>1. held' \cap Keys = held \cap Keys
      BY <1>0, <2>1
    <3> QED
      BY <1>0, <2>1, <3>1, SameGrip
  \* What is sent: nothing, a click on "back", a scroll, or a touch.
  <2>4. PICK messages \in Seq(Message) :
          /\ cmds' = cmds \o messages
          /\ \/ messages = <<>>
             \/ messages = <<Nav("down", "back"), Nav("up", "back")>>
             \/ messages = <<Scroll(visible)>>
             \/ /\ ~no_control
                /\ \E action \in {"down", "up", "move"} : messages = <<Touch(action, visible)>>
          /\ buttons' => "left" \in held'
          /\ "left" \notin held' /\ ~no_control =>
               \/ "left" \notin held /\ \A i \in 1..Len(messages) : messages[i].kind # "touch"
               \/ messages = <<Touch("up", visible)>>
    <3>1. ASSUME NEW to \in {"view", "toolbar"}, CursorMoved(to)
          PROVE  \/ cmds' = cmds /\ UNCHANGED <<buttons, held>>
                 \/ /\ cmds' = cmds \o <<Touch("move", visible)>> /\ ~no_control /\ buttons
                    /\ UNCHANGED <<buttons, held>>
      BY <1>e, <3>1 DEF CursorMoved
    <3>2. CASE \E to \in {"view", "toolbar"} : CursorMoved(to)
      <4>1. CASE cmds' = cmds /\ UNCHANGED <<buttons, held>>
        <5>1. cmds' = cmds \o <<>>
          BY <1>e, <4>1
        <5> QED
          BY <1>0, <1>e, <4>1, <5>1
      <4>2. CASE /\ cmds' = cmds \o <<Touch("move", visible)>> /\ ~no_control /\ buttons
                 /\ UNCHANGED <<buttons, held>>
        BY <1>0, <1>s, <4>2
      <4> QED
        BY <3>1, <3>2, <4>1, <4>2
    <3>3. CASE MousePressed
      <4>1. held' = held \cup {"left"}
        BY <3>3 DEF MousePressed
      <4>2. CASE cmds' = cmds \o <<Nav("down", "back"), Nav("up", "back")>>
        BY <1>s, <4>1, <4>2
      <4>3. CASE ~no_control /\ cmds' = cmds \o <<Touch("down", visible)>>
        BY <1>s, <4>1, <4>3
      <4>4. CASE cmds' = cmds \o <<>>
        BY <1>e, <4>1, <4>4
      <4> QED
        BY <3>3, <4>2, <4>3, <4>4 DEF MousePressed
    <3>4. CASE MouseReleased
      <4>1. ~buttons'
        BY <3>4 DEF MouseReleased
      <4>2. CASE ~no_control /\ cmds' = cmds \o <<Touch("up", visible)>>
        BY <1>s, <4>1, <4>2
      <4>3. CASE no_control /\ cmds' = cmds \o <<>>
        BY <1>e, <4>1, <4>3
      <4> QED
        BY <3>4, <4>2, <4>3 DEF MouseReleased
    <3>5. CASE RightClicked \/ MouseWheel \/ Resized
      <4>1. UNCHANGED <<buttons, held>>
        BY <3>5 DEF RightClicked, MouseWheel, Resized
      <4>2. CASE cmds' = cmds \o <<Nav("down", "back"), Nav("up", "back")>>
        <5>1. \A i \in 1..2 : <<Nav("down", "back"), Nav("up", "back")>>[i].kind # "touch"
          BY DEF Nav
        <5> QED
          BY <1>0, <1>s, <4>1, <4>2, <5>1
      <4>3. CASE cmds' = cmds \o <<Scroll(visible)>>
        <5>1. \A i \in 1..Len(<<Scroll(visible)>>) : <<Scroll(visible)>>[i].kind # "touch"
          BY DEF Scroll
        <5> QED
          BY <1>0, <1>s, <4>1, <4>3, <5>1
      <4>4. CASE cmds' = cmds \o <<>> \/ cmds' = cmds
        <5>1. cmds' = cmds \o <<>>
          BY <1>e, <4>4
        <5> QED
          BY <1>0, <1>e, <4>1, <5>1
      <4> QED
        BY <3>5, <4>2, <4>3, <4>4 DEF RightClicked, MouseWheel, Resized
    <3> QED
      BY <1>1, <3>2, <3>3, <3>4, <3>5
  <2>5. \A key \in Pressables : Paired(messages, FALSE, Pressing(key), Releasing(key))
    BY <1>0, <2>4, PairedShort, MessageEffects
  <2>6. no_control => \A i \in 1..Len(messages) : messages[i].kind # "touch"
    <3>1. ~ \E i \in 1..Len(<<>>) : TRUE
      BY <1>e
    <3>2. \A i \in 1..2 : <<Nav("down", "back"), Nav("up", "back")>>[i].kind # "touch"
      BY DEF Nav
    <3>3. \A i \in 1..1 : <<Scroll(visible)>>[i].kind # "touch"
      BY DEF Scroll
    <3> QED
      BY <2>4, <3>1, <3>2, <3>3
  <2>7. "left" \notin held' /\ ~no_control =>
          /\ Paired(messages, FALSE, Feeling, Lifting)
          /\ "left" \notin held \/ \E i \in 1..Len(messages) : messages[i] \in Lifting
    <3>1. CASE "left" \notin held /\ \A i \in 1..Len(messages) : messages[i].kind # "touch"
      BY <3>1 DEF Paired, Feeling
    <3>2. CASE messages = <<Touch("up", visible)>>
      <4>1. Paired(messages, FALSE, Feeling, Lifting)
        BY <1>0, <3>2, PairedShort, MessageEffects
      <4>2. 1 \in 1..Len(messages) /\ messages[1] \in Lifting
        BY <1>0, <3>2, MessageEffects
      <4> QED
        BY <4>1, <4>2
    <3> QED
      BY <2>4, <3>1, <3>2
  <2>8. Hands(messages)
    BY <2>3, <2>4, <2>5, <2>6, <2>7 DEF Hands
  <2> QED
    BY <1>0, <2>1, <2>2, <2>4, <2>8 DEF UserSends
<1>2. ASSUME NEW to \in SUBSET Mods, ModifiersChanged(to)
      PROVE  \E messages \in Seq(Message) : UserSends(messages)
  <2>1. /\ acts < MaxActs /\ acts' = acts + 1 /\ mods' = to
        /\ stays' = IF held \cap Keys = {} THEN stays
                    ELSE stays \cup (mods \ to) \cup (to \ mods)
        /\ UNCHANGED <<no_control, visible, cursor, buttons, held, cmds>>
    BY <1>2 DEF ModifiersChanged
  <2>2. AppTyped' /\ no_control' = no_control
    <3>1. stays' \subseteq Mods \cup {"apps"}
      BY <1>0, <2>1 DEF AppTyped
    <3> QED
      BY <1>0, <2>1, <3>1, BoundsAssumption DEF AppTyped
  <2>3. ASSUME NEW key \in Pressables, Loose(key)'
        PROVE  Loose(key)
    BY <2>1, <2>3 DEF Loose
  <2>4. Hands(<<>>)
    BY <1>0, <1>e, <2>1, <2>3, PairedShort DEF Hands
  <2> QED
    BY <1>0, <1>e, <2>1, <2>2, <2>4 DEF UserSends
<1>3. ASSUME NEW key \in Keys, KeyPressed(key)
      PROVE  \E messages \in Seq(Message) : UserSends(messages)
  <2>1. /\ acts < MaxActs /\ acts' = acts + 1 /\ held' = held \cup {key}
        /\ stays' = IF Recents(key) /\ ~no_control THEN stays \cup {"apps"} ELSE stays
        /\ UNCHANGED <<no_control, visible, cursor, buttons, mods>>
    BY <1>3 DEF KeyPressed
  <2>2. PICK messages \in Seq(Message) :
          /\ cmds' = cmds \o messages
          /\ \/ messages = <<Nav("down", "apps")>> /\ Recents(key) /\ ~no_control
             \/ messages = <<Text(key, mods)>>
             \/ messages = <<Key("down", key, mods)>>
             \/ messages = <<>>
    <3>1. \A message \in {Nav("down", "apps"), Text(key, mods), Key("down", key, mods)} :
            <<message>> \in Seq(Message)
      BY <1>0, MessagesTyped
    <3> QED
      BY <1>3, <1>e, <3>1 DEF KeyPressed, OnKey
  <2>3. AppTyped'
    <3>1. stays' \subseteq Mods \cup {"apps"} /\ held' \subseteq Keys \cup {"left"}
      BY <1>0, <2>1 DEF AppTyped
    <3> QED
      BY <1>0, <2>1, <3>1, BoundsAssumption DEF AppTyped
  <2>4. ASSUME NEW k \in Pressables, Loose(k)'
        PROVE  /\ Loose(k)
               /\ Paired(messages, FALSE, Pressing(k), Releasing(k))
    <3>1. k \notin held /\ k \notin stays /\ k # key /\ k \notin mods
      <4>1. key \in held' \cap Keys
        BY <2>1
      <4> QED
        BY <2>1, <2>4, <4>1 DEF Loose
    <3>2. Loose(k)
      BY <3>1 DEF Loose
    <3>3. CASE messages = <<Nav("down", "apps")>> /\ Recents(key) /\ ~no_control
      <4>1. k # "apps"
        BY <2>1, <2>4, <3>3 DEF Loose
      <4> QED
        BY <3>2, <3>3, <4>1, PairedShort, MessageEffects
    <3>4. CASE messages = <<Text(key, mods)>>
      BY <1>0, <3>2, <3>4, PairedShort, MessageEffects
    <3>5. CASE messages = <<Key("down", key, mods)>>
      <4>1. Key("down", key, mods) \notin Pressing(k)
        BY <1>0, <3>1, MessageEffects
      <4> QED
        BY <3>2, <3>5, <4>1, PairedShort
    <3>6. CASE messages = <<>>
      BY <3>2, <3>6, PairedShort
    <3> QED
      BY <2>2, <3>3, <3>4, <3>5, <3>6
  <2>5. /\ Paired(messages, FALSE, Feeling, Lifting)
        /\ \A i \in 1..Len(messages) : messages[i].kind # "touch"
    <3>1. Paired(messages, FALSE, Feeling, Lifting)
      BY <2>2, PairedShort, MessageEffects
    <3>2. /\ Nav("down", "apps").kind # "touch" /\ Text(key, mods).kind # "touch"
          /\ Key("down", key, mods).kind # "touch"
      BY DEF Nav, Text, Key
    <3>3. \A i \in 1..Len(messages) :
            messages[i] \in {Nav("down", "apps"), Text(key, mods), Key("down", key, mods)}
      BY <1>e, <2>2
    <3> QED
      BY <3>1, <3>2, <3>3
  <2>6. Hands(messages)
    <3>1. key # "left"
      BY <1>0
    <3> QED
      BY <1>0, <2>1, <2>4, <2>5, <3>1 DEF Hands
  <2> QED
    BY <1>0, <2>1, <2>2, <2>3, <2>6 DEF UserSends
<1>4. ASSUME NEW key \in Keys, KeyReleased(key)
      PROVE  \E messages \in Seq(Message) : UserSends(messages)
  <2> DEFINE up == Key("up", key, mods)
  <2>1. /\ acts < MaxActs /\ acts' = acts + 1 /\ held' = held \ {key}
        /\ cmds' = cmds \o <<up>> /\ stays' = stays \ mods
        /\ UNCHANGED <<no_control, visible, cursor, buttons, mods>>
    BY <1>4 DEF KeyReleased
  <2>2. <<up>> \in Seq(Message)
    BY <1>0, MessagesTyped
  <2>3. AppTyped'
    <3>1. stays' \subseteq Mods \cup {"apps"} /\ held' \subseteq Keys \cup {"left"}
      BY <1>0, <2>1 DEF AppTyped
    <3> QED
      BY <1>0, <2>1, <3>1, BoundsAssumption DEF AppTyped
  <2>4. ASSUME NEW k \in Pressables, Loose(k)'
        PROVE  /\ Paired(<<up>>, FALSE, Pressing(k), Releasing(k))
               /\ Loose(k) \/ \E i \in 1..Len(<<up>>) : <<up>>[i] \in Releasing(k)
    <3>1. Paired(<<up>>, FALSE, Pressing(k), Releasing(k))
      BY <1>0, PairedShort, MessageEffects
    <3>2. CASE k = key \/ k \in mods
      <4>1. up \in Releasing(k)
        BY <1>0, <3>2, MessageEffects
      <4>2. 1 \in 1..Len(<<up>>) /\ <<up>>[1] = up
        OBVIOUS
      <4> HIDE DEF up
      <4> QED
        BY <3>1, <4>1, <4>2
    <3>3. CASE k # key /\ k \notin mods
      BY <2>1, <2>4, <3>1, <3>3 DEF Loose
    <3> QED
      BY <3>1, <3>2, <3>3
  <2>5. /\ Paired(<<up>>, FALSE, Feeling, Lifting)
        /\ \A i \in 1..Len(<<up>>) : <<up>>[i].kind # "touch"
    <3>1. up \notin Feeling /\ up.kind # "touch"
      BY MessageEffects DEF Key
    <3> HIDE DEF up
    <3>2. Paired(<<up>>, FALSE, Feeling, Lifting)
      BY <3>1, PairedShort
    <3>3. \A i \in 1..Len(<<up>>) : <<up>>[i].kind # "touch"
      BY <3>1
    <3> QED
      BY <3>2, <3>3
  <2>6. Hands(<<up>>)
    <3>1. key # "left"
      BY <1>0
    <3> HIDE DEF up
    <3> QED
      BY <1>0, <2>1, <2>4, <2>5, <3>1 DEF Hands
  <2> QED
    BY <1>0, <2>1, <2>2, <2>3, <2>6 DEF UserSends
<1> QED
  BY <1>1, <1>2, <1>3, <1>4 DEF User

\* The messages on their way are the pending ones and then the commands.
LEMMA OnTheWayTyped ==
  ASSUME TypeOK
  PROVE  /\ OnTheWay \in Seq(Message)
         /\ Len(OnTheWay) = Len(pending) + Len(cmds)
         /\ Len(pending) \in Nat /\ Len(cmds) \in Nat
BY Whole, Places, LenProperties DEF OnTheWay

\* The user keeps what NothingStuck rests on.
LEMMA UserKeepsStuck ==
  ASSUME TypeOK, StuckInv, User
  PROVE  TypeOK' /\ StuckInv'
<1>1. PICK messages \in Seq(Message) : UserSends(messages)
  BY UserStep DEF StuckInv
<1>2. /\ cmds' = cmds \o messages /\ Hands(messages)
      /\ UNCHANGED <<session, sized, lost_up, stream, buf, injector, server, touching, pressed,
                     pending>>
      /\ no_control' = no_control /\ AppTyped'
  BY <1>1 DEF UserSends, host, device
<1>3. cmds \in Seq(Message) /\ pending \in Seq(Message) /\ OnTheWay \in Seq(Message)
  BY Whole, OnTheWayTyped
<1>4. TypeOK'
  <2>1. cmds' \in Seq(Message)
    BY <1>2, <1>3, Places
  <2> QED
    BY <1>2, <2>1, Whole DEF HostTyped, CellsTyped, DeviceTyped
<1>5. OnTheWay' = OnTheWay \o messages
  <2>1. pending \o (cmds \o messages) = (pending \o cmds) \o messages
    BY <1>3, ConcatAssociative
  <2> QED
    BY <1>2, <2>1 DEF OnTheWay
<1>6. no_control => Untouched(OnTheWay)'
  <2> SUFFICES ASSUME no_control
               PROVE  /\ ~touching
                      /\ \A i \in 1..Len(OnTheWay') : OnTheWay'[i].kind # "touch"
    BY <1>2 DEF Untouched
  <2>1. ~touching /\ \A i \in 1..Len(OnTheWay) : OnTheWay[i].kind # "touch"
    BY DEF StuckInv, OriginInv, Untouched
  <2>2. \A i \in 1..Len(messages) : messages[i].kind # "touch"
    BY <1>2 DEF Hands
  <2>3. \A i \in 1..Len(OnTheWay \o messages) :
          \/ i \in 1..Len(OnTheWay) /\ (OnTheWay \o messages)[i] = OnTheWay[i]
          \/ /\ i - Len(OnTheWay) \in 1..Len(messages)
             /\ (OnTheWay \o messages)[i] = messages[i - Len(OnTheWay)]
    BY <1>3, Places
  <2> QED
    BY <1>5, <2>1, <2>2, <2>3
<1>7. TouchInv'
  <2> SUFFICES ASSUME "left" \notin held'
               PROVE  /\ Paired(cmds \o messages, FALSE, Feeling, Lifting)
                      /\ lost_up \/ Paired(OnTheWay \o messages, touching, Feeling, Lifting)
    BY <1>2, <1>5 DEF TouchInv
  <2>1. CASE no_control
    <3>1. ~touching /\ \A i \in 1..Len(OnTheWay \o messages) :
                         (OnTheWay \o messages)[i].kind # "touch"
      BY <1>2, <1>5, <1>6, <2>1 DEF Untouched
    <3>2. Paired(OnTheWay \o messages, touching, Feeling, Lifting)
      BY <3>1 DEF Paired, Feeling
    <3>3. \A i \in 1..Len(cmds \o messages) : (cmds \o messages)[i].kind # "touch"
      <4>1. OnTheWay \o messages = pending \o (cmds \o messages)
        BY <1>3, ConcatAssociative DEF OnTheWay
      <4>2. cmds \o messages \in Seq(Message)
        BY <1>3, Places
      <4>3. \A i \in 1..Len(cmds \o messages) :
              /\ Len(pending) + i \in 1..Len(pending \o (cmds \o messages))
              /\ (pending \o (cmds \o messages))[Len(pending) + i] = (cmds \o messages)[i]
        BY <1>3, <4>2, Places
      <4> QED
        BY <3>1, <4>1, <4>3
    <3>4. Paired(cmds \o messages, FALSE, Feeling, Lifting)
      BY <3>3 DEF Paired, Feeling
    <3> QED
      BY <3>2, <3>4
  <2>2. CASE ~no_control /\ "left" \notin held
    <3>1. Paired(messages, FALSE, Feeling, Lifting)
      BY <1>2, <2>2 DEF Hands
    <3>2. /\ Paired(cmds, FALSE, Feeling, Lifting)
          /\ lost_up \/ Paired(OnTheWay, touching, Feeling, Lifting)
      BY <2>2 DEF StuckInv, TouchInv
    <3> QED
      BY <1>3, <3>1, <3>2, PairedConcat
  <2>3. CASE ~no_control /\ "left" \in held
    <3>1. /\ Paired(messages, FALSE, Feeling, Lifting)
          /\ \E i \in 1..Len(messages) : messages[i] \in Lifting
      BY <1>2, <2>3 DEF Hands
    <3> QED
      BY <1>3, <3>1, PairedRelease
  <2> QED
    BY <2>1, <2>2, <2>3
<1>8. KeysInv'
  <2> SUFFICES ASSUME NEW key \in Pressables, Loose(key)'
               PROVE  Paired(OnTheWay \o messages, key \in pressed, Pressing(key), Releasing(key))
    BY <1>2, <1>5 DEF KeysInv, Pressables, Pressing, Releasing
  <2>1. /\ Paired(messages, FALSE, Pressing(key), Releasing(key))
        /\ Loose(key) \/ \E i \in 1..Len(messages) : messages[i] \in Releasing(key)
    BY <1>2 DEF Hands
  <2>2. CASE Loose(key)
    <3>1. Paired(OnTheWay, key \in pressed, Pressing(key), Releasing(key))
      BY <2>2 DEF StuckInv, KeysInv
    <3> QED
      BY <1>3, <2>1, <3>1, PairedConcat
  <2>3. CASE \E i \in 1..Len(messages) : messages[i] \in Releasing(key)
    BY <1>3, <2>1, <2>3, PairedRelease
  <2> QED
    BY <2>1, <2>2, <2>3
<1>9. OriginInv'
  BY <1>2, <1>6 DEF StuckInv, OriginInv, Untouched, Hands
<1> QED
  BY <1>4, <1>7, <1>8, <1>9 DEF StuckInv

------------------------------------------------------------------------------
(* The cells of a stream as frames. *)

\* The starts are finitely many, each has its place, and the places number them.
LEMMA StartsCounted ==
  ASSUME NEW cells \in Seq(Cell)
  PROVE  /\ IsFiniteSet(Starts(cells)) /\ Cardinality(Starts(cells)) \in Nat
         /\ \A s \in Starts(cells) :
              /\ s \in 1..Len(cells) /\ cells[s].part = 0
              /\ Place(cells, s) \in 1..Cardinality(Starts(cells))
<1>0. Len(cells) \in Nat
  BY LenProperties
<1>1. Starts(cells) \subseteq 1..Len(cells) /\ \A s \in Starts(cells) : cells[s].part = 0
  BY DEF Starts
<1>2. IsFiniteSet(1..Len(cells))
  BY <1>0, FS_Interval
<1>3. IsFiniteSet(Starts(cells)) /\ Cardinality(Starts(cells)) \in Nat
  BY <1>1, <1>2, FS_Subset, FS_CardinalityType
<1>4. ASSUME NEW s \in Starts(cells)
      PROVE  Place(cells, s) \in 1..Cardinality(Starts(cells))
  <2> DEFINE A == {t \in Starts(cells) : t <= s}
  <2>1. A \in SUBSET Starts(cells)
    OBVIOUS
  <2>2. IsFiniteSet(A) /\ Cardinality(A) <= Cardinality(Starts(cells)) /\ Cardinality(A) \in Nat
    BY <1>3, <2>1, FS_Subset, FS_CardinalityType
  <2>3. s \in A
    BY <1>0, <1>1
  <2>4. Cardinality(A) # 0
    BY <2>2, <2>3, FS_EmptySet
  <2>5. Place(cells, s) = Cardinality(A)
    BY DEF Place
  <2> HIDE DEF A
  <2> QED
    BY <1>3, <2>2, <2>4, <2>5
<1> QED
  BY <1>1, <1>3, <1>4

\* A frame is written behind the others.
LEMMA FramesAppend ==
  ASSUME NEW cells \in Seq(Cell), NEW messages \in Seq(Message), NEW message \in Message,
         InFrames(cells, messages)
  PROVE  InFrames(cells \o Frame(message), Append(messages, message))
<1> DEFINE w == cells \o Frame(message)
           ms == Append(messages, message)
           n == Len(cells)
<1>0. n \in Nat /\ Len(messages) \in Nat /\ Size(message) \in 1..2
  BY LenProperties, FrameTyped
<1>1. /\ w \in Seq(Cell) /\ Len(w) = n + Size(message) + 1
      /\ \A k \in 1..n : w[k] = cells[k]
      /\ \A i \in 1..Size(message) + 1 : w[n + i] = [part |-> i - 1, message |-> message]
  <2>1. /\ Frame(message) \in Seq(Cell) /\ Len(Frame(message)) = Size(message) + 1
        /\ \A i \in 1..Size(message) + 1 :
             Frame(message)[i] = [part |-> i - 1, message |-> message]
    BY FrameTyped
  <2>2. /\ w \in Seq(Cell) /\ Len(w) = n + Len(Frame(message))
        /\ \A i \in 1..n + Len(Frame(message)) :
             w[i] = IF i <= n THEN cells[i] ELSE Frame(message)[i - n]
    BY <2>1, ConcatProperties
  <2> HIDE DEF w
  <2>3. ASSUME NEW i \in 1..Size(message) + 1
        PROVE  w[n + i] = [part |-> i - 1, message |-> message]
    <3>1. n + i \in 1..n + Len(Frame(message)) /\ ~(n + i <= n) /\ (n + i) - n = i
      BY <1>0, <2>1
    <3> QED
      BY <2>1, <2>2, <3>1
  <2> QED
    BY <1>0, <2>1, <2>2, <2>3
<1>2. /\ Len(ms) = Len(messages) + 1
      /\ \A i \in 1..Len(messages) : ms[i] = messages[i]
      /\ ms[Len(messages) + 1] = message
  BY AppendProperties
<1>3. /\ Cardinality(Starts(cells)) = Len(messages)
      /\ \A s \in Starts(cells) : \A i \in 1..Size(messages[Place(cells, s)]) + 1 :
           /\ s + i - 1 <= n
           /\ cells[s + i - 1] = Frame(messages[Place(cells, s)])[i]
      /\ \A k \in 1..n : \E s \in Starts(cells) : k \in s..s + Size(cells[s].message)
  BY DEF InFrames
<1>4. /\ IsFiniteSet(Starts(cells))
      /\ \A s \in Starts(cells) : s \in 1..n /\ Place(cells, s) \in 1..Len(messages)
  BY <1>3, StartsCounted
<1> HIDE DEF w, ms
<1>5. Starts(w) = Starts(cells) \cup {n + 1}
  <2>1. w[n + 1] = [part |-> 0, message |-> message]
    BY <1>0, <1>1
  <2>2. ASSUME NEW i \in 2..Size(message) + 1
        PROVE  w[n + i].part # 0
    <3>1. i \in 1..Size(message) + 1 /\ i - 1 # 0
      BY <1>0
    <3>2. w[n + i] = [part |-> i - 1, message |-> message]
      BY <1>1, <3>1
    <3> QED
      BY <3>1, <3>2
  <2>3. ASSUME NEW k
        PROVE  k \in Starts(w) <=> k \in Starts(cells) \cup {n + 1}
    <3>1. CASE k \in 1..n
      BY <1>0, <1>1, <3>1 DEF Starts
    <3>2. CASE k = n + 1
      BY <1>0, <1>1, <2>1, <3>2 DEF Starts
    <3>3. CASE k \in n + 2..Len(w)
      <4>1. k - n \in 2..Size(message) + 1 /\ n + (k - n) = k
        BY <1>0, <1>1, <3>3
      <4>2. w[k].part # 0
        BY <2>2, <4>1
      <4> QED
        BY <1>0, <3>3, <4>2 DEF Starts
    <3>4. CASE k \notin 1..Len(w)
      BY <1>0, <1>1, <3>4 DEF Starts
    <3> QED
      BY <1>0, <1>1, <3>1, <3>2, <3>3, <3>4
  <2> QED
    BY <2>3, Zenon
<1>6. n + 1 \notin Starts(cells)
  BY <1>0, <1>4
<1>7. Cardinality(Starts(w)) = Len(ms)
  <2>1. Cardinality(Starts(cells) \cup {n + 1}) = Cardinality(Starts(cells)) + 1
    BY <1>4, <1>6, FS_AddElement
  <2> QED
    BY <1>2, <1>3, <1>5, <2>1
<1>8. Place(w, n + 1) = Len(messages) + 1
  <2>1. \A k : k \in {t \in Starts(w) : t <= n + 1} <=> k \in Starts(w)
    BY <1>0, <1>4, <1>5
  <2>2. {t \in Starts(w) : t <= n + 1} = Starts(w)
    BY <2>1, Zenon
  <2> QED
    BY <1>2, <1>7, <2>2 DEF Place
<1>9. ASSUME NEW s \in Starts(cells)
      PROVE  Place(w, s) = Place(cells, s)
  <2>1. \A k : k \in {t \in Starts(w) : t <= s} <=> k \in {t \in Starts(cells) : t <= s}
    BY <1>0, <1>4, <1>5
  <2>2. {t \in Starts(w) : t <= s} = {t \in Starts(cells) : t <= s}
    BY <2>1, Zenon
  <2> QED
    BY <2>2 DEF Place
<1>10. ASSUME NEW s \in Starts(w), NEW i \in 1..Size(ms[Place(w, s)]) + 1
       PROVE  s + i - 1 <= Len(w) /\ w[s + i - 1] = Frame(ms[Place(w, s)])[i]
  <2>1. CASE s \in Starts(cells)
    <3>1. ms[Place(w, s)] = messages[Place(cells, s)]
      BY <1>2, <1>4, <1>9, <2>1
    <3>2. /\ s + i - 1 <= n
          /\ cells[s + i - 1] = Frame(messages[Place(cells, s)])[i]
      BY <1>3, <1>10, <2>1, <3>1
    <3>3. s + i - 1 \in 1..n
      <4>1. s \in 1..n /\ messages[Place(cells, s)] \in Message
        BY <1>4, <2>1, ElementOfSeq
      <4>2. Size(messages[Place(cells, s)]) \in 1..2
        BY <4>1, FrameTyped
      <4> QED
        BY <1>0, <1>10, <3>1, <3>2, <4>1, <4>2
    <3> QED
      BY <1>0, <1>1, <3>1, <3>2, <3>3
  <2>2. CASE s = n + 1
    <3>1. ms[Place(w, s)] = message
      BY <1>2, <1>8, <2>2
    <3>2. i \in 1..Size(message) + 1 /\ s + i - 1 = n + i
      BY <1>0, <2>2, <3>1
    <3>3. Frame(message)[i] = [part |-> i - 1, message |-> message]
      BY <3>2, FrameTyped
    <3> QED
      BY <1>0, <1>1, <3>1, <3>2, <3>3
  <2> QED
    BY <1>5, <2>1, <2>2
<1>11. ASSUME NEW k \in 1..Len(w)
       PROVE  \E s \in Starts(w) : k \in s..s + Size(w[s].message)
  <2>1. CASE k \in 1..n
    <3>1. PICK s \in Starts(cells) : k \in s..s + Size(cells[s].message)
      BY <1>3, <2>1
    <3>2. s \in Starts(w) /\ w[s] = cells[s]
      BY <1>1, <1>4, <1>5
    <3> QED
      BY <3>1, <3>2
  <2>2. CASE k \notin 1..n
    <3>1. n + 1 \in Starts(w) /\ w[n + 1].message = message
      <4>1. 1 \in 1..Size(message) + 1
        BY <1>0
      <4>2. w[n + 1] = [part |-> 1 - 1, message |-> message]
        BY <1>1, <4>1
      <4> QED
        BY <1>5, <4>2
    <3>2. k \in n + 1..(n + 1) + Size(message)
      BY <1>0, <1>1, <2>2
    <3> QED
      BY <3>1, <3>2
  <2> QED
    BY <2>1, <2>2
<1> QED
  BY <1>7, <1>10, <1>11 DEF InFrames, w, ms

\* The first frame is that of the first message.
LEMMA FirstFrame ==
  ASSUME NEW cells \in Seq(Cell), NEW messages \in Seq(Message),
         InFrames(cells, messages), cells # <<>>
  PROVE  /\ 1 \in Starts(cells) /\ Place(cells, 1) = 1
         /\ messages # <<>> /\ messages[1] \in Message
         /\ Size(messages[1]) + 1 <= Len(cells)
         /\ \A i \in 1..Size(messages[1]) + 1 :
              cells[i] = [part |-> i - 1, message |-> messages[1]]
<1>0. Len(cells) \in Nat \ {0} /\ Len(messages) \in Nat
  BY LenProperties, EmptySeq
<1>1. /\ \A s \in Starts(cells) : s \in 1..Len(cells) /\ Place(cells, s) \in 1..Len(messages)
      /\ IsFiniteSet(Starts(cells))
  BY StartsCounted DEF InFrames
<1>2. PICK s \in Starts(cells) : 1 \in s..s + Size(cells[s].message)
  <2>1. 1 \in 1..Len(cells)
    BY <1>0
  <2> QED
    BY <2>1 DEF InFrames
<1>3. s = 1
  BY <1>0, <1>1, <1>2
<1>4. 1 \in Starts(cells)
  BY <1>2, <1>3
<1>5. Place(cells, 1) = 1
  <2>1. \A k : k \in {t \in Starts(cells) : t <= 1} <=> k \in {1}
    BY <1>0, <1>1, <1>4
  <2>2. {t \in Starts(cells) : t <= 1} = {1}
    BY <2>1, Zenon
  <2> QED
    BY <2>2, FS_Singleton DEF Place
<1>6. 1 \in 1..Len(messages)
  BY <1>1, <1>4, <1>5
<1>7. messages # <<>> /\ messages[1] \in Message
  BY <1>0, <1>6, ElementOfSeq, EmptySeq
<1>8. Size(messages[1]) \in 1..2
  BY <1>7, FrameTyped
<1>9. \A i \in 1..Size(messages[1]) + 1 :
        1 + i - 1 <= Len(cells) /\ cells[1 + i - 1] = Frame(messages[1])[i]
  BY <1>4, <1>5 DEF InFrames
<1>10. ASSUME NEW i \in 1..Size(messages[1]) + 1
       PROVE  i <= Len(cells) /\ cells[i] = [part |-> i - 1, message |-> messages[1]]
  <2>1. 1 + i - 1 = i
    BY <1>8
  <2>2. Frame(messages[1])[i] = [part |-> i - 1, message |-> messages[1]]
    BY <1>7, FrameTyped
  <2> QED
    BY <1>9, <2>1, <2>2
<1>11. Size(messages[1]) + 1 <= Len(cells)
  <2>1. Size(messages[1]) + 1 \in 1..Size(messages[1]) + 1
    BY <1>8
  <2> QED
    BY <1>10, <2>1
<1> QED
  BY <1>4, <1>5, <1>7, <1>10, <1>11

\* What SubSeq leaves when the first message is gone.
LEMMA RestTyped ==
  ASSUME NEW messages \in Seq(Message), messages # <<>>
  PROVE  /\ SubSeq(messages, 2, Len(messages)) \in Seq(Message)
         /\ Len(SubSeq(messages, 2, Len(messages))) = Len(messages) - 1
         /\ \A i \in 1..Len(messages) - 1 :
              SubSeq(messages, 2, Len(messages))[i] = messages[i + 1]
<1>1. Tail(messages) = SubSeq(messages, 2, Len(messages))
  BY TailIsSubSeq
<1>2. /\ Tail(messages) \in Seq(Message) /\ Len(Tail(messages)) = Len(messages) - 1
      /\ \A i \in 1..Len(Tail(messages)) : Tail(messages)[i] = messages[i + 1]
  BY HeadTailProperties
<1> QED
  BY <1>1, <1>2

\* The first frame is taken away, and the others move up by its length.
LEMMA FramesDrop ==
  ASSUME NEW cells \in Seq(Cell), NEW messages \in Seq(Message), NEW w \in Seq(Cell),
         InFrames(cells, messages), cells # <<>>,
         Len(w) = Len(cells) - (Size(messages[1]) + 1),
         \A k \in 1..Len(w) : w[k] = cells[k + (Size(messages[1]) + 1)]
  PROVE  InFrames(w, SubSeq(messages, 2, Len(messages)))
<1> DEFINE d == Size(messages[1]) + 1
           ms == SubSeq(messages, 2, Len(messages))
<1>1. /\ 1 \in Starts(cells) /\ Place(cells, 1) = 1
      /\ messages # <<>> /\ messages[1] \in Message
      /\ \A i \in 1..d : cells[i] = [part |-> i - 1, message |-> messages[1]]
  BY FirstFrame
<1>2. /\ d \in 2..3 /\ Size(messages[1]) \in 1..2 /\ d = Size(messages[1]) + 1
      /\ Len(cells) \in Nat /\ Len(w) \in Nat /\ Len(w) = Len(cells) - d
      /\ \A k \in 1..Len(w) : w[k] = cells[k + d]
      /\ Len(messages) \in Nat \ {0}
  <2>1. Size(messages[1]) \in 1..2
    BY <1>1, FrameTyped
  <2>2. Len(cells) \in Nat /\ Len(w) \in Nat
    BY LenProperties
  <2>3. Len(messages) \in Nat \ {0}
    BY <1>1, EmptySeq
  <2> QED
    BY <2>1, <2>2, <2>3
<1>3. /\ Len(ms) = Len(messages) - 1
      /\ \A i \in 1..Len(messages) - 1 : ms[i] = messages[i + 1]
  BY <1>1, RestTyped
<1>4. /\ Cardinality(Starts(cells)) = Len(messages)
      /\ \A s \in Starts(cells) : \A i \in 1..Size(messages[Place(cells, s)]) + 1 :
           /\ s + i - 1 <= Len(cells)
           /\ cells[s + i - 1] = Frame(messages[Place(cells, s)])[i]
      /\ \A k \in 1..Len(cells) : \E s \in Starts(cells) : k \in s..s + Size(cells[s].message)
  BY DEF InFrames
<1>5. /\ IsFiniteSet(Starts(cells)) /\ IsFiniteSet(Starts(w))
      /\ \A s \in Starts(cells) : s \in 1..Len(cells) /\ Place(cells, s) \in 1..Len(messages)
      /\ \A s \in Starts(w) : s \in 1..Len(w) /\ Place(w, s) \in 1..Cardinality(Starts(w))
      /\ Cardinality(Starts(w)) \in Nat
  BY <1>4, StartsCounted
<1> HIDE DEF d, ms
\* The starts of the rest are those but the first, moved.
<1>6. \A k \in 1..Len(w) : k \in Starts(w) <=> k + d \in Starts(cells)
  BY <1>2 DEF Starts
<1>7. \A k \in Starts(cells) : k = 1 \/ k - d \in Starts(w)
  <2> SUFFICES ASSUME NEW k \in Starts(cells), k # 1
               PROVE  k - d \in Starts(w)
    OBVIOUS
  <2>1. ASSUME k \in 2..d
        PROVE  FALSE
    <3>1. k \in 1..d /\ k - 1 # 0
      BY <1>2, <2>1
    <3>2. cells[k] = [part |-> k - 1, message |-> messages[1]]
      BY <1>1, <3>1
    <3> QED
      BY <3>1, <3>2 DEF Starts
  <2>2. k - d \in 1..Len(w) /\ (k - d) + d = k
    <3>1. k \in 1..Len(cells)
      BY <1>5
    <3>2. k \notin 2..d
      BY <2>1
    <3>3. d \in 2..3 /\ Len(cells) \in Nat /\ Len(w) = Len(cells) - d
      BY <1>2
    <3>4. k \in d + 1..Len(cells)
      BY <3>1, <3>2, <3>3
    <3> QED
      BY <3>3, <3>4
  <2> QED
    BY <1>6, <2>2
\* Their places are one less.
<1>8. ASSUME NEW b \in Nat
      PROVE  Cardinality({t \in Starts(cells) : t <= b + d})
               = Cardinality({t \in Starts(w) : t <= b}) + 1
  <2> DEFINE A == {t \in Starts(w) : t <= b}
             B == {t \in Starts(cells) : t <= b + d}
             f == [t \in A |-> t + d]
  <2>1. A \in SUBSET Starts(w) /\ B \in SUBSET Starts(cells)
    OBVIOUS
  <2>2. IsFiniteSet(A) /\ IsFiniteSet(B) /\ Cardinality(B) \in Nat
    BY <1>5, <2>1, FS_Subset, FS_CardinalityType
  <2>3. 1 \in B
    BY <1>1, <1>2
  <2>4. ASSUME NEW t \in A
        PROVE  t + d \in B \ {1}
    <3>1. t \in 1..Len(w) /\ t \in Starts(w) /\ t <= b
      BY <1>5
    <3>2. t + d \in Starts(cells)
      BY <1>6, <3>1
    <3>3. d \in 2..3 /\ Len(w) \in Nat
      BY <1>2
    <3>4. t + d <= b + d /\ t + d # 1
      BY <3>1, <3>3
    <3> QED
      BY <3>2, <3>4
  <2>5. \A u \in B \ {1} : \E t \in A : u = t + d
    <3> SUFFICES ASSUME NEW u \in B \ {1}
                 PROVE  u - d \in A /\ u = (u - d) + d
      BY Zenon
    <3> QED
      BY <1>2, <1>5, <1>7
  <2>6. \A t1, t2 \in A : t1 + d = t2 + d => t1 = t2
    BY <1>2, <1>5
  <2> HIDE DEF A, B
  <2>7. f \in Bijection(A, B \ {1})
    <3>1. f \in [A -> B \ {1}]
      BY <2>4
    <3> QED
      BY <2>5, <2>6, <3>1 DEF Bijection, Injection, Surjection, IsInjective
  <2>8. Cardinality(B \ {1}) = Cardinality(A)
    BY <2>2, <2>7, FS_Bijection DEF ExistsBijection
  <2>9. Cardinality(B \ {1}) = Cardinality(B) - 1
    BY <2>2, <2>3, FS_RemoveElement
  <2>10. Cardinality(B) = Cardinality(A) + 1
    BY <2>2, <2>8, <2>9
  <2> QED
    BY <2>10 DEF A, B
<1>9. ASSUME NEW s \in Starts(w)
      PROVE  Place(cells, s + d) = Place(w, s) + 1
  <2>1. s \in Nat
    BY <1>2, <1>5
  <2> QED
    BY <1>8, <2>1 DEF Place
<1>10. Cardinality(Starts(w)) = Len(ms)
  <2>1. \A k : k \in {t \in Starts(cells) : t <= Len(w) + d} <=> k \in Starts(cells)
    BY <1>2, <1>5
  <2>2. {t \in Starts(cells) : t <= Len(w) + d} = Starts(cells)
    BY <2>1, Zenon
  <2>3. \A k : k \in {t \in Starts(w) : t <= Len(w)} <=> k \in Starts(w)
    BY <1>2, <1>5
  <2>4. {t \in Starts(w) : t <= Len(w)} = Starts(w)
    BY <2>3, Zenon
  <2>5. Cardinality(Starts(cells)) = Cardinality(Starts(w)) + 1
    BY <1>2, <1>8, <2>2, <2>4
  <2> QED
    BY <1>2, <1>3, <1>4, <1>5, <2>5
<1>11. ASSUME NEW s \in Starts(w), NEW i \in 1..Size(ms[Place(w, s)]) + 1
       PROVE  s + i - 1 <= Len(w) /\ w[s + i - 1] = Frame(ms[Place(w, s)])[i]
  <2>1. s + d \in Starts(cells) /\ s \in 1..Len(w)
    BY <1>5, <1>6
  <2>2. ms[Place(w, s)] = messages[Place(cells, s + d)]
    BY <1>2, <1>3, <1>5, <1>9, <1>10
  <2>3. /\ s + d + i - 1 <= Len(cells)
        /\ cells[s + d + i - 1] = Frame(messages[Place(cells, s + d)])[i]
    BY <1>4, <1>11, <2>1, <2>2
  <2>4. messages[Place(cells, s + d)] \in Message
    BY <1>5, <2>1, ElementOfSeq
  <2>5. i \in Nat \ {0}
    <3>1. Size(ms[Place(w, s)]) \in 1..2
      BY <2>2, <2>4, FrameTyped
    <3> QED
      BY <1>11, <3>1
  <2>6. s + i - 1 \in 1..Len(w) /\ (s + i - 1) + d = s + d + i - 1
    <3>1. d \in Nat /\ Len(cells) \in Nat /\ Len(w) = Len(cells) - d
      BY <1>2
    <3>2. s \in 1..Len(w) /\ s + d + i - 1 <= Len(cells)
      BY <2>1, <2>3
    <3> QED
      BY <2>5, <3>1, <3>2
  <2>7. w[s + i - 1] = cells[(s + i - 1) + d]
    BY <1>2, <2>6
  <2>8. w[s + i - 1] = Frame(ms[Place(w, s)])[i]
    BY <2>2, <2>3, <2>6, <2>7, Zenon
  <2> QED
    BY <2>6, <2>8
<1>12. ASSUME NEW k \in 1..Len(w)
       PROVE  \E s \in Starts(w) : k \in s..s + Size(w[s].message)
  <2>1. k + d \in 1..Len(cells)
    BY <1>2
  <2>2. PICK u \in Starts(cells) : k + d \in u..u + Size(cells[u].message)
    BY <1>4, <2>1
  <2>3. u # 1
    <3>1. cells[1] = [part |-> 1 - 1, message |-> messages[1]]
      BY <1>1, <1>2
    <3>2. k + d \notin 1..1 + Size(messages[1])
      BY <1>2
    <3> QED
      BY <2>2, <3>1, <3>2
  <2>4. u - d \in Starts(w) /\ u - d \in 1..Len(w) /\ (u - d) + d = u
    BY <1>2, <1>5, <1>7, <2>3
  <2>5. w[u - d] = cells[u]
    BY <1>2, <2>4
  <2>6. Size(cells[u].message) \in 1..2
    BY <1>5, ElementOfSeq DEF Size
  <2>7. k \in u - d..(u - d) + Size(w[u - d].message)
    <3>1. u \in Int /\ d \in Int /\ k \in Int
      BY <1>2, <1>5
    <3>2. k \in u - d..(u - d) + Size(cells[u].message)
      BY <2>2, <2>6, <3>1
    <3> QED
      BY <2>5, <3>2
  <2> QED
    BY <2>4, <2>7
<1> QED
  BY <1>10, <1>11, <1>12 DEF InFrames, ms

------------------------------------------------------------------------------
(* The steps after the user's. *)

\* The inductive invariant.
ControlInv == TypeOK /\ StuckInv /\ FrameInv

\* Steps that leave the messages on their way and the cells of the stream as they are keep
\* the invariant if they press nothing.
LEMMA QuietKeeps ==
  ASSUME ControlInv, TypeOK',
         UNCHANGED <<cmds, pending, no_control, buttons, mods, held, stays, injector, lost_up>>,
         (buf \o stream)' = buf \o stream,
         sized => sized', touching' => touching, pressed' \subseteq pressed
  PROVE  ControlInv'
<1>0. OnTheWay' = OnTheWay
  BY DEF OnTheWay
<1>1. TouchInv'
  BY <1>0 DEF ControlInv, StuckInv, TouchInv, Paired, Feeling, Lifting
<1>2. KeysInv'
  <2> SUFFICES ASSUME NEW key \in Pressables, Loose(key)
               PROVE  Paired(OnTheWay, key \in pressed', Pressing(key), Releasing(key))
    BY <1>0 DEF KeysInv, Loose, Pressables, Pressing, Releasing
  <2>1. Paired(OnTheWay, key \in pressed, Pressing(key), Releasing(key))
    BY DEF ControlInv, StuckInv, KeysInv
  <2> QED
    BY <2>1 DEF Paired
<1>3. OriginInv'
  BY <1>0 DEF ControlInv, StuckInv, OriginInv, Untouched
<1>4. FrameInv'
  BY DEF ControlInv, FrameInv
<1> QED
  BY <1>1, <1>2, <1>3, <1>4 DEF ControlInv, StuckInv

\* Cells put behind cells put behind cells.
LEMMA CellsAssociate ==
  ASSUME NEW s \in Seq(Cell), NEW t \in Seq(Cell), NEW u \in Seq(Cell)
  PROVE  (s \o t) \o u = s \o (t \o u)
BY ConcatAssociative

\* A read moves cells from the stream to the buffer.
LEMMA ReadMoves ==
  ASSUME TypeOK, ServerReads
  PROVE  CellsTyped' /\ (buf \o stream)' = buf \o stream
<1>1. PICK n \in 1..Len(stream) :
        /\ buf' = buf \o SubSeq(stream, 1, n)
        /\ stream' = SubSeq(stream, n + 1, Len(stream))
  BY DEF ServerReads
<1>2. /\ buf \in Seq(Cell) /\ stream \in Seq(Cell) /\ Len(stream) \in Nat
      /\ n \in Nat /\ n <= Len(stream)
  BY Whole, LenProperties DEF CellsTyped
<1> DEFINE a == SubSeq(stream, 1, n)
           b == SubSeq(stream, n + 1, Len(stream))
<1>3. a \in Seq(Cell) /\ b \in Seq(Cell)
  <2>1. \A i \in 1..n : stream[i] \in Cell
    BY <1>2, ElementOfSeq
  <2>2. \A i \in n + 1..Len(stream) : stream[i] \in Cell
    BY <1>2, ElementOfSeq
  <2>3. a \in Seq(Cell)
    BY <1>2, <2>1, SubSeqProperties
  <2>4. n + 1 \in Int /\ Len(stream) \in Int
    BY <1>2
  <2>5. b \in Seq(Cell)
    BY <2>2, <2>4, SubSeqProperties
  <2> QED
    BY <2>3, <2>5
<1>4. a \o b = stream
  <2>1. a \o b = SubSeq(stream, 1, Len(stream))
    BY <1>2, ConcatAdjacentSubSeq
  <2> QED
    BY <1>2, <2>1, SubSeqFull
<1> HIDE DEF a, b
<1>5. (buf \o a) \o b = buf \o (a \o b)
  BY <1>2, <1>3, CellsAssociate
<1>6. buf' = buf \o a /\ stream' = b
  BY <1>1 DEF a, b
<1>7. buf \o a \in Seq(Cell)
  BY <1>2, <1>3, ConcatProperties
<1> QED
  BY <1>3, <1>4, <1>5, <1>6, <1>7 DEF CellsTyped

\* The first cell of the buffer is the first in flight.
LEMMA BufferFirst ==
  ASSUME TypeOK, FrameInv, buf # <<>>
  PROVE  /\ buf \o stream \in Seq(Cell) /\ buf \o stream # <<>>
         /\ buf[1].part = 0 /\ pending # <<>> /\ buf[1].message = Head(pending)
         /\ Head(pending) = pending[1] /\ pending[1] \in Message
         /\ Size(pending[1]) + 1 <= Len(buf \o stream)
<1>1. buf \in Seq(Cell) /\ stream \in Seq(Cell) /\ pending \in Seq(Message)
  BY Whole DEF CellsTyped
<1>2. Len(buf) \in Nat \ {0} /\ Len(stream) \in Nat
  BY <1>1, EmptySeq, LenProperties
<1>3. /\ buf \o stream \in Seq(Cell) /\ Len(buf \o stream) = Len(buf) + Len(stream)
      /\ (buf \o stream)[1] = buf[1]
  BY <1>1, <1>2, ConcatProperties
<1>4. buf \o stream # <<>>
  BY <1>2, <1>3, EmptySeq
<1>5. /\ pending # <<>> /\ pending[1] \in Message
      /\ Size(pending[1]) + 1 <= Len(buf \o stream)
      /\ \A i \in 1..Size(pending[1]) + 1 :
           (buf \o stream)[i] = [part |-> i - 1, message |-> pending[1]]
  BY <1>1, <1>3, <1>4, FirstFrame DEF FrameInv
<1>6. 1 \in 1..Size(pending[1]) + 1
  BY <1>5, FrameTyped
<1>7. buf[1] = [part |-> 1 - 1, message |-> pending[1]]
  BY <1>3, <1>5, <1>6
<1>8. Head(pending) = pending[1]
  BY <1>1, <1>5
<1> QED
  BY <1>3, <1>4, <1>5, <1>7, <1>8

\* A push ends with the rest of the buffer kept: no error empties it.
LEMMA PushKeeps ==
  ASSUME TypeOK, FrameInv, PushEnds
  PROVE  buf' = buf
BY BufferFirst DEF PushEnds, Malformed

\* What is neither the user's doing nor moves a message keeps the invariant.
LEMMA OtherSteps ==
  ASSUME ControlInv, Sized \/ SessionEnds \/ ServerReads \/ PushEnds \/ ServerEnds
  PROVE  ControlInv'
<1>0. TypeOK /\ FrameInv /\ AppTyped /\ HostTyped /\ CellsTyped /\ DeviceTyped
  BY Whole DEF ControlInv
<1>1. CASE Sized
  <2>1. TypeOK'
    BY <1>0, <1>1, Whole DEF Sized, app, device, AppTyped, HostTyped, CellsTyped, DeviceTyped
  <2> QED
    BY <1>1, <2>1, QuietKeeps DEF Sized, app, device
<1>2. CASE SessionEnds
  <2>1. TypeOK'
    BY <1>0, <1>2, Whole DEF SessionEnds, app, device, AppTyped, HostTyped, CellsTyped, DeviceTyped
  <2> QED
    BY <1>2, <2>1, QuietKeeps DEF SessionEnds, app, device
<1>3. CASE ServerReads
  <2>1. CellsTyped' /\ (buf \o stream)' = buf \o stream
    BY <1>0, <1>3, ReadMoves
  <2>2. TypeOK'
    BY <1>0, <1>3, <2>1, Whole DEF ServerReads, app, host, AppTyped, HostTyped, DeviceTyped
  <2> QED
    BY <1>3, <2>1, <2>2, QuietKeeps DEF ServerReads, app, host
<1>4. CASE PushEnds
  <2>1. buf' = buf /\ stream' = stream
    BY <1>0, <1>4, PushKeeps DEF PushEnds
  <2>2. TypeOK'
    BY <1>0, <1>4, <2>1, Whole DEF PushEnds, app, host, AppTyped, HostTyped, CellsTyped, DeviceTyped
  <2> QED
    BY <1>4, <2>1, <2>2, QuietKeeps DEF PushEnds, app, host
<1>5. CASE ServerEnds
  <2>1. (touching' => touching) /\ pressed' \subseteq pressed
    BY <1>5 DEF ServerEnds
  <2>2. touching' \in BOOLEAN
    BY <1>0, <1>5 DEF ServerEnds, DeviceTyped
  <2>3. TypeOK'
    BY <1>0, <1>5, <2>1, <2>2, Whole
       DEF ServerEnds, app, host, AppTyped, HostTyped, CellsTyped, DeviceTyped
  <2> QED
    BY <1>5, <2>1, <2>3, QuietKeeps DEF ServerEnds, app, host
<1> QED
  BY <1>1, <1>2, <1>3, <1>4, <1>5

\* The bytes of a command, if it has any, follow the others. What it leaves out is a touch or
\* a scroll of a window that does not know the size.
\* The commands without the first, and the messages on their way without it.
LEMMA CommandLeaves ==
  ASSUME TypeOK, cmds # <<>>
  PROVE  /\ Head(cmds) \in Message /\ Head(cmds) = cmds[1] /\ Tail(cmds) \in Seq(Message)
         /\ cmds = <<Head(cmds)>> \o Tail(cmds)
         /\ Without(cmds, 1, Tail(cmds))
         /\ pending \o Tail(cmds) \in Seq(Message)
         /\ Without(OnTheWay, Len(pending) + 1, pending \o Tail(cmds))
         /\ OnTheWay[Len(pending) + 1] = Head(cmds)
<1>0. cmds \in Seq(Message) /\ pending \in Seq(Message)
  BY Whole
<1>1. /\ Head(cmds) \in Message /\ Head(cmds) = cmds[1] /\ Tail(cmds) \in Seq(Message)
      /\ Len(cmds) \in Nat \ {0} /\ Len(Tail(cmds)) = Len(cmds) - 1
      /\ \A i \in 1..Len(Tail(cmds)) : Tail(cmds)[i] = cmds[i + 1]
  BY <1>0, HeadTailProperties, EmptySeq
<1>2. cmds = <<Head(cmds)>> \o Tail(cmds)
  BY <1>0, <1>1, ConcatSimplifications, HeadTailAppend
<1>3. Without(cmds, 1, Tail(cmds))
  BY <1>1 DEF Without
<1>4. PICK w \in Seq(Message) : w = pending \o Tail(cmds)
  BY <1>0, <1>1, ConcatProperties
<1>5. Without(OnTheWay, Len(pending) + 1, w)
  <2>1. /\ Len(pending) \in Nat /\ Len(OnTheWay) = Len(pending) + Len(cmds)
        /\ Len(w) = Len(pending) + (Len(cmds) - 1)
    BY <1>0, <1>1, <1>4, OnTheWayTyped, Places
  <2>2. \A i \in 1..Len(pending) : OnTheWay[i] = pending[i] /\ w[i] = pending[i]
    BY <1>0, <1>1, <1>4, Places DEF OnTheWay
  <2>3. ASSUME NEW i \in Len(pending) + 1..Len(w)
        PROVE  w[i] = OnTheWay[i + 1]
    <3>1. i - Len(pending) \in 1..Len(Tail(cmds)) /\ Len(pending) + (i - Len(pending)) = i
      BY <1>1, <2>1
    <3>2. w[i] = Tail(cmds)[i - Len(pending)]
      BY <1>0, <1>1, <1>4, <3>1, Places
    <3>3. /\ i - Len(pending) + 1 \in 1..Len(cmds)
          /\ Len(pending) + (i - Len(pending) + 1) = i + 1
      BY <1>1, <2>1, <3>1
    <3>4. OnTheWay[i + 1] = cmds[i - Len(pending) + 1]
      BY <1>0, <3>3, Places DEF OnTheWay
    <3> QED
      BY <1>1, <3>1, <3>2, <3>4
  <2> QED
    BY <1>1, <2>1, <2>2, <2>3 DEF Without
<1>6. OnTheWay[Len(pending) + 1] = Head(cmds)
  <2>1. 1 \in 1..Len(cmds) /\ Len(pending) \in Nat
    BY <1>0, <1>1, LenProperties
  <2> QED
    BY <1>0, <1>1, <2>1, Places DEF OnTheWay
<1> QED
  BY <1>1, <1>2, <1>3, <1>4, <1>5, <1>6

\* What is true of the finger and of the keys stays when a command leaves, written or dropped:
\* what is dropped is a touch or a scroll, and of an Up the session remembers it.
LEMMA WriteKeepsStuck ==
  ASSUME TypeOK, StuckInv, Write, OnTheWay' \in {OnTheWay, pending \o Tail(cmds)},
         OnTheWay' = OnTheWay => (Head(cmds) \in Lifting => ~lost_up'),
         OnTheWay' # OnTheWay => /\ Head(cmds).kind \in {"touch", "scroll"}
                                 /\ Head(cmds) \in Lifting => lost_up' \/ ~sized
  PROVE  TouchInv' /\ KeysInv'
<1>0. /\ cmds \in Seq(Message) /\ pending \in Seq(Message) /\ OnTheWay \in Seq(Message)
      /\ cmds # <<>>
  BY Whole, OnTheWayTyped DEF Write
<1>1. /\ cmds' = Tail(cmds)
      /\ UNCHANGED <<no_control, mods, held, stays, touching, pressed>>
      /\ Head(cmds) \notin Lifting => lost_up' = lost_up
  <2>1. /\ cmds' = Tail(cmds)
        /\ UNCHANGED <<no_control, mods, held, stays, touching, pressed>>
        /\ lost_up' = IF Head(cmds).kind = "touch" /\ Head(cmds).action = "up"
                      THEN sized /\ ~Head(cmds).wide ELSE lost_up
    BY DEF Write, app, device
  <2> QED
    BY <1>0, <2>1, CommandLeaves DEF Lifting
<1>2. /\ Head(cmds) \in Message /\ Head(cmds) = cmds[1] /\ Tail(cmds) \in Seq(Message)
      /\ Without(cmds, 1, Tail(cmds))
      /\ pending \o Tail(cmds) \in Seq(Message)
      /\ Without(OnTheWay, Len(pending) + 1, pending \o Tail(cmds))
      /\ OnTheWay[Len(pending) + 1] = Head(cmds)
  BY <1>0, CommandLeaves
<1> DEFINE p == Len(pending) + 1
           w == pending \o Tail(cmds)
<1>3. Without(OnTheWay, p, w) /\ OnTheWay[p] = Head(cmds) /\ w \in Seq(Message)
  BY <1>2
<1>4. TouchInv'
  <2> SUFFICES ASSUME "left" \notin held
               PROVE  /\ Paired(Tail(cmds), FALSE, Feeling, Lifting)
                      /\ lost_up' \/ Paired(OnTheWay', touching, Feeling, Lifting)
    BY <1>1 DEF TouchInv, Feeling, Lifting
  <2>1. /\ Paired(cmds, FALSE, Feeling, Lifting)
        /\ lost_up \/ Paired(OnTheWay, touching, Feeling, Lifting)
    BY DEF StuckInv, TouchInv
  <2>2. Paired(Tail(cmds), FALSE, Feeling, Lifting)
    BY <1>0, <1>2, <2>1, PairedWithout, EffectsDisjoint
  <2>3. CASE OnTheWay' = OnTheWay /\ Head(cmds) \in Lifting
    <3>1. \E i \in 1..Len(cmds) : cmds[i] \in Lifting
      BY <1>2, <2>3 DEF Without
    <3>2. Paired(pending \o cmds, touching, Feeling, Lifting)
      BY <1>0, <2>1, <3>1, PairedRelease
    <3> QED
      BY <2>2, <2>3, <3>2 DEF OnTheWay
  <2>4. CASE Head(cmds) \notin Lifting
    <3>1. lost_up' = lost_up
      BY <1>1, <2>4
    <3>2. ASSUME Paired(OnTheWay, touching, Feeling, Lifting)
          PROVE  Paired(w, touching, Feeling, Lifting)
      <4> HIDE DEF p, w
      <4> QED
        BY <1>0, <1>3, <2>4, <3>2, PairedWithout, EffectsDisjoint
    <3> QED
      BY <2>1, <2>2, <3>1, <3>2
  <2>5. CASE OnTheWay' # OnTheWay /\ Head(cmds) \in Lifting /\ ~lost_up'
    <3>1. ~sized
      BY <2>5
    <3>2. Paired(pending, touching, Feeling, Lifting)
      BY <3>1 DEF StuckInv, OriginInv, Untouched, Paired, Feeling
    <3>3. Paired(w, touching, Feeling, Lifting)
      BY <1>0, <1>2, <2>2, <3>2, PairedConcat
    <3> QED
      BY <2>2, <2>5, <3>3
  <2> QED
    BY <2>2, <2>3, <2>4, <2>5
<1>5. KeysInv'
  <2> SUFFICES ASSUME NEW key \in Pressables, Loose(key)
               PROVE  Paired(OnTheWay', key \in pressed, Pressing(key), Releasing(key))
    BY <1>1 DEF KeysInv, Loose, Pressables, Pressing, Releasing
  <2>1. Paired(OnTheWay, key \in pressed, Pressing(key), Releasing(key))
    BY DEF StuckInv, KeysInv
  <2>2. CASE OnTheWay' # OnTheWay
    <3>1. Head(cmds) \notin Releasing(key)
      BY <2>2 DEF Releasing, Concerning
    <3>2. Paired(w, key \in pressed, Pressing(key), Releasing(key))
      <4> HIDE DEF p, w
      <4> QED
        BY <1>0, <1>3, <2>1, <3>1, PairedWithout, EffectsDisjoint
    <3> QED
      BY <2>2, <3>2
  <2> QED
    BY <2>1, <2>2
<1> QED
  BY <1>4, <1>5

\* The bytes of a command, if it has any, follow the others.
LEMMA WriteKeeps ==
  ASSUME ControlInv, Write
  PROVE  ControlInv'
<1> DEFINE message == Head(cmds)
<1>0. /\ TypeOK /\ AppTyped /\ HostTyped /\ CellsTyped /\ DeviceTyped
      /\ cmds \in Seq(Message) /\ pending \in Seq(Message) /\ cmds # <<>>
      /\ StuckInv /\ FrameInv /\ OriginInv
  BY Whole DEF ControlInv, StuckInv, Write
<1>1. /\ cmds' = Tail(cmds) /\ stream' = stream \o EncodeCmd(message)
      /\ pending' = IF EncodeCmd(message) = <<>> THEN pending ELSE Append(pending, message)
      /\ lost_up' = IF message.kind = "touch" /\ message.action = "up"
                    THEN sized /\ ~message.wide ELSE lost_up
      /\ UNCHANGED <<no_control, visible, cursor, buttons, mods, held, acts, stays, session,
                     sized, buf, injector, server, touching, pressed>>
  BY DEF Write, app, device
<1>2. /\ message \in Message /\ message = cmds[1] /\ Tail(cmds) \in Seq(Message)
      /\ cmds = <<message>> \o Tail(cmds)
      /\ Without(OnTheWay, Len(pending) + 1, pending \o Tail(cmds))
  BY <1>0, CommandLeaves
<1> HIDE DEF message
<1>3. message.wide \in BOOLEAN
  BY <1>2, MessageParts
<1>4. AppTyped' /\ HostTyped' /\ DeviceTyped'
  <2>1. lost_up' \in BOOLEAN
    BY <1>0, <1>1, <1>3 DEF HostTyped
  <2> QED
    BY <1>0, <1>1, <2>1 DEF AppTyped, HostTyped, DeviceTyped
<1>5. CASE EncodeCmd(message) = <<>>
  <2>1. message.kind \in {"touch", "scroll"} /\ ~(sized /\ message.wide)
    BY <1>2, <1>5, FrameTyped DEF EncodeCmd, Mapped
  <2>2. pending' = pending /\ buf' = buf /\ stream' = stream
    BY <1>0, <1>1, <1>5, ConcatEmptySeq DEF CellsTyped
  <2>3. TypeOK'
    BY <1>0, <1>1, <1>2, <1>4, <2>2, Whole DEF CellsTyped
  <2>4. OnTheWay' = pending \o Tail(cmds)
    BY <1>1, <2>2 DEF OnTheWay
  <2>5. OnTheWay' # OnTheWay
    <3>1. OnTheWay \in Seq(Message)
      BY <1>0, OnTheWayTyped
    <3> QED
      BY <1>2, <2>4, <3>1, LenProperties DEF Without
  <2>6. TouchInv' /\ KeysInv'
    <3>1. message \in Lifting => lost_up' \/ ~sized
      BY <1>0, <1>1, <1>3, <2>1 DEF Lifting, HostTyped
    <3> QED
      BY <1>0, <2>1, <2>4, <2>5, <3>1, WriteKeepsStuck DEF message
  <2>7. OriginInv'
    <3>1. ASSUME no_control
          PROVE  Untouched(OnTheWay)'
      <4>1. ~touching /\ \A i \in 1..Len(OnTheWay) : OnTheWay[i].kind # "touch"
        BY <1>0, <3>1 DEF OriginInv, Untouched
      <4>2. PICK w \in Seq(Message) : w = pending \o Tail(cmds)
        BY <1>0, <1>2, CommandLeaves
      <4>3. OnTheWay \in Seq(Message) /\ Without(OnTheWay, Len(pending) + 1, w)
        BY <1>0, <1>2, <4>2, OnTheWayTyped
      <4>4. \A i \in 1..Len(w) : w[i].kind # "touch"
        <5>1. /\ Len(OnTheWay) \in Nat /\ Len(w) = Len(OnTheWay) - 1 /\ Len(pending) \in Nat
          BY <1>0, <4>3, LenProperties DEF Without
        <5>2. \A i \in 1..Len(w) :
                \/ i \in 1..Len(pending) + 1 - 1 /\ i \in 1..Len(OnTheWay)
                \/ i \in Len(pending) + 1..Len(w) /\ i + 1 \in 1..Len(OnTheWay)
          BY <5>1
        <5> QED
          BY <4>1, <4>3, <5>2 DEF Without
      <4> QED
        BY <1>1, <2>4, <4>1, <4>2, <4>4 DEF Untouched
    <3>2. ~sized => Untouched(pending)'
      BY <1>0, <1>1, <2>2 DEF OriginInv, Untouched
    <3> QED
      BY <1>0, <1>1, <3>1, <3>2 DEF OriginInv
  <2>8. FrameInv'
    BY <1>0, <2>2 DEF FrameInv
  <2> QED
    BY <2>3, <2>6, <2>7, <2>8 DEF ControlInv, StuckInv
<1>6. CASE EncodeCmd(message) # <<>>
  <2>1. EncodeCmd(message) = Frame(message) /\ (message.kind = "touch" => sized /\ message.wide)
    BY <1>6 DEF EncodeCmd, Mapped
  <2>2. /\ pending' = Append(pending, message) /\ buf' = buf
        /\ stream' = stream \o Frame(message)
        /\ Frame(message) \in Seq(Cell)
    BY <1>1, <1>2, <1>6, <2>1, FrameTyped
  <2>3. CellsTyped' /\ (buf \o stream)' = (buf \o stream) \o Frame(message)
    <3>1. buf \in Seq(Cell) /\ stream \in Seq(Cell)
      BY <1>0 DEF CellsTyped
    <3>2. stream \o Frame(message) \in Seq(Cell)
      BY <2>2, <3>1, ConcatProperties
    <3>3. buf \o (stream \o Frame(message)) = (buf \o stream) \o Frame(message)
      BY <2>2, <3>1, CellsAssociate
    <3> QED
      BY <2>2, <3>1, <3>2, <3>3 DEF CellsTyped
  <2>4. /\ pending' \in Seq(Message) /\ Len(pending') = Len(pending) + 1
        /\ Len(pending) \in Nat
        /\ \A i \in 1..Len(pending) : pending'[i] = pending[i]
        /\ pending'[Len(pending) + 1] = message
    BY <1>0, <1>2, <2>2, AppendProperties, LenProperties
  <2>5. TypeOK'
    BY <1>1, <1>2, <1>4, <2>3, <2>4, Whole
  <2>6. OnTheWay' = OnTheWay
    <3>1. pending' = pending \o <<message>>
      BY <1>0, <1>2, <2>2, AppendIsConcat
    <3>2. <<message>> \in Seq(Message)
      BY <1>2
    <3>3. (pending \o <<message>>) \o Tail(cmds) = pending \o (<<message>> \o Tail(cmds))
      BY <1>0, <1>2, <3>2, ConcatAssociative
    <3> QED
      BY <1>1, <1>2, <3>1, <3>3 DEF OnTheWay
  <2>7. TouchInv' /\ KeysInv'
    <3>1. message \in Lifting => ~lost_up'
      BY <1>1, <2>1 DEF Lifting
    <3> QED
      BY <1>0, <2>6, <3>1, WriteKeepsStuck DEF message
  <2>8. OriginInv'
    <3>1. ASSUME ~sized
          PROVE  Untouched(pending)'
      <4>1. ~touching /\ \A i \in 1..Len(pending) : pending[i].kind # "touch"
        BY <1>0, <3>1 DEF OriginInv, Untouched
      <4>2. message.kind # "touch"
        BY <2>1, <3>1
      <4>3. \A i \in 1..Len(pending') : i \in 1..Len(pending) \/ i = Len(pending) + 1
        BY <2>4
      <4> QED
        BY <1>1, <2>4, <4>1, <4>2, <4>3 DEF Untouched
    <3>2. no_control => Untouched(OnTheWay)'
      BY <1>0, <1>1, <2>6 DEF OriginInv, Untouched
    <3> QED
      BY <1>0, <1>1, <3>1, <3>2 DEF OriginInv
  <2>9. FrameInv'
    <3>1. buf \o stream \in Seq(Cell)
      BY <1>0, ConcatProperties DEF CellsTyped
    <3>2. InFrames((buf \o stream) \o Frame(message), Append(pending, message))
      BY <1>0, <1>2, <3>1, FramesAppend DEF FrameInv
    <3> QED
      BY <2>2, <2>3, <3>2 DEF FrameInv
  <2> QED
    BY <2>5, <2>7, <2>8, <2>9 DEF ControlInv, StuckInv
<1> QED
  BY <1>5, <1>6

\* What a message does to the device: the finger is there if it was or the message is felt; a
\* key is down if it was and the message does not release it, or if the message presses it.
LEMMA ApplyTyped ==
  ASSUME DeviceTyped, NEW message \in Message, NEW d,
         d = Apply([touching |-> touching, pressed |-> pressed], message),
         injector = "shell" => pressed = {},
         injector # "uinput" => pressed \cap Mods = {}
  PROVE  /\ d.touching \in BOOLEAN /\ d.pressed \subseteq Keys \cup Mods \cup {"back", "apps"}
         /\ d.touching => (touching /\ message \notin Lifting) \/ message \in Feeling
         /\ message.kind # "touch" => d.touching = touching
         /\ \A key : key \in d.pressed =>
              (key \in pressed /\ message \notin Releasing(key)) \/ message \in Pressing(key)
         /\ injector = "shell" => d.pressed = {}
         /\ injector # "uinput" => d.pressed \cap Mods = {}
<1> DEFINE e == [touching |-> touching, pressed |-> pressed]
<1>0. /\ touching \in BOOLEAN /\ pressed \subseteq Keys \cup Mods \cup {"back", "apps"}
      /\ injector \in {"sdk", "uinput", "shell"}
      /\ e.touching = touching /\ e.pressed = pressed
  BY DEF DeviceTyped
<1>1. /\ message.kind \in {"touch", "key", "nav", "text", "scroll"}
      /\ message.kind = "touch" => message.action \in {"down", "up", "move"}
      /\ message.kind \in {"key", "nav"} =>
           /\ message.action \in {"down", "up"}
           /\ message.key \in Keys \cup {"back", "apps"} /\ message.meta \subseteq Mods
  BY MessageParts
<1>2. message.key \in Keys \cup {"back", "apps"} => message.key \notin Mods
  BY KeysAssumption DEF Mods
<1>3. CASE message.kind = "touch"
  <2>1. d.touching = TouchDown(e, message) /\ d.pressed = pressed
    BY <1>3 DEF Apply
  <2>2. d.touching \in BOOLEAN /\ (d.touching => message \in Feeling)
    <3>1. TouchDown(e, message) \in BOOLEAN
      <4>1. CASE injector = "uinput"
        BY <4>1 DEF TouchDown
      <4>2. CASE injector # "uinput"
        <5>1. TouchDown(e, message) = PassedOn(e, message)
          BY <4>2 DEF TouchDown
        <5>2. PassedOn(e, message) \in BOOLEAN
          BY <1>0 DEF PassedOn
        <5> QED
          BY <5>1, <5>2
      <4> QED
        BY <4>1, <4>2
    <3>2. TouchDown(e, message) => message.action # "up"
      BY DEF TouchDown, PassedOn
    <3> QED
      BY <1>3, <2>1, <3>1, <3>2 DEF Feeling
  <2>3. \A key : message \notin Releasing(key)
    BY <1>3 DEF Releasing, Concerning
  <2> QED
    BY <1>0, <1>3, <2>1, <2>2, <2>3
<1>4. CASE message.kind \in {"text", "scroll"}
  <2>1. d.touching = touching /\ d.pressed \in {pressed, TextTyped(e, message)}
    BY <1>4 DEF Apply
  <2>2. d.pressed \subseteq pressed
    BY <1>0, <2>1 DEF TextTyped
  <2>3. message \notin Lifting /\ \A key : message \notin Releasing(key)
    BY <1>4 DEF Lifting, Releasing, Concerning
  <2> QED
    BY <1>0, <1>4, <2>1, <2>2, <2>3
<1>5. CASE message.kind \in {"key", "nav"}
  <2>1. d.touching = touching /\ d.pressed = KeysDown(e, message) /\ message \notin Lifting
    BY <1>5 DEF Apply, Lifting
  <2> DEFINE keys == {message.key} \cup (IF injector = "uinput" THEN message.meta ELSE {})
  <2>2. d.pressed = IF injector = "shell" THEN pressed
                    ELSE IF message.action = "down" THEN pressed \cup keys
                    ELSE pressed \ keys
    BY <1>0, <2>1 DEF KeysDown
  <2>3. /\ keys \subseteq Keys \cup Mods \cup {"back", "apps"}
        /\ injector # "uinput" => keys \cap Mods = {}
        /\ \A key : key \in keys => message.key = key \/ key \in message.meta
        /\ \A key : message.key = key \/ key \in message.meta =>
             key \in keys \/ (injector # "uinput" /\ key \in Mods)
    BY <1>1, <1>2, <1>5
  <2> HIDE DEF keys
  <2>4. /\ d.pressed \subseteq Keys \cup Mods \cup {"back", "apps"}
        /\ injector = "shell" => d.pressed = {}
        /\ injector # "uinput" => d.pressed \cap Mods = {}
    BY <1>0, <2>2, <2>3
  <2>5. ASSUME NEW key, key \in d.pressed
        PROVE  (key \in pressed /\ message \notin Releasing(key)) \/ message \in Pressing(key)
    <3>1. CASE message.action = "down"
      <4>1. message \notin Releasing(key)
        BY <3>1 DEF Releasing, Concerning
      <4>2. key \in pressed \/ key \in keys
        BY <2>2, <2>5, <3>1
      <4>3. key \in keys => message \in Pressing(key)
        BY <1>5, <2>3, <3>1 DEF Pressing, Concerning
      <4> QED
        BY <4>1, <4>2, <4>3
    <3>2. CASE message.action # "down"
      <4>1. key \in pressed /\ injector # "shell" /\ key \notin keys
        BY <2>2, <2>4, <2>5, <3>2
      <4>2. ~(injector # "uinput" /\ key \in Mods)
        BY <4>1
      <4>3. message \notin Releasing(key)
        BY <2>3, <4>1, <4>2 DEF Releasing, Concerning
      <4> QED
        BY <4>1, <4>3
    <3> QED
      BY <3>1, <3>2
  <2> QED
    BY <1>0, <1>5, <2>1, <2>4, <2>5
<1> QED
  BY <1>1, <1>3, <1>4, <1>5

\* A frame taken from the buffer is that of the oldest message.
LEMMA DispatchOldest ==
  ASSUME TypeOK, FrameInv, DispatchFrame
  PROVE  /\ pending # <<>>
         /\ [touching |-> touching', pressed |-> pressed']
              = Apply([touching |-> touching, pressed |-> pressed], Head(pending))
<1>1. buf # <<>>
  BY DEF DispatchFrame, Complete
<1>2. pending # <<>> /\ buf[1].message = Head(pending)
  BY <1>1, BufferFirst
<1> DEFINE d == Apply([touching |-> touching, pressed |-> pressed], Head(pending))
<1>3. touching' = d.touching /\ pressed' = d.pressed
  BY <1>2 DEF DispatchFrame
<1>4. d = [touching |-> d.touching, pressed |-> d.pressed]
  BY DEF Apply
<1> QED
  BY <1>2, <1>3, <1>4

\* The oldest message leaves, with its frame and its effect.
LEMMA DispatchKeeps ==
  ASSUME ControlInv, DispatchFrame
  PROVE  ControlInv'
<1>0. /\ TypeOK /\ AppTyped /\ HostTyped /\ CellsTyped /\ DeviceTyped
      /\ cmds \in Seq(Message) /\ pending \in Seq(Message)
      /\ StuckInv /\ FrameInv
      /\ TouchInv /\ KeysInv /\ OriginInv
  BY Whole DEF ControlInv, StuckInv
<1>1. /\ UNCHANGED <<no_control, visible, cursor, buttons, mods, held, acts, stays, session,
                     sized, lost_up, cmds, stream, injector, server>>
      /\ pending' = SubSeq(pending, 2, Len(pending))
      /\ server = "push" /\ Complete
      /\ buf' = SubSeq(buf, Size(buf[1].message) + 2, Len(buf))
  BY DEF DispatchFrame, app, host
<1>2. buf # <<>>
  BY <1>1 DEF Complete
<1> DEFINE message == pending[1]
<1>3. /\ buf \o stream \in Seq(Cell) /\ buf \o stream # <<>>
      /\ pending # <<>> /\ message \in Message /\ Head(pending) = message
      /\ buf[1].message = message
  BY <1>0, <1>2, BufferFirst
<1>4. PICK d : d = Apply([touching |-> touching, pressed |-> pressed], message)
  OBVIOUS
<1>5. touching' = d.touching /\ pressed' = d.pressed
  BY <1>3, <1>4 DEF DispatchFrame
<1>6. /\ pending' \in Seq(Message) /\ Len(pending') = Len(pending) - 1
      /\ \A i \in 1..Len(pending') : pending'[i] = pending[i + 1]
      /\ Len(pending) \in Nat \ {0} /\ Len(pending') \in Nat
  <2>1. Len(pending) \in Nat \ {0}
    BY <1>0, <1>3, EmptySeq
  <2>2. /\ pending' \in Seq(Message) /\ Len(pending') = Len(pending) - 1
        /\ \A i \in 1..Len(pending) - 1 : pending'[i] = pending[i + 1]
    BY <1>0, <1>1, <1>3, RestTyped
  <2> QED
    BY <2>1, <2>2
<1>7. /\ d.touching \in BOOLEAN /\ d.pressed \subseteq Keys \cup Mods \cup {"back", "apps"}
      /\ d.touching => (touching /\ message \notin Lifting) \/ message \in Feeling
      /\ message.kind # "touch" => d.touching = touching
      /\ \A key : key \in d.pressed =>
           (key \in pressed /\ message \notin Releasing(key)) \/ message \in Pressing(key)
      /\ injector = "shell" => d.pressed = {}
      /\ injector # "uinput" => d.pressed \cap Mods = {}
  BY <1>0, <1>3, <1>4, ApplyTyped DEF OriginInv
<1> DEFINE n == Size(message) + 1
<1>8. /\ buf \in Seq(Cell) /\ stream \in Seq(Cell) /\ Size(message) \in 1..2
      /\ Len(buf) \in Nat /\ Len(stream) \in Nat /\ n <= Len(buf)
  BY <1>0, <1>1, <1>3, FrameTyped, LenProperties DEF CellsTyped, Complete
<1> HIDE DEF message
<1>9. /\ buf' \in Seq(Cell) /\ Len(buf') = Len(buf) - n
      /\ \A k \in 1..Len(buf) - n : buf'[k] = buf[k + n]
  <2>1. buf' = SubSeq(buf, n + 1, Len(buf))
    <3>1. Size(message) + 2 = n + 1
      BY <1>8
    <3> QED
      BY <1>1, <1>3, <3>1
  <2>2. n \in 2..3 /\ n + 1 \in Int /\ Len(buf) \in Int
    BY <1>8
  <2> HIDE DEF n
  <2>3. \A i \in n + 1..Len(buf) : buf[i] \in Cell
    BY <1>8, <2>2, ElementOfSeq
  <2>4. /\ buf' \in Seq(Cell)
        /\ Len(buf') = IF n + 1 <= Len(buf) THEN Len(buf) - (n + 1) + 1 ELSE 0
        /\ \A i \in 1..Len(buf) - (n + 1) + 1 : buf'[i] = buf[n + 1 + i - 1]
    BY <2>1, <2>2, <2>3, SubSeqProperties
  <2>5. Len(buf') = Len(buf) - n
    BY <1>8, <2>2, <2>4
  <2>6. ASSUME NEW k \in 1..Len(buf) - n
        PROVE  buf'[k] = buf[k + n]
    <3>1. k \in 1..Len(buf) - (n + 1) + 1 /\ n + 1 + k - 1 = k + n
      BY <1>8, <2>2
    <3> QED
      BY <2>4, <3>1
  <2> QED
    BY <2>4, <2>5, <2>6
<1>10. TypeOK'
  <2>1. AppTyped' /\ HostTyped' /\ CellsTyped' /\ DeviceTyped'
    BY <1>0, <1>1, <1>5, <1>7, <1>9 DEF AppTyped, HostTyped, CellsTyped, DeviceTyped
  <2> QED
    BY <1>0, <1>1, <1>6, <2>1, Whole
<1>11. FrameInv'
  <2>1. PICK w \in Seq(Cell) : w = buf' \o stream
    BY <1>8, <1>9, ConcatProperties
  <2>2. Len(buf \o stream) = Len(buf) + Len(stream) /\ Len(w) = Len(buf) - n + Len(stream)
    BY <1>8, <1>9, <2>1, ConcatProperties
  <2>3. ASSUME NEW k \in 1..Len(w)
        PROVE  w[k] = (buf \o stream)[k + n]
    <3>1. CASE k <= Len(buf) - n
      <4>1. w[k] = buf'[k] /\ buf'[k] = buf[k + n]
        <5>1. k \in 1..Len(buf') /\ k \in 1..Len(buf) - n
          BY <1>8, <1>9, <2>2, <3>1
        <5>2. PICK r \in Seq(Cell) : r = buf'
          BY <1>9
        <5>3. (r \o stream)[k] = r[k]
          BY <1>8, <5>1, <5>2, ConcatProperties, LenProperties
        <5> QED
          BY <1>9, <2>1, <5>1, <5>2, <5>3
      <4>2. (buf \o stream)[k + n] = buf[k + n]
        <5>1. k + n \in 1..Len(buf)
          BY <1>8, <2>2, <3>1
        <5> QED
          BY <1>8, <5>1, ConcatProperties
      <4> QED
        BY <4>1, <4>2
    <3>2. CASE k > Len(buf) - n
      <4>1. w[k] = stream[k - (Len(buf) - n)]
        BY <1>8, <1>9, <2>1, <2>2, <3>2, ConcatProperties
      <4>2. (buf \o stream)[k + n] = stream[k + n - Len(buf)]
        <5>1. k + n \in 1..Len(buf) + Len(stream) /\ ~(k + n <= Len(buf))
          BY <1>8, <2>2, <3>2
        <5> QED
          BY <1>8, <5>1, ConcatProperties
      <4>3. k + n - Len(buf) = k - (Len(buf) - n)
        BY <1>8, <2>2
      <4> QED
        BY <4>1, <4>2, <4>3
    <3> QED
      BY <1>8, <2>2, <3>1, <3>2
  <2>4. Len(w) = Len(buf \o stream) - n
    BY <1>8, <2>2
  <2>5. InFrames(w, SubSeq(pending, 2, Len(pending)))
    BY <1>0, <1>3, <2>3, <2>4, FramesDrop DEF FrameInv, message
  <2>6. (buf \o stream)' = w
    BY <1>1, <2>1
  <2> QED
    BY <1>1, <2>5, <2>6 DEF FrameInv
<1>12. PICK w \in Seq(Message) : w = pending' \o cmds
  BY <1>0, <1>6, ConcatProperties
<1>13. Without(OnTheWay, 1, w) /\ OnTheWay[1] = message
  <2>1. Len(cmds) \in Nat
    BY <1>0, LenProperties
  <2>2. /\ Len(OnTheWay) = Len(pending) + Len(cmds) /\ Len(w) = Len(pending') + Len(cmds)
        /\ OnTheWay[1] = message
    <3>1. 1 \in 1..Len(pending)
      BY <1>6
    <3> QED
      <4>1. OnTheWay[1] = message
        BY <1>0, <3>1, Places DEF OnTheWay, message
      <4>2. Len(OnTheWay) = Len(pending) + Len(cmds)
        BY <1>0, OnTheWayTyped
      <4>3. Len(w) = Len(pending') + Len(cmds)
        BY <1>0, <1>6, <1>12, Places
      <4> QED
        BY <4>1, <4>2, <4>3
  <2>3. ASSUME NEW i \in 1..Len(w)
        PROVE  w[i] = OnTheWay[i + 1]
    <3>1. CASE i \in 1..Len(pending')
      <4>1. i + 1 \in 1..Len(pending)
        BY <1>6, <3>1
      <4>2. w[i] = pending'[i]
        BY <1>0, <1>6, <1>12, <3>1, Places
      <4>3. OnTheWay[i + 1] = pending[i + 1]
        BY <1>0, <4>1, Places DEF OnTheWay
      <4> QED
        BY <1>6, <3>1, <4>2, <4>3
    <3>2. CASE i \notin 1..Len(pending')
      <4>1. PICK j \in 1..Len(cmds) : i = Len(pending') + j
        <5>1. i - Len(pending') \in 1..Len(cmds) /\ i = Len(pending') + (i - Len(pending'))
          BY <1>6, <2>1, <2>2, <3>2
        <5> QED
          BY <5>1
      <4>2. i + 1 = Len(pending) + j
        BY <1>6, <2>1, <4>1
      <4>3. w[Len(pending') + j] = cmds[j]
        <5>1. PICK r \in Seq(Message) : r = pending'
          BY <1>6
        <5>2. (r \o cmds)[Len(r) + j] = cmds[j]
          BY <1>0, Places
        <5> QED
          BY <1>12, <5>1, <5>2
      <4>4. OnTheWay[Len(pending) + j] = cmds[j]
        BY <1>0, Places DEF OnTheWay
      <4> QED
        BY <4>1, <4>2, <4>3, <4>4
    <3> QED
      BY <3>1, <3>2
  <2> QED
    BY <1>6, <2>1, <2>2, <2>3 DEF Without
<1>14. OnTheWay \in Seq(Message) /\ OnTheWay' = w
  BY <1>0, <1>1, <1>12, OnTheWayTyped DEF OnTheWay
<1>15. TouchInv'
  <2> SUFFICES ASSUME "left" \notin held, ~lost_up
               PROVE  Paired(w, touching', Feeling, Lifting)
    BY <1>0, <1>1, <1>14 DEF TouchInv, Paired, Feeling, Lifting
  <2>1. Paired(OnTheWay, touching, Feeling, Lifting)
    BY <1>0 DEF TouchInv
  <2>2. touching' => (touching /\ OnTheWay[1] \notin Lifting) \/ OnTheWay[1] \in Feeling
    BY <1>5, <1>7, <1>13
  <2> QED
    BY <1>12, <1>13, <1>14, <2>1, <2>2, PairedWithout, EffectsDisjoint
<1>16. KeysInv'
  <2> SUFFICES ASSUME NEW key \in Pressables, Loose(key)
               PROVE  Paired(w, key \in pressed', Pressing(key), Releasing(key))
    BY <1>1, <1>14 DEF KeysInv, Loose, Pressables, Pressing, Releasing
  <2>1. Paired(OnTheWay, key \in pressed, Pressing(key), Releasing(key))
    BY <1>0 DEF KeysInv
  <2>2. key \in pressed' => \/ key \in pressed /\ OnTheWay[1] \notin Releasing(key)
                           \/ OnTheWay[1] \in Pressing(key)
    BY <1>5, <1>7, <1>13
  <2> QED
    BY <1>12, <1>13, <1>14, <2>1, <2>2, PairedWithout, EffectsDisjoint
<1>17. OriginInv'
  <2>1. ASSUME ~touching, message.kind # "touch"
        PROVE  ~touching'
    BY <1>5, <1>7, <2>1
  <2>2. ASSUME Untouched(pending)
        PROVE  Untouched(pending)'
    <3>1. 1 \in 1..Len(pending) /\ \A i \in 1..Len(pending') : i + 1 \in 1..Len(pending)
      BY <1>6
    <3> QED
      BY <1>6, <2>1, <2>2, <3>1 DEF Untouched, message
  <2>3. ASSUME Untouched(OnTheWay)
        PROVE  Untouched(OnTheWay)'
    <3>1. 1 \in 1..Len(OnTheWay) /\ \A i \in 1..Len(w) : i + 1 \in 1..Len(OnTheWay)
      BY <1>12, <1>13, <1>14, LenProperties DEF Without
    <3>2. \A i \in 1..Len(w) : w[i] = OnTheWay[i + 1]
      BY <1>13 DEF Without
    <3> QED
      BY <1>13, <1>14, <2>1, <2>3, <3>1, <3>2 DEF Untouched
  <2> QED
    BY <1>0, <1>1, <1>5, <1>7, <2>2, <2>3 DEF OriginInv
<1> QED
  BY <1>10, <1>11, <1>15, <1>16, <1>17 DEF ControlInv, StuckInv

------------------------------------------------------------------------------
(* The theorems. *)

\* At the start nothing is on its way and nothing is down.
LEMMA InitInv == Init => ControlInv
<1> SUFFICES ASSUME Init
             PROVE  ControlInv
  OBVIOUS
<1>e. /\ <<>> \in Seq(Message) /\ <<>> \in Seq(Cell) /\ Len(<<>>) = 0
      /\ <<>> \o <<>> = <<>>
  BY EmptySeq, ConcatEmptySeq
<1>1. TypeOK
  <2>1. AppTyped
    <3>1. /\ no_control \in BOOLEAN /\ visible = TRUE /\ cursor = "view" /\ buttons = FALSE
          /\ mods = {} /\ held = {} /\ acts = 0 /\ stays = {}
      BY DEF Init
    <3>2. 0 \in 0..MaxActs
      BY BoundsAssumption
    <3>3. /\ mods \subseteq Mods /\ held \subseteq Keys \cup {"left"}
          /\ stays \subseteq Mods \cup {"apps"}
      BY <3>1
    <3> QED
      BY <3>1, <3>2, <3>3 DEF AppTyped
  <2>2. HostTyped /\ DeviceTyped
    BY DEF Init, HostTyped, DeviceTyped
  <2>3. CellsTyped /\ cmds \in Seq(Message) /\ pending \in Seq(Message)
    BY <1>e DEF Init, CellsTyped
  <2> QED
    BY <2>1, <2>2, <2>3, Whole
<1>2. OnTheWay = <<>> /\ buf \o stream = <<>>
  BY <1>e DEF Init, OnTheWay
<1>3. StuckInv
  <2>1. \A key : key \notin pressed
    BY DEF Init
  <2>2. TouchInv /\ KeysInv
    <3>1. cmds = <<>> /\ touching = FALSE /\ \A key : (key \in pressed) = FALSE
      BY DEF Init
    <3>2. TouchInv
      BY <1>2, <3>1, PairedShort DEF TouchInv
    <3>3. KeysInv
      BY <1>2, <1>e, <2>1 DEF KeysInv, Paired
    <3> QED
      BY <3>2, <3>3
  <2>3. OriginInv
    BY <1>2, <1>e DEF Init, OriginInv, Untouched
  <2> QED
    BY <2>2, <2>3 DEF StuckInv
<1>4. FrameInv
  <2>1. \A k : k \notin Starts(<<>>)
    BY <1>e DEF Starts
  <2>2. Starts(<<>>) = {}
    BY <2>1, Zenon
  <2>3. Cardinality(Starts(<<>>)) = 0
    BY <2>2, FS_EmptySet
  <2>4. InFrames(<<>>, <<>>)
    BY <1>e, <2>1, <2>3 DEF InFrames
  <2> QED
    BY <1>2, <2>4 DEF Init, FrameInv
<1> QED
  BY <1>1, <1>3, <1>4 DEF ControlInv

\* Each step keeps the invariant.
LEMMA NextInv == ControlInv /\ [Next]_vars => ControlInv'
<1> SUFFICES ASSUME ControlInv, [Next]_vars
             PROVE  ControlInv'
  OBVIOUS
<1>1. CASE User
  <2>1. TypeOK' /\ StuckInv'
    BY <1>1, UserKeepsStuck DEF ControlInv
  <2>2. FrameInv'
    BY <1>1 DEF ControlInv, FrameInv, User
  <2> QED
    BY <2>1, <2>2 DEF ControlInv
<1>2. CASE Write
  BY <1>2, WriteKeeps
<1>3. CASE DispatchFrame
  BY <1>3, DispatchKeeps
<1>4. CASE Sized \/ SessionEnds \/ ServerReads \/ PushEnds \/ ServerEnds
  BY <1>4, OtherSteps
<1>5. CASE UNCHANGED vars
  <2>1. /\ UNCHANGED <<no_control, visible, cursor, buttons, mods, held, acts, stays, cmds,
                       session, sized, lost_up, stream, buf, injector, server, touching,
                       pressed, pending>>
    BY <1>5 DEF vars, app, host, device
  <2>2. TypeOK'
    BY <2>1 DEF ControlInv, TypeOK
  <2> QED
    BY <2>1, <2>2, QuietKeeps
<1> QED
  BY <1>1, <1>2, <1>3, <1>4, <1>5 DEF Next

\* The invariant holds throughout.
THEOREM ControlHolds == Spec => []ControlInv
BY InitInv, NextInv, PTL DEF Spec

\* Every variable keeps its type, for all keys, sizes of the socket and doings of the user.
THEOREM TypeCorrect == Spec => []TypeOK
<1>1. ControlInv => TypeOK
  BY DEF ControlInv
<1> QED
  BY <1>1, ControlHolds, PTL

\* Once the user's doings have arrived, the device sees a finger only if the user holds the
\* button or the last Up was dropped; and a key only if the user holds it, holds it on as a
\* modifier of a key that is held, or nothing was sent to release it.
THEOREM NothingStaysDown == Spec => []NothingStuck
<1>1. ASSUME ControlInv, Settled
      PROVE  /\ touching => "left" \in held \/ lost_up
             /\ pressed \subseteq stays \cup (held \cap Keys)
                                    \cup (IF held \cap Keys = {} THEN {} ELSE mods)
  <2>1. Len(OnTheWay) = 0
    <3>1. OnTheWay = <<>>
      BY <1>1, EmptySeq, ConcatEmptySeq DEF Settled, OnTheWay
    <3> QED
      BY <3>1, EmptySeq
  <2>2. touching => "left" \in held \/ lost_up
    BY <1>1, <2>1 DEF ControlInv, StuckInv, TouchInv, Paired
  <2>3. ASSUME NEW key \in pressed
        PROVE  key \in held \/ key \in stays \/ (key \in mods /\ held \cap Keys # {})
    <3>1. key \in Pressables
      BY <1>1, Whole DEF ControlInv, DeviceTyped, Pressables
    <3>2. ~Loose(key)
      BY <1>1, <2>1, <3>1 DEF ControlInv, StuckInv, KeysInv, Paired
    <3> QED
      BY <3>2 DEF Loose
  <2>4. \A key \in pressed : key \in held => key \in Keys
    <3>1. pressed \subseteq Pressables /\ held \subseteq Keys \cup {"left"}
      BY <1>1, Whole DEF ControlInv, AppTyped, DeviceTyped, Pressables
    <3> QED
      BY <3>1, KeysAssumption DEF Pressables, Mods
  <2>5. pressed \subseteq stays \cup (held \cap Keys)
                            \cup (IF held \cap Keys = {} THEN {} ELSE mods)
    BY <2>3, <2>4
  <2> QED
    BY <2>2, <2>5
<1>2. ControlInv => NothingStuck
  BY <1>1 DEF NothingStuck
<1> QED
  BY <1>2, ControlHolds, PTL

\* However the stream is cut into reads, the frames in flight are those of the messages
\* written and not dispatched, and each dispatch is that of the oldest.
THEOREM DispatchedInOrder == Spec => InputInOrder
<1>1. ControlInv => InFrames(buf \o stream, pending)
  BY DEF ControlInv, FrameInv
<1>2. ControlInv /\ [Next]_vars =>
        [DispatchFrame =>
          /\ pending # <<>>
          /\ [touching |-> touching', pressed |-> pressed']
               = Apply([touching |-> touching, pressed |-> pressed], Head(pending))]_vars
  BY DispatchOldest DEF ControlInv
<1>3. Spec => []InFrames(buf \o stream, pending)
  BY <1>1, ControlHolds, PTL
<1>4. Spec => [][DispatchFrame =>
          /\ pending # <<>>
          /\ [touching |-> touching', pressed |-> pressed']
               = Apply([touching |-> touching, pressed |-> pressed], Head(pending))]_vars
  BY <1>2, ControlHolds, PTL DEF Spec
<1> QED
  BY <1>3, <1>4 DEF InputInOrder

------------------------------------------------------------------------------
(* View: the arithmetic. *)

\* A product grows with its factors.
LEMMA Grows ==
  ASSUME NEW a \in Int, NEW b \in Int, NEW c \in Nat, a <= b
  PROVE  a * c <= b * c
OBVIOUS

\* What is common to both sides of an inequation can be left out.
LEMMA Cancels ==
  ASSUME NEW a \in Int, NEW b \in Int, NEW c \in Nat \ {0}, a * c <= b * c
  PROVE  a <= b
OBVIOUS

\* What division by a positive number leaves.
LEMMA Divided ==
  ASSUME NEW n \in Nat, NEW d \in Nat \ {0}
  PROVE  n \div d \in Nat /\ (n \div d) * d <= n /\ n < (n \div d) * d + d
OBVIOUS

\* Round is off by half at most.
LEMMA RoundNear ==
  ASSUME NEW n \in Nat, NEW d \in Nat \ {0}
  PROVE  /\ Round(n, d) \in Nat
         /\ 2 * d * Round(n, d) - d <= 2 * n /\ 2 * n < 2 * d * Round(n, d) + d
<1> DEFINE q == (2 * n + d) \div (2 * d)
<1>1. 2 * d \in Nat \ {0} /\ 2 * n + d \in Nat
  OBVIOUS
<1>2. q \in Nat /\ q * (2 * d) <= 2 * n + d /\ 2 * n + d < q * (2 * d) + 2 * d
  BY <1>1, Divided
<1>3. Round(n, d) = q
  BY DEF Round
<1> HIDE DEF q
<1>4. q * (2 * d) = 2 * d * q
  BY <1>2
<1> QED
  BY <1>2, <1>3, <1>4

\* Even takes one away at most, and never leaves less than 2.
LEMMA EvenNear ==
  ASSUME NEW n \in Nat
  PROVE  /\ Even(n) \in Nat /\ Even(n) >= 2
         /\ n >= 2 => n - 1 <= Even(n) /\ Even(n) <= n
BY DEF Even, Larger

\* A number kept between two others.
LEMMA WithinBounds ==
  ASSUME NEW lo \in Int, NEW x \in Int, NEW hi \in Int, lo <= hi
  PROVE  /\ Within(lo, x, hi) \in lo..hi
         /\ x \in lo..hi => Within(lo, x, hi) = x
         /\ x > hi => Within(lo, x, hi) = hi
BY DEF Within, Larger, Smaller

\* The toolbar has a height.
LEMMA ToolbarTyped == Toolbar \in Nat
BY ViewAssumption

\* Sizes have two sides of a pixel at least.
Side == Nat \ {0}

LEMMA ScaledTyped ==
  ASSUME NEW d \in Side \X Side, NEW max \in Nat, NEW i \in 1..2
  PROVE  /\ Scaled(d, i, max) \in Nat
         /\ FitMaxSize(d, max)[i] = Even(Scaled(d, i, max))
         /\ FitMaxSize(d, max)[i] \in Nat /\ FitMaxSize(d, max)[i] >= 2
<1>1. d[i] \in Side /\ Larger(d[1], d[2]) \in Side
  BY DEF Side, Larger
<1>2. d[i] * max \in Nat
  BY <1>1 DEF Side
<1>3. Round(d[i] * max, Larger(d[1], d[2])) \in Nat
  BY <1>1, <1>2, RoundNear DEF Side
<1>4. Scaled(d, i, max) \in Nat
  BY <1>1, <1>3 DEF Scaled, Side
<1>5. FitMaxSize(d, max)[i] = Even(Scaled(d, i, max))
  BY DEF FitMaxSize
<1> QED
  BY <1>4, <1>5, EvenNear

\* fit_max_size keeps the proportions: both sides are scaled by the same fraction m / n, but for
\* one and a half pixel, the longer but for one.
LEMMA FitScales ==
  ASSUME NEW d \in Side \X Side, NEW max \in Nat,
         \A i \in 1..2 : Scaled(d, i, max) >= 2
  PROVE  \E m \in Side, n \in Side : \A i \in 1..2 :
           LET f == FitMaxSize(d, max)[i] IN
           /\ 2 * m * d[i] - 3 * n <= 2 * n * f /\ 2 * n * f <= 2 * m * d[i] + n
           /\ d[i] = Larger(d[1], d[2]) => m * d[i] - n <= n * f /\ n * f <= m * d[i]
<1> DEFINE longer == Larger(d[1], d[2])
           f(i) == FitMaxSize(d, max)[i]
<1>1. longer \in Side /\ \A i \in 1..2 : d[i] \in Side
  BY DEF Larger, Side
<1>2. \A i \in 1..2 : /\ f(i) \in Nat /\ Scaled(d, i, max) \in Nat
                      /\ Scaled(d, i, max) - 1 <= f(i) /\ f(i) <= Scaled(d, i, max)
  <2> TAKE i \in 1..2
  <2> DEFINE s == Scaled(d, i, max)
  <2>1. s \in Nat /\ s >= 2 /\ f(i) = Even(s)
    BY ScaledTyped
  <2> HIDE DEF s, f
  <2>2. s - 1 <= Even(s) /\ Even(s) <= s /\ Even(s) \in Nat
    BY <2>1, EvenNear
  <2> QED
    BY <2>1, <2>2 DEF s
<1>3. CASE ~(max > 0 /\ longer > max)
  <2>1. \A i \in 1..2 : Scaled(d, i, max) = d[i]
    BY <1>3 DEF Scaled
  <2>2. \A i \in 1..2 : d[i] - 1 <= f(i) /\ f(i) <= d[i]
    BY <1>2, <2>1
  <2>3. 1 \in Side
    BY DEF Side
  <2> HIDE DEF f
  <2>4. \A i \in 1..2 :
          /\ 2 * 1 * d[i] - 3 * 1 <= 2 * 1 * f(i) /\ 2 * 1 * f(i) <= 2 * 1 * d[i] + 1
          /\ 1 * d[i] - 1 <= 1 * f(i) /\ 1 * f(i) <= 1 * d[i]
    BY <1>1, <1>2, <2>2 DEF Side
  <2> QED
    BY <2>3, <2>4 DEF f
<1>4. CASE max > 0 /\ longer > max
  <2>1. max \in Side
    BY <1>4 DEF Side
  <2>2. \A i \in 1..2 : Scaled(d, i, max) = Round(d[i] * max, longer)
    BY <1>4 DEF Scaled
  <2>3. ASSUME NEW i \in 1..2
        PROVE  /\ 2 * max * d[i] - 3 * longer <= 2 * longer * f(i)
               /\ 2 * longer * f(i) <= 2 * max * d[i] + longer
               /\ d[i] = longer => max * d[i] - longer <= longer * f(i)
                                   /\ longer * f(i) <= max * d[i]
    <3> DEFINE r == Scaled(d, i, max)
               n == longer
               g == f(i)
               side == d[i]
    <3>1. r \in Nat /\ n \in Nat \ {0} /\ g \in Nat /\ side \in Nat /\ r - 1 <= g /\ g <= r
      BY <1>1, <1>2 DEF Side
    <3>2. 2 * n * r - n <= 2 * (side * max) /\ 2 * (side * max) < 2 * n * r + n
      <4>1. side * max \in Nat
        BY <3>1
      <4> QED
        BY <2>2, <3>1, <4>1, RoundNear
    <3> HIDE DEF r, n, g, side
    <3>3. n * g <= n * r /\ n * r - n <= n * g
      BY <3>1
    <3>4. 2 * max * side - 3 * n <= 2 * n * g /\ 2 * n * g <= 2 * max * side + n
      BY <3>1, <3>2, <3>3
    <3>5. ASSUME side = n
          PROVE  max * side - n <= n * g /\ n * g <= max * side
      <4>1. r = max
        <5>1. (2 * r - 1) * n <= 2 * max * n /\ 2 * max * n <= (2 * r + 1) * n
          BY <3>1, <3>2, <3>5
        <5>2. 2 * r - 1 <= 2 * max /\ 2 * max <= 2 * r + 1
          BY <3>1, <5>1, Cancels
        <5> QED
          BY <3>1, <5>2
      <4> QED
        BY <3>1, <3>3, <3>5, <4>1
    <3> QED
      BY <3>4, <3>5 DEF n, g, side
  <2> QED
    BY <1>1, <2>1, <2>3
<1> QED
  BY <1>3, <1>4

\* The share of the picture is made of positive numbers.
LEMMA ShareTyped ==
  ASSUME NEW f \in Side \X Side, NEW view \in Side \X Side, NEW i \in 1..2
  PROVE  Share(f, view)[i][1] \in Side /\ Share(f, view)[i][2] \in Side
<1>1. /\ f[1] \in Side /\ f[2] \in Side /\ view[1] \in Side /\ view[2] \in Side
      /\ \A a, b \in Side : a * b \in Side
  BY DEF Side
<1>2. f[1] * view[2] \in Side /\ f[2] * view[1] \in Side /\ view[1] * f[2] \in Side
      /\ view[2] * f[1] \in Side /\ 1 \in Side
  BY <1>1 DEF Side
<1> QED
  BY <1>2 DEF Share

\* A share n / d of a side of f pixels, kept within it, rounded and kept within it again, is a
\* pixel of it, and off by one at most from the share kept within it.
LEMMA PixelNear ==
  ASSUME NEW n \in Int, NEW d \in Side, NEW f \in Side
  PROVE  LET k == Within(0, n, d)
             x == Within(0, Round(k * f, d), f - 1)
         IN  /\ x \in 0..f - 1 /\ k \in 0..d
             /\ x * d - k * f <= d /\ k * f - x * d <= d
<1> DEFINE k == Within(0, n, d)
           r == Round(k * f, d)
           x == Within(0, r, f - 1)
<1>1. d \in Nat \ {0} /\ f \in Nat \ {0} /\ f - 1 \in Nat
  BY DEF Side
<1>2. k \in 0..d
  BY <1>1, WithinBounds
<1> HIDE DEF k
<1>3. k * f \in Nat
  BY <1>1, <1>2
<1>4. /\ r \in Nat
      /\ 2 * d * r - d <= 2 * (k * f)
      /\ 2 * (k * f) < 2 * d * r + d
  BY <1>1, <1>3, RoundNear
<1> HIDE DEF r
<1>5. x \in 0..f - 1 /\ (r <= f - 1 => x = r) /\ (r > f - 1 => x = f - 1)
  BY <1>1, <1>4 DEF Within, Larger, Smaller
<1> HIDE DEF x
<1>6. x * d - k * f <= d /\ k * f - x * d <= d
  <2>1. 2 * (d * r) - d <= 2 * (k * f) /\ 2 * (k * f) < 2 * (d * r) + d
    BY <1>1, <1>2, <1>4
  <2>2. CASE r <= f - 1
    BY <1>1, <1>2, <1>4, <1>5, <2>1, <2>2
  <2>3. CASE r > f - 1
    <3>1. x = f - 1 /\ x * d = f * d - d
      BY <1>1, <1>5, <2>3
    <3>2. k * f <= d * f /\ f * d <= r * d
      BY <1>1, <1>2, <1>4, <2>3, Grows
    <3>3. d * f = f * d /\ r * d = d * r
      BY <1>1, <1>4
    <3> HIDE <1>5
    <3> QED
      BY <1>1, <1>2, <1>4, <2>1, <3>1, <3>2, <3>3
  <2> QED
    BY <1>1, <1>4, <2>2, <2>3
<1> QED
  BY <1>2, <1>5, <1>6 DEF x, r, k

\* The pixel map_to_device computes lies in the frame, and within a pixel of the place of the
\* picture nearest to what the renderer shows at the point.
LEMMA MappedNear ==
  ASSUME NEW p \in Int \X Int, NEW win \in Side \X Side, NEW f \in Side \X Side, NEW i \in 1..2
  PROVE  LET x == MapToDevice(p, ViewOf(win), f)[i]
             u == Nearest(Under(p, win, f))[i]
         IN  /\ x \in 0..f[i] - 1
             /\ u[2] \in Side /\ u[1] \in 0..u[2]
             /\ x * u[2] - u[1] * f[i] <= u[2] /\ u[1] * f[i] - x * u[2] <= u[2]
<1> DEFINE view == ViewOf(win)
           c == p[i]
           len == view[i]
           s1 == Share(f, view)[i][1]
           s2 == Share(f, view)[i][2]
           n == (2 * c - len) * s2 + s1 * len
           m == 2 * c * s2 - len * s2 + len * s1
           d == 2 * s1 * len
           e == 2 * len * s1
<1>1. view \in Side \X Side
  BY ToolbarTyped DEF ViewOf, Larger, Side
<1>2. s1 \in Side /\ s2 \in Side
  BY <1>1, ShareTyped
<1>3. len \in Side /\ c \in Int /\ f[i] \in Side
  BY <1>1
<1>4. Nearest(Under(p, win, f))[i] = <<Within(0, n, d), d>>
  BY DEF Nearest, Under, PictureAt, VideoArea, ViewOf
<1>5. MapToDevice(p, view, f)[i] = Within(0, Round(Within(0, m, e) * f[i], e), f[i] - 1)
  BY DEF MapToDevice
<1> HIDE DEF view, c, len, s1, s2
<1>6. n = m /\ d = e /\ n \in Int /\ d \in Side
  BY <1>2, <1>3 DEF Side
<1> HIDE DEF n, m, d, e
<1> QED
  BY <1>3, <1>4, <1>5, <1>6, PixelNear DEF view

\* What the tolerance adds for a rotated display, with f the sizes of the frame.
Slack(f) == 2 * (Larger(f[1], f[2]) \div Smaller(f[1], f[2]) + 1)

\* It makes up for the longer side however the sides lie, and it is not nothing.
LEMMA SlackEnough ==
  ASSUME NEW f \in Side \X Side
  PROVE  /\ Slack(f) \in Nat /\ Slack(f) >= 4
         /\ 2 * f[1] <= Slack(f) * f[2] /\ 2 * f[2] <= Slack(f) * f[1]
<1> DEFINE l == Larger(f[1], f[2])
           s == Smaller(f[1], f[2])
           k == l \div s
<1>1. /\ f[1] \in Nat \ {0} /\ f[2] \in Nat \ {0}
      /\ l \in Nat \ {0} /\ s \in Nat \ {0} /\ s <= l
      /\ s <= f[1] /\ s <= f[2] /\ f[1] <= l /\ f[2] <= l
  BY DEF Side, Larger, Smaller
<1>2. Slack(f) = 2 * (k + 1)
  BY DEF Slack
<1> HIDE DEF l, s
<1>3. k \in Nat /\ l < k * s + s
  BY <1>1, Divided
<1> HIDE DEF k
<1>4. k >= 1
  <2>1. CASE k = 0
    BY <1>1, <1>3, <2>1
  <2> QED
    BY <1>3, <2>1
<1>5. \A g \in {f[1], f[2]} : l <= (k + 1) * g
  <2> SUFFICES ASSUME NEW g \in {f[1], f[2]}
               PROVE  l <= (k + 1) * g
    OBVIOUS
  <2>1. s * (k + 1) <= g * (k + 1)
    BY <1>1, <1>3, Grows
  <2> QED
    BY <1>1, <1>3, <2>1
<1>6. l <= (k + 1) * f[1] /\ l <= (k + 1) * f[2]
  BY <1>5
<1> QED
  BY <1>1, <1>2, <1>3, <1>4, <1>6

\* A display of sides a and b and its frame of sides p and q, scaled by m / n as in FitScales:
\* the factors of the two axes differ so little that a pixel x of the first side, scaled by
\* the factor of the other, is off by no more than the slack.
LEMMA Skewed ==
  ASSUME NEW a \in Side, NEW b \in Side, NEW p \in Side, NEW q \in Side,
         NEW m \in Side, NEW n \in Side, NEW x \in 0..p - 1, NEW k \in Nat,
         2 * m * a - 3 * n <= 2 * n * p, 2 * n * p <= 2 * m * a + n,
         2 * m * b - 3 * n <= 2 * n * q, 2 * n * q <= 2 * m * b + n,
         a >= b => m * a - n <= n * p /\ n * p <= m * a,
         b >= a => m * b - n <= n * q /\ n * q <= m * b,
         k >= 4, 2 * p <= k * q
  PROVE  x * (b * p - a * q) <= k * a * q /\ x * (a * q - b * p) <= k * a * q
<1>1. /\ a \in Nat \ {0} /\ b \in Nat \ {0} /\ p \in Nat \ {0} /\ q \in Nat \ {0}
      /\ m \in Nat \ {0} /\ n \in Nat \ {0} /\ x \in Nat /\ x <= p
      /\ m * a \in Nat /\ m * b \in Nat /\ n * p \in Nat /\ n * q \in Nat
  BY DEF Side
<1> DEFINE skew == b * p - a * q
<1>2. skew \in Int
  BY <1>1
\* The other sides' bounds, each times the side of the display it is compared with.
<1>3. /\ (2 * (m * a) - 3 * n) * b <= (2 * (n * p)) * b
      /\ (2 * (n * p)) * b <= (2 * (m * a) + n) * b
      /\ (2 * (m * b) - 3 * n) * a <= (2 * (n * q)) * a
      /\ (2 * (n * q)) * a <= (2 * (m * b) + n) * a
  BY <1>1, Grows
<1>4. CASE a >= b
  <2>1. /\ (m * a - n) * b <= (n * p) * b /\ (n * p) * b <= (m * a) * b
    BY <1>1, <1>4, Grows
  <2>2. n * b <= n * a
    BY <1>1, <1>4
  <2>3. (2 * skew) * n <= (3 * a) * n /\ (-(3 * a)) * n <= (2 * skew) * n
    BY <1>1, <1>3, <2>1, <2>2
  <2>4. 2 * skew <= 3 * a /\ -(3 * a) <= 2 * skew
    BY <1>1, <1>2, <2>3, Cancels
  <2> HIDE DEF skew
  <2>5. (2 * skew) * x <= (3 * a) * x /\ (-(3 * a)) * x <= (2 * skew) * x
    BY <1>1, <1>2, <2>4, Grows
  <2>6. a * x <= a * p /\ a * (2 * p) <= a * (k * q)
    BY <1>1
  <2>7. 2 * (skew * x) <= 3 * (a * x) /\ -(3 * (a * x)) <= 2 * (skew * x)
    BY <1>1, <1>2, <2>5
  <2>8. skew * x <= a * (k * q) /\ -(skew * x) <= a * (k * q)
    BY <1>1, <1>2, <2>6, <2>7
  <2>9. a * (k * q) = k * a * q /\ x * skew = skew * x /\ x * (-skew) = -(skew * x)
    BY <1>1, <1>2
  <2>10. a * q - b * p = -skew
    BY <1>1 DEF skew
  <2> QED
    BY <1>1, <1>2, <2>8, <2>9, <2>10 DEF skew
<1>5. CASE b >= a
  <2>1. /\ (m * b - n) * a <= (n * q) * a /\ (n * q) * a <= (m * b) * a
    BY <1>1, <1>5, Grows
  <2>2. n * a <= n * b
    BY <1>1, <1>5
  <2>3. (2 * skew) * n <= (3 * b) * n /\ (-(3 * b)) * n <= (2 * skew) * n
    BY <1>1, <1>3, <2>1, <2>2
  <2>4. 2 * skew <= 3 * b /\ -(3 * b) <= 2 * skew
    BY <1>1, <1>2, <2>3, Cancels
  <2>5. (2 * (p * b)) * n <= (2 * (a * q) + 2 * a + b) * n
    BY <1>1, <1>3, <2>1
  <2>6. 2 * (p * b) <= 2 * (a * q) + 2 * a + b
    BY <1>1, <2>5, Cancels
  <2> HIDE DEF skew
  <2>7. (2 * skew) * x <= (3 * b) * x /\ (-(3 * b)) * x <= (2 * skew) * x
    BY <1>1, <1>2, <2>4, Grows
  <2>8. 2 * (skew * x) <= 3 * (x * b) /\ -(3 * (x * b)) <= 2 * (skew * x)
    BY <1>1, <1>2, <2>7
  <2>9. x * b <= (p - 1) * b
    BY <1>1, Grows
  <2>10. x * b <= p * b - b /\ a <= a * q
    BY <1>1, <2>9
  <2>11. x * b <= 2 * (a * q)
    BY <1>1, <2>6, <2>10
  <2>12. 4 * (a * q) <= k * (a * q)
    BY <1>1
  <2>13. skew * x <= k * (a * q) /\ -(skew * x) <= k * (a * q)
    BY <1>1, <1>2, <2>8, <2>11, <2>12
  <2>14. k * (a * q) = k * a * q /\ x * skew = skew * x /\ x * (-skew) = -(skew * x)
    BY <1>1, <1>2
  <2>15. a * q - b * p = -skew
    BY <1>1 DEF skew
  <2> QED
    BY <1>1, <1>2, <2>13, <2>14, <2>15 DEF skew
<1> QED
  BY <1>1, <1>4, <1>5

\* A pixel x of a side of p pixels, off by one at most from the share u / v of it, lands on a side
\* of a scaled by b / q: off by one pixel and by what the factors differ.
LEMMA Displaced ==
  ASSUME NEW a \in Side, NEW b \in Side, NEW p \in Side, NEW q \in Side,
         NEW u \in Int, NEW v \in Side, NEW x \in Nat, NEW k \in Nat,
         x * v - u * p <= v, u * p - x * v <= v,
         x * (b * p - a * q) <= k * a * q, x * (a * q - b * p) <= k * a * q
  PROVE  Distance(x * b * v * p, u * a * q * p) <= (1 + k) * a * q * v
<1> DEFINE off == x * v - u * p
           area == a * q
           skew == b * p - area
           turn == x * skew
           left == x * b * v * p
           right == u * a * q * p
<1>1. /\ a \in Nat \ {0} /\ b \in Nat \ {0} /\ p \in Nat \ {0} /\ q \in Nat \ {0}
      /\ v \in Nat \ {0} /\ area \in Nat /\ skew \in Int /\ turn \in Int /\ off \in Int
      /\ left \in Int /\ right \in Int
  BY DEF Side
<1>2. turn <= k * area /\ -turn <= k * area
  <2>1. x * (area - b * p) = -turn /\ k * a * q = k * area
    BY <1>1
  <2> QED
    BY <1>1, <2>1
<1>3. left - right = turn * v + off * area
  BY <1>1
<1>4. off <= v /\ -off <= v
  BY <1>1
<1> HIDE DEF off, skew, turn, left, right
<1>5. turn * v <= (k * area) * v /\ (-turn) * v <= (k * area) * v
  BY <1>1, <1>2, Grows
<1>6. off * area <= v * area /\ (-off) * area <= v * area
  BY <1>1, <1>4, Grows
<1>7. (1 + k) * a * q * v = (k * area) * v + v * area
  BY <1>1
<1> HIDE DEF area
<1>8. left - right <= (k * area) * v + v * area /\ right - left <= (k * area) * v + v * area
  BY <1>1, <1>3, <1>5, <1>6
<1>9. Distance(left, right) <= (k * area) * v + v * area
  BY <1>1, <1>8 DEF Distance
<1> QED
  BY <1>7, <1>9 DEF left, right, area

\* The frame of a rotated display is the frame of the display, rotated.
LEMMA TurnedFits ==
  ASSUME NEW d \in Side \X Side, NEW max \in Nat
  PROVE  /\ FitMaxSize(Turned(d), max)[1] = FitMaxSize(d, max)[2]
         /\ FitMaxSize(Turned(d), max)[2] = FitMaxSize(d, max)[1]
<1>1. Turned(d)[1] = d[2] /\ Turned(d)[2] = d[1] /\ d[1] \in Nat /\ d[2] \in Nat
  BY DEF Turned, Side
<1>2. Larger(Turned(d)[1], Turned(d)[2]) = Larger(d[1], d[2])
  BY <1>1 DEF Larger
<1>3. Scaled(Turned(d), 1, max) = Scaled(d, 2, max) /\ Scaled(Turned(d), 2, max) = Scaled(d, 1, max)
  BY <1>1, <1>2 DEF Scaled
<1> QED
  BY <1>3 DEF FitMaxSize

\* The frame of a display is a size, too.
LEMMA FrameTypes ==
  ASSUME NEW d \in Side \X Side, NEW max \in Nat
  PROVE  FitMaxSize(d, max) \in Side \X Side
<1>1. \A i \in 1..2 : FitMaxSize(d, max)[i] \in Side
  BY ScaledTyped DEF Side
<1>2. FitMaxSize(d, max) = <<FitMaxSize(d, max)[1], FitMaxSize(d, max)[2]>>
  BY DEF FitMaxSize
<1> QED
  BY <1>1, <1>2

\* What fit_max_size promises (control.rs:98) for every display: the sides are even, and none is
\* longer than --max-size. A maximum of 1 is not kept, since no side is shorter than 2.
THEOREM FramesFit ==
  ASSUME NEW d \in Side \X Side, NEW max \in Nat, NEW i \in 1..2
  PROVE  /\ FitMaxSize(d, max)[i] % 2 = 0 /\ FitMaxSize(d, max)[i] >= 2
         /\ max >= 2 => FitMaxSize(d, max)[i] <= max
<1> DEFINE longer == Larger(d[1], d[2])
           side == d[i]
           s == Scaled(d, i, max)
<1>1. longer \in Nat \ {0} /\ side \in Nat \ {0} /\ side <= longer
  BY DEF Larger, Side
<1>2. s \in Nat /\ FitMaxSize(d, max)[i] = Even(s) /\ Even(s) >= 2
  BY ScaledTyped
<1>3. Even(s) % 2 = 0
  BY <1>2 DEF Even, Larger
<1>4. ASSUME max >= 2
      PROVE  s <= max
  <2>1. CASE ~(longer > max)
    BY <1>1, <1>4, <2>1 DEF Scaled
  <2>2. CASE longer > max
    <3> DEFINE r == Round(side * max, longer)
    <3>1. s = r
      BY <1>4, <2>2 DEF Scaled
    <3>2. side * max \in Nat /\ side * max <= longer * max
      BY <1>1, Grows
    <3>3. r \in Nat /\ 2 * longer * r - longer <= 2 * (side * max)
      BY <1>1, <3>2, RoundNear
    <3> HIDE DEF r, longer, side
    <3>4. (2 * r - 1) * longer <= (2 * max) * longer
      BY <1>1, <3>2, <3>3
    <3>5. 2 * r - 1 <= 2 * max
      BY <1>1, <3>3, <3>4, Cancels
    <3> QED
      BY <3>1, <3>3, <3>5
  <2> QED
    BY <2>1, <2>2
<1>5. max >= 2 => Even(s) <= max
  BY <1>2, <1>4 DEF Even, Larger
<1> QED
  BY <1>2, <1>3, <1>5

\* A display and its frame, one of them rotated: the two factors differ within the slack.
LEMMA FactorsAgree ==
  ASSUME NEW d \in Side \X Side, NEW max \in Nat, \A i \in 1..2 : Scaled(d, i, max) >= 2,
         NEW i \in 1..2, NEW j \in 1..2, i # j,
         NEW x \in 0..FitMaxSize(d, max)[i] - 1
  PROVE  LET f == FitMaxSize(d, max)
             k == Slack(f)
         IN  /\ x * (d[j] * f[i] - d[i] * f[j]) <= k * d[i] * f[j]
             /\ x * (d[i] * f[j] - d[j] * f[i]) <= k * d[i] * f[j]
<1> DEFINE f == FitMaxSize(d, max)
<1>1. f \in Side \X Side
  BY FrameTypes
<1>2. PICK m \in Side, n \in Side : \A s \in 1..2 :
        /\ 2 * m * d[s] - 3 * n <= 2 * n * f[s] /\ 2 * n * f[s] <= 2 * m * d[s] + n
        /\ d[s] = Larger(d[1], d[2]) => m * d[s] - n <= n * f[s] /\ n * f[s] <= m * d[s]
  BY FitScales
<1> HIDE DEF f
<1>3. /\ d[i] \in Side /\ d[j] \in Side /\ f[i] \in Side /\ f[j] \in Side
  BY <1>1
<1>4. /\ d[i] >= d[j] => d[i] = Larger(d[1], d[2])
      /\ d[j] >= d[i] => d[j] = Larger(d[1], d[2])
  <2>1. d[1] \in Nat /\ d[2] \in Nat
    BY DEF Side
  <2>2. (i = 1 /\ j = 2) \/ (i = 2 /\ j = 1)
    OBVIOUS
  <2> QED
    BY <2>1, <2>2 DEF Larger
<1>5. /\ Slack(f) \in Nat /\ Slack(f) >= 4 /\ 2 * f[i] <= Slack(f) * f[j]
  <2>1. (i = 1 /\ j = 2) \/ (i = 2 /\ j = 1)
    OBVIOUS
  <2> QED
    BY <1>1, <2>1, SlackEnough
<1>6. x \in 0..f[i] - 1
  BY DEF f
<1>7. /\ 2 * m * d[i] - 3 * n <= 2 * n * f[i] /\ 2 * n * f[i] <= 2 * m * d[i] + n
      /\ 2 * m * d[j] - 3 * n <= 2 * n * f[j] /\ 2 * n * f[j] <= 2 * m * d[j] + n
      /\ d[i] >= d[j] => m * d[i] - n <= n * f[i] /\ n * f[i] <= m * d[i]
      /\ d[j] >= d[i] => m * d[j] - n <= n * f[j] /\ n * f[j] <= m * d[j]
  BY <1>2, <1>4
<1> DEFINE a == d[i] b == d[j] p == f[i] q == f[j] k == Slack(f)
<1>8. x * (b * p - a * q) <= k * a * q /\ x * (a * q - b * p) <= k * a * q
  <2>1. a \in Side /\ b \in Side /\ p \in Side /\ q \in Side /\ x \in 0..p - 1
        /\ k \in Nat /\ k >= 4 /\ 2 * p <= k * q
    BY <1>3, <1>5, <1>6
  <2>2. /\ 2 * m * a - 3 * n <= 2 * n * p /\ 2 * n * p <= 2 * m * a + n
        /\ 2 * m * b - 3 * n <= 2 * n * q /\ 2 * n * q <= 2 * m * b + n
        /\ a >= b => m * a - n <= n * p /\ n * p <= m * a
        /\ b >= a => m * b - n <= n * q /\ n * q <= m * b
    BY <1>7
  <2> HIDE DEF a, b, p, q, k
  <2> QED
    BY <2>1, <2>2, Skewed
<1> QED
  BY <1>8 DEF f

------------------------------------------------------------------------------
(* Steps. *)

\* The display is as it was when the injector was opened, or rotated.
DisplayInv == opened \in Displays /\ display \in {opened, Turned(opened)}

\* A touch knows the window it was made in, and then the pixel computed for it.
TouchMade(t) == t.window \in Windows /\ t.p \in Points(t.window) /\ t.of \in Sizes

TouchMapped(t) ==
  /\ TouchMade(t) /\ t.by \in Sizes
  /\ t.x = MapToDevice(t.p, ViewOf(t.window), FrameSize(t.by))

TouchUnderWay ==
  /\ touch.stage \in {"none", "cmd", "sent"}
  /\ touch.stage = "cmd" => TouchMade(touch)
  /\ touch.stage = "sent" => TouchMapped(touch)

\* What was injected is the pixel of a touch, scaled by the sizes of the start.
TouchLanded ==
  /\ landed.stage \in {"none", "landed"}
  /\ landed.stage = "landed" =>
       /\ TouchMapped(landed)
       /\ landed.on \in {opened, Turned(opened)} /\ landed.to = ToDisplay(landed.x)

PathInv == TouchUnderWay /\ TouchLanded

\* The sizes on their way and the places they came to.
SizesInv ==
  /\ max_size \in MaxSizes /\ window \in Windows
  /\ display \in Sizes /\ captured \in Sizes /\ client \in Sizes /\ shown \in Sizes
  /\ wire \in Seq([kind: {"configure", "frame"}, of: Sizes])

ViewInv == SizesInv /\ DisplayInv /\ PathInv

\* Sizes are sizes, the other way round as well.
LEMMA SizesTyped ==
  /\ Sizes \subseteq Side \X Side /\ Windows \subseteq Side \X Side
  /\ Displays \subseteq Sizes /\ MaxSizes \subseteq Nat
  /\ \A d \in Displays : Turned(d) \in Sizes /\ Turned(Turned(d)) = d
  /\ \A d \in Sizes : Turned(d) \in Sizes
<1>1. Displays \subseteq Side \X Side /\ Windows \subseteq Side \X Side /\ MaxSizes \subseteq Nat
  BY ViewAssumption DEF Side
<1>2. \A d \in Side \X Side : Turned(d) \in Side \X Side /\ Turned(Turned(d)) = d
  BY DEF Turned
<1>3. Sizes \subseteq Side \X Side
  <2>1. \A d \in Displays : Turned(d) \in Side \X Side
    BY <1>1, <1>2
  <2> QED
    BY <1>1, <2>1 DEF Sizes
<1>4. \A d \in Displays : d \in Sizes /\ Turned(d) \in Sizes
  BY DEF Sizes
<1>5. ASSUME NEW d \in Sizes PROVE Turned(d) \in Sizes
  <2>1. CASE d \in Displays
    BY <1>4, <2>1
  <2>2. CASE \E e \in Displays : d = Turned(e)
    BY <1>1, <1>2, <1>4, <2>2
  <2> QED
    BY <2>1, <2>2 DEF Sizes
<1> QED
  BY <1>1, <1>2, <1>3, <1>4, <1>5

\* The invariant holds at the start.
LEMMA ViewStarts == ViewInit => ViewInv
<1> SUFFICES ASSUME ViewInit PROVE ViewInv
  OBVIOUS
<1>1. display \in Displays /\ display \in Sizes
  BY SizesTyped DEF ViewInit
<1>2. SizesInv
  BY <1>1 DEF ViewInit, SizesInv
<1>3. DisplayInv
  BY <1>1 DEF ViewInit, DisplayInv
<1>4. PathInv
  BY DEF ViewInit, PathInv, TouchUnderWay, TouchLanded, NoTouch
<1> QED
  BY <1>2, <1>3, <1>4 DEF ViewInv

\* A touch means the same as long as max_size and opened are the same.
LEMMA PathStays ==
  ASSUME PathInv, UNCHANGED <<max_size, opened, touch, landed>>
  PROVE  PathInv'
BY DEF PathInv, TouchUnderWay, TouchLanded, TouchMapped, TouchMade, ToDisplay, FrameSize

\* A message more on the way.
LEMMA PostTyped ==
  ASSUME SizesInv, NEW kind \in {"configure", "frame"}, NEW d \in Sizes, Post(kind, d)
  PROVE  wire' \in Seq([kind: {"configure", "frame"}, of: Sizes])
<1>1. [kind |-> kind, of |-> d] \in [kind: {"configure", "frame"}, of: Sizes]
  OBVIOUS
<1> QED
  BY <1>1, AppendProperties DEF SizesInv, Post

\* Every step keeps the invariant.
LEMMA ViewStep == ViewInv /\ [ViewNext]_viewvars => ViewInv'
<1> SUFFICES ASSUME ViewInv, [ViewNext]_viewvars PROVE ViewInv'
  OBVIOUS
<1>0. SizesInv /\ DisplayInv /\ PathInv
  BY DEF ViewInv
<1>1. CASE Rotate
  <2>1. SizesInv'
    BY <1>0, <1>1, SizesTyped DEF Rotate, SizesInv
  <2>2. DisplayInv'
    BY <1>0, <1>1, SizesTyped DEF Rotate, DisplayInv
  <2>3. PathInv'
    BY <1>0, <1>1, PathStays DEF Rotate
  <2> QED
    BY <2>1, <2>2, <2>3 DEF ViewInv
<1>2. CASE Reconfigure
  <2>1. wire' \in Seq([kind: {"configure", "frame"}, of: Sizes])
    BY <1>0, <1>2, PostTyped DEF Reconfigure, SizesInv
  <2>2. SizesInv'
    BY <1>0, <1>2, <2>1 DEF Reconfigure, SizesInv
  <2>3. DisplayInv'
    BY <1>0, <1>2 DEF Reconfigure, DisplayInv
  <2>4. PathInv'
    BY <1>0, <1>2, PathStays DEF Reconfigure
  <2> QED
    BY <2>2, <2>3, <2>4 DEF ViewInv
<1>3. CASE SendFrame
  <2>1. wire' \in Seq([kind: {"configure", "frame"}, of: Sizes])
    BY <1>0, <1>3, PostTyped DEF SendFrame, SizesInv
  <2>2. SizesInv'
    BY <1>0, <1>3, <2>1 DEF SendFrame, SizesInv
  <2>3. DisplayInv'
    BY <1>0, <1>3 DEF SendFrame, DisplayInv
  <2>4. PathInv'
    BY <1>0, <1>3, PathStays DEF SendFrame
  <2> QED
    BY <2>2, <2>3, <2>4 DEF ViewInv
<1>4. CASE Receive
  <2>1. /\ Head(wire) \in [kind: {"configure", "frame"}, of: Sizes]
        /\ Tail(wire) \in Seq([kind: {"configure", "frame"}, of: Sizes])
    BY <1>0, <1>4, HeadTailProperties DEF Receive, SizesInv
  <2>2. Head(wire).of \in Sizes
    BY <2>1
  <2>3. SizesInv'
    BY <1>0, <1>4, <2>1, <2>2 DEF Receive, SizesInv
  <2>4. DisplayInv'
    BY <1>0, <1>4 DEF Receive, DisplayInv
  <2>5. PathInv'
    BY <1>0, <1>4, PathStays DEF Receive
  <2> QED
    BY <2>3, <2>4, <2>5 DEF ViewInv
<1>5. CASE Resize
  <2>1. SizesInv'
    BY <1>0, <1>5 DEF Resize, SizesInv
  <2>2. DisplayInv'
    BY <1>0, <1>5 DEF Resize, DisplayInv
  <2>3. PathInv'
    BY <1>0, <1>5, PathStays DEF Resize
  <2> QED
    BY <2>1, <2>2, <2>3 DEF ViewInv
<1>6. CASE SendTouch
  <2>1. SizesInv'
    BY <1>0, <1>6 DEF SendTouch, SizesInv
  <2>2. DisplayInv'
    BY <1>0, <1>6 DEF SendTouch, DisplayInv
  <2>3. PathInv'
    <3>1. PICK p \in Points(window) :
            touch' = [stage |-> "cmd", p |-> p, window |-> window, of |-> shown]
      BY <1>6 DEF SendTouch
    <3>2. landed'.stage = "none" /\ touch'.stage = "cmd"
      BY <1>6, <3>1 DEF SendTouch, NoTouch
    <3>3. /\ touch'.window \in Windows /\ touch'.p \in Points(touch'.window)
          /\ touch'.of \in Sizes
      BY <1>0, <3>1 DEF SizesInv
    <3> QED
      BY <3>2, <3>3 DEF PathInv, TouchUnderWay, TouchLanded, TouchMade
  <2> QED
    BY <2>1, <2>2, <2>3 DEF ViewInv
<1>7. CASE ClientTouch
  <2>1. SizesInv'
    BY <1>0, <1>7 DEF ClientTouch, SizesInv
  <2>2. DisplayInv'
    BY <1>0, <1>7 DEF ClientTouch, DisplayInv
  <2>3. PathInv'
    <3>1. TouchMade(touch) /\ client \in Sizes
      BY <1>0, <1>7 DEF ClientTouch, PathInv, TouchUnderWay, SizesInv
    <3>2. /\ touch'.stage = "sent"
          /\ touch'.window \in Windows /\ touch'.p \in Points(touch'.window)
          /\ touch'.of \in Sizes /\ touch'.by \in Sizes
      BY <1>7, <3>1 DEF ClientTouch, TouchMade
    <3>3. touch'.p = touch.p /\ touch'.window = touch.window /\ touch'.by = client
          /\ touch'.x = MapToDevice(touch.p, ViewOf(touch.window), FitMaxSize(client, max_size))
          /\ max_size' = max_size
      BY <1>7 DEF ClientTouch, FrameSize
    <3>4. touch'.x
            = MapToDevice(touch'.p, ViewOf(touch'.window), FitMaxSize(touch'.by, max_size'))
      BY <3>3, Zenon
    <3>5. TouchMapped(touch)'
      BY <3>2, <3>4 DEF TouchMapped, TouchMade, FrameSize
    <3>6. landed' = landed /\ max_size' = max_size /\ opened' = opened
      BY <1>7 DEF ClientTouch
    <3>7. TouchLanded'
      BY <1>0, <3>6 DEF PathInv, TouchLanded, TouchMapped, TouchMade, ToDisplay, FrameSize
    <3> QED
      BY <3>2, <3>5, <3>7 DEF PathInv, TouchUnderWay
  <2> QED
    BY <2>1, <2>2, <2>3 DEF ViewInv
<1>8. CASE InjectTouch
  <2>1. SizesInv'
    BY <1>0, <1>8 DEF InjectTouch, SizesInv
  <2>2. DisplayInv'
    BY <1>0, <1>8 DEF InjectTouch, DisplayInv
  <2>3. PathInv'
    <3>1. TouchMapped(touch)
      BY <1>0, <1>8 DEF InjectTouch, PathInv, TouchUnderWay
    <3>2. /\ touch'.stage = "none" /\ landed'.stage = "landed"
          /\ landed'.window \in Windows /\ landed'.p \in Points(landed'.window)
          /\ landed'.of \in Sizes /\ landed'.by \in Sizes /\ landed'.on = display
      BY <1>8, <3>1 DEF InjectTouch, TouchMapped, TouchMade, NoTouch
    <3>3. max_size' = max_size /\ opened' = opened
      BY <1>8 DEF InjectTouch
    <3>4. /\ landed'.p = touch.p /\ landed'.window = touch.window
          /\ landed'.by = touch.by /\ landed'.x = touch.x
          /\ landed'.to = [i \in 1..2 |->
               <<touch.x[i] * opened[i], FitMaxSize(opened, max_size)[i]>>]
      BY <1>8 DEF InjectTouch, ToDisplay, FrameSize
    <3>5. touch.x = MapToDevice(touch.p, ViewOf(touch.window), FitMaxSize(touch.by, max_size))
      BY <3>1 DEF TouchMapped, FrameSize
    <3>6. landed'.x
            = MapToDevice(landed'.p, ViewOf(landed'.window), FitMaxSize(landed'.by, max_size'))
      BY <3>3, <3>4, <3>5, Zenon
    <3>7. TouchMapped(landed)'
      BY <3>2, <3>6 DEF TouchMapped, TouchMade, FrameSize
    <3>8. landed'.to = [i \in 1..2 |->
            <<landed'.x[i] * opened'[i], FitMaxSize(opened', max_size')[i]>>]
      BY <3>3, <3>4, Zenon
    <3>9. TouchLanded'
      BY <1>0, <3>2, <3>3, <3>7, <3>8 DEF TouchLanded, ToDisplay, FrameSize, DisplayInv
    <3>10. TouchUnderWay'
      BY <3>2 DEF TouchUnderWay
    <3> QED
      BY <3>9, <3>10 DEF PathInv
  <2> QED
    BY <2>1, <2>2, <2>3 DEF ViewInv
<1>9. CASE UNCHANGED viewvars
  <2>1. SizesInv'
    BY <1>0, <1>9 DEF viewvars, SizesInv
  <2>2. DisplayInv'
    BY <1>0, <1>9 DEF viewvars, DisplayInv
  <2>3. PathInv'
    BY <1>0, <1>9, PathStays DEF viewvars
  <2> QED
    BY <2>1, <2>2, <2>3 DEF ViewInv
<1> QED
  BY <1>1, <1>2, <1>3, <1>4, <1>5, <1>6, <1>7, <1>8, <1>9 DEF ViewNext

\* The pixel of a touch is one of the frame it was computed for, and close to the cursor.
LEMMA TouchNear ==
  ASSUME ViewInv, NEW t, TouchMapped(t), NEW i \in 1..2
  PROVE  LET f == FrameSize(t.by)
             u == Nearest(Under(t.p, t.window, f))[i]
         IN  /\ t.by \in Side \X Side /\ f \in Side \X Side
             /\ t.x[i] \in 0..f[i] - 1
             /\ u[2] \in Side /\ u[1] \in 0..u[2]
             /\ t.x[i] * u[2] - u[1] * f[i] <= u[2] /\ u[1] * f[i] - t.x[i] * u[2] <= u[2]
<1>1. t.by \in Side \X Side /\ t.window \in Side \X Side
  BY SizesTyped DEF TouchMapped, TouchMade
<1>2. t.p \in Int \X Int
  BY <1>1 DEF TouchMapped, TouchMade, Points, Side
<1>3. max_size \in Nat
  BY SizesTyped DEF ViewInv, SizesInv
<1>4. FrameSize(t.by) \in Side \X Side
  BY <1>1, <1>3, FrameTypes DEF FrameSize
<1>5. t.x = MapToDevice(t.p, ViewOf(t.window), FrameSize(t.by))
  BY DEF TouchMapped
<1> QED
  BY <1>1, <1>2, <1>4, <1>5, MappedNear

\* The invariant says that the touch lands where it should.
LEMMA Lands == ViewInv => LandsWhereShown
<1> SUFFICES ASSUME ViewInv, landed.stage = "landed", Calm(landed), NEW i \in 1..2
             PROVE  LET d == landed.on
                        f == FrameSize(d)
                        u == Nearest(Under(landed.p, landed.window, f))[i]
                        to == landed.to[i]
                    IN  /\ d = opened \/ InProportion(d) =>
                             Distance(to[1] * u[2] * f[i], u[1] * d[i] * to[2] * f[i])
                               <= Tolerance(d) * d[i] * to[2] * u[2]
                        /\ d = opened => to[1] < d[i] * to[2]
  BY DEF LandsWhereShown
<1> DEFINE d == landed.on
           f == FrameSize(d)
           u == Nearest(Under(landed.p, landed.window, f))[i]
           x == landed.x[i]
           b == opened[i]
           q == FrameSize(opened)[i]
<1>1. /\ d \in {opened, Turned(opened)} /\ landed.by = d /\ TouchMapped(landed)
      /\ opened \in Displays /\ max_size \in Nat
  BY SizesTyped DEF ViewInv, PathInv, TouchLanded, DisplayInv, SizesInv, Calm
<1>2. /\ d \in Side \X Side /\ f \in Side \X Side /\ x \in 0..f[i] - 1
      /\ u[1] \in Int /\ u[2] \in Side
      /\ x * u[2] - u[1] * f[i] <= u[2] /\ u[1] * f[i] - x * u[2] <= u[2]
  BY <1>1, TouchNear DEF Side
<1>3. landed.to[i] = <<x * b, q>>
  BY DEF ViewInv, PathInv, TouchLanded, ToDisplay
<1>4. opened \in Side \X Side /\ FrameSize(opened) \in Side \X Side
  BY <1>1, SizesTyped, FrameTypes DEF FrameSize
<1>5. /\ d[i] \in Side /\ f[i] \in Side /\ b \in Side /\ q \in Side /\ x \in Nat
  BY <1>2, <1>4
<1>6. CASE d = opened
  <2>1. Tolerance(d) = 1 + 0 /\ d[i] = b /\ f[i] = q
    BY <1>6 DEF Tolerance
  <2> DEFINE v == u[2] w == u[1]
  <2>2. b \in Nat \ {0} /\ q \in Nat \ {0} /\ v \in Side /\ w \in Int
    BY <1>2, <1>5 DEF Side
  <2>3. x <= q - 1
    BY <1>2, <2>1, <2>2
  <2> HIDE DEF b, q, x, v, w
  <2>4. x * (b * q - b * q) <= 0 * b * q
    BY <1>5, <2>2
  <2>5. Distance(x * b * v * q, w * b * q * q) <= (1 + 0) * b * q * v
    <3>1. x * v - w * q <= v /\ w * q - x * v <= v
      BY <1>2, <2>1 DEF v, w, x
    <3> QED
      BY <1>5, <2>2, <2>4, <3>1, Displaced
  <2>6. x * b < b * q
    <3>1. x * b <= (q - 1) * b
      BY <1>5, <2>2, <2>3, Grows
    <3> QED
      BY <1>5, <2>2, <3>1
  <2> QED
    BY <1>3, <2>1, <2>5, <2>6 DEF v, w
<1>7. CASE d # opened /\ InProportion(d)
  <2>1. PICK j \in 1..2 : i # j
    OBVIOUS
  <2>2. d = Turned(opened) /\ opened = Turned(d)
    BY <1>1, <1>7, SizesTyped
  <2>3. b = d[j] /\ q = f[j]
    BY <1>1, <1>2, <2>1, <2>2, TurnedFits DEF Turned, FrameSize
  <2>4. Tolerance(d) = 1 + Slack(f)
    BY <1>7 DEF Tolerance, Slack
  <2>5. Slack(f) \in Nat
    BY <1>2, SlackEnough
  <2>6. /\ x * (b * f[i] - d[i] * q) <= Slack(f) * d[i] * q
        /\ x * (d[i] * q - b * f[i]) <= Slack(f) * d[i] * q
    BY <1>1, <1>2, <1>7, <2>1, <2>3, FactorsAgree DEF InProportion, FrameSize
  <2> DEFINE v == u[2] w == u[1] k == Slack(f) a == d[i] p == f[i]
  <2>7. a \in Side /\ p \in Side /\ v \in Side /\ w \in Int /\ k \in Nat
    BY <1>2, <1>5, <2>5
  <2>8. x * (b * p - a * q) <= k * a * q /\ x * (a * q - b * p) <= k * a * q
    BY <2>6
  <2>9. x * v - w * p <= v /\ w * p - x * v <= v
    BY <1>2
  <2> HIDE DEF b, q, x, v, w, k, a, p
  <2>10. Distance(x * b * v * p, w * a * q * p) <= (1 + k) * a * q * v
    BY <1>5, <2>7, <2>8, <2>9, Displaced
  <2> QED
    BY <1>3, <1>7, <2>4, <2>10 DEF v, w, k, a, p
<1> QED
  BY <1>6, <1>7, <1>3

\* The invariant holds throughout.
THEOREM ViewHolds == ViewSpec => []ViewInv
BY ViewStarts, ViewStep, PTL DEF ViewSpec

\* Every variable keeps its type: the pixel sent for a touch is one of the frame it was
\* computed for, for all sizes of displays, windows and frames.
THEOREM ViewTyped == ViewSpec => []ViewTypes
<1>1. ViewInv => ViewTypes
  <2> SUFFICES ASSUME ViewInv PROVE ViewTypes
    OBVIOUS
  <2>1. SizesInv /\ DisplayInv /\ PathInv
    BY DEF ViewInv
  <2>2. opened \in Sizes
    BY <2>1, SizesTyped DEF DisplayInv
  <2>3. touch.stage \in Stages /\ landed.stage \in Stages
    BY <2>1 DEF PathInv, TouchUnderWay, TouchLanded, Stages
  <2>4. ASSUME touch.stage = "sent", NEW i \in 1..2
        PROVE  touch.x[i] \in 0..FrameSize(touch.by)[i] - 1
    <3>1. TouchMapped(touch)
      BY <2>1, <2>4 DEF PathInv, TouchUnderWay
    <3> QED
      BY <3>1, TouchNear
  <2> QED
    BY <2>1, <2>2, <2>3, <2>4 DEF ViewTypes, SizesInv
<1> QED
  BY <1>1, ViewHolds, PTL

\* Where a touch lands, for all sizes of displays, windows and frames.
THEOREM TouchesLand == ViewSpec => []LandsWhereShown
BY Lands, ViewHolds, PTL

=============================================================================
