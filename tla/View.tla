---------------------------------- MODULE View ----------------------------------
(***************************************************************************)
(* Where a touch lands. Four places compute with sizes: the window shows   *)
(* the picture letterboxed above its toolbar (quad of                      *)
(* crates/native/src/render.rs), the client turns a point of the view into *)
(* a pixel of the frame (map_to_device of crates/client/src/lib.rs), the   *)
(* server chooses the size of the frames (fit_max_size of control.rs), and *)
(* SdkInject scales the pixel to the display (inject_sdk.rs), for ever by  *)
(* the sizes of its start. Each learns of a rotation at its own time.      *)
(*                                                                         *)
(* The f32 of the code is exact here: a fraction is a pair of integers.    *)
(* A size is <<width, height>>. The extra rotation of the client is 0, as  *)
(* in the desktop host.                                                    *)
(*                                                                         *)
(* The specification is ViewSpec, and what belongs to it has names of its  *)
(* own, since InputProofs extends this module together with Control, which *)
(* has which touches arrive.                                               *)
(***************************************************************************)
EXTENDS Integers, Sequences

CONSTANTS
  Displays,  \* sizes the display may have when the server starts
  Windows,   \* inner sizes of the window
  MaxSizes,  \* values of --max-size
  Toolbar,   \* toolbar_px
  WireDepth  \* bound: messages of the server on their way

Turned(d) == <<d[2], d[1]>>
Sizes     == Displays \cup {Turned(d) : d \in Displays}

ASSUME ViewAssumption ==
  /\ Displays \subseteq (Nat \ {0}) \X (Nat \ {0}) /\ Windows \subseteq (Nat \ {0}) \X (Nat \ {0})
  /\ MaxSizes \subseteq Nat /\ Toolbar \in Nat /\ WireDepth \in Nat \ {0}

VARIABLES
  max_size,  \* --max-size
  display,   \* size of the display
  opened,    \* its size when the injector was opened
  captured,  \* its size when the capture was started
  wire,      \* Configure messages and frames, each with the display size it is of
  client,    \* the display size behind the width and height of Client
  shown,     \* the display size behind the picture in the window
  window,    \* inner size of the window
  touch,     \* the touch on its way
  landed     \* history: the last touch that was injected

viewvars == <<max_size, display, opened, captured, wire, client, shown, window, touch, landed>>

------------------------------------------------------------------------------
(* The arithmetic. *)

Larger(a, b)  == IF a < b THEN b ELSE a
Smaller(a, b) == IF a < b THEN a ELSE b
Within(lo, x, hi) == Larger(lo, Smaller(x, hi))

\* round of n / d, for n >= 0
Round(n, d) == (2 * n + d) \div (2 * d)
Even(n)     == Larger(n - (n % 2), 2)

\* A side of d scaled by what brings the longer one down to max (0: as it is).
Scaled(d, i, max) ==
  LET longer == Larger(d[1], d[2]) IN
  IF max > 0 /\ longer > max THEN Round(d[i] * max, longer) ELSE d[i]

\* Even sides, the longer at most max.
FitMaxSize(d, max) == [i \in 1..2 |-> Even(Scaled(d, i, max))]

FrameSize(d) == FitMaxSize(d, max_size)

\* Mutant: the size reported with a touch still includes the toolbar.
ViewOfWhole(win) == win

\* App::view: what send_touch reports, the window without its toolbar.
ViewOf(win) == <<win[1], Larger(win[2] - Toolbar, 1)>>

\* quad: where the renderer puts the picture.
VideoArea(win) == <<win[1], Larger(win[2] - Toolbar, 1)>>

\* The share of the view's width and height that the letterboxed picture takes, as fractions:
\* (sx, sy) of quad, (box_w / view_w, box_h / view_h) of map_to_device.
Share(f, view) ==
  IF view[1] * f[2] > view[2] * f[1]
  THEN <<<<f[1] * view[2], f[2] * view[1]>>, <<1, 1>>>>
  ELSE <<<<1, 1>>, <<view[1] * f[2], view[2] * f[1]>>>>

\* Where in the picture, from 0 to 1, the renderer shows what is at c of a side of length len.
PictureAt(c, len, share) ==
  <<(2 * c - len) * share[2] + share[1] * len, 2 * share[1] * len>>

\* quad, update_quad: the part of the picture under a point of the window.
Under(p, win, f) ==
  LET area == VideoArea(win) IN
  [i \in 1..2 |-> PictureAt(p[i], area[i], Share(f, area)[i])]

\* Mutant: the point is not kept inside the frame.
MapToDeviceUnclamped(p, view, f) ==
  [i \in 1..2 |->
     LET share == Share(f, view)[i]
         n == 2 * p[i] * share[2] - view[i] * share[2] + view[i] * share[1]
         d == 2 * view[i] * share[1]
     IN Round(Within(0, n, d) * f[i], d)]

\* map_to_device: offset and size of the letterboxed picture, clamp, scale, round, clamp.
MapToDevice(p, view, f) ==
  [i \in 1..2 |->
     LET share == Share(f, view)[i]
         n == 2 * p[i] * share[2] - view[i] * share[2] + view[i] * share[1]
         d == 2 * view[i] * share[1]
     IN Within(0, Round(Within(0, n, d) * f[i], d), f[i] - 1)]

\* to_display: by the sizes of the start.
ToDisplay(x) == [i \in 1..2 |-> <<x[i] * opened[i], FrameSize(opened)[i]>>]

------------------------------------------------------------------------------
NoTouch == [stage |-> "none"]

ViewInit ==
  /\ max_size \in MaxSizes
  /\ display \in Displays
  /\ opened = display /\ captured = display /\ client = display /\ shown = display
  /\ wire = <<>>
  /\ window \in Windows
  /\ touch = NoTouch /\ landed = NoTouch

Rotate ==
  /\ display' = Turned(display)
  /\ UNCHANGED <<max_size, opened, captured, wire, client, shown, window, touch, landed>>

Post(kind, d) ==
  /\ Len(wire) < WireDepth
  /\ wire' = Append(wire, [kind |-> kind, of |-> d])

\* The server's loop sees the rotation.
Reconfigure ==
  /\ captured # display
  /\ captured' = display
  /\ Post("configure", display)
  /\ UNCHANGED <<max_size, display, opened, client, shown, window, touch, landed>>

SendFrame ==
  /\ Post("frame", captured)
  /\ UNCHANGED <<max_size, display, opened, captured, client, shown, window, touch, landed>>

\* on_bytes takes over a new size at once; a frame goes through decoder and renderer.
Receive ==
  /\ wire # <<>>
  /\ wire' = Tail(wire)
  /\ LET m == Head(wire) IN
       /\ client' = IF m.kind = "configure" THEN m.of ELSE client
       /\ shown' = IF m.kind = "frame" THEN m.of ELSE shown
  /\ UNCHANGED <<max_size, display, opened, captured, window, touch, landed>>

Resize ==
  /\ window' \in Windows \ {window}
  /\ UNCHANGED <<max_size, display, opened, captured, wire, client, shown, touch, landed>>

\* Where the cursor may be: a drag goes on over the edge of the window.
Points(win) == (-1..win[1]) \X (-1..win[2])

\* send_touch, with the view as it is now. Only a press in the toolbar is no touch: a Move of a
\* drag and an Up are sent from wherever the cursor is.
SendTouch ==
  /\ touch = NoTouch
  /\ \E p \in Points(window) :
       touch' = [stage |-> "cmd", p |-> p, window |-> window, of |-> shown]
  /\ landed' = NoTouch
  /\ UNCHANGED <<max_size, display, opened, captured, wire, client, shown, window>>

\* The session encodes it with the size Client has by now.
ClientTouch ==
  /\ touch.stage = "cmd"
  /\ touch' = [stage |-> "sent", p |-> touch.p, window |-> touch.window, of |-> touch.of,
               by |-> client, x |-> MapToDevice(touch.p, ViewOf(touch.window), FrameSize(client))]
  /\ UNCHANGED <<max_size, display, opened, captured, wire, client, shown, window, landed>>

InjectTouch ==
  /\ touch.stage = "sent"
  /\ landed' = [stage |-> "landed", p |-> touch.p, window |-> touch.window, of |-> touch.of,
                by |-> touch.by, on |-> display, x |-> touch.x, to |-> ToDisplay(touch.x)]
  /\ touch' = NoTouch
  /\ UNCHANGED <<max_size, display, opened, captured, wire, client, shown, window>>

ViewNext ==
  \/ Rotate \/ Reconfigure \/ SendFrame \/ Receive \/ Resize
  \/ SendTouch \/ ClientTouch \/ InjectTouch

ViewSpec == ViewInit /\ [][ViewNext]_viewvars

------------------------------------------------------------------------------
(* Properties. *)

Stages == {"none", "cmd", "sent", "landed"}

\* Every variable holds a value of its type; a pixel sent is one of the frame it was computed for.
ViewTypes ==
  /\ max_size \in MaxSizes /\ window \in Windows
  /\ {display, opened, captured, client, shown} \subseteq Sizes
  /\ wire \in Seq([kind: {"configure", "frame"}, of: Sizes])
  /\ touch.stage \in Stages /\ landed.stage \in Stages
  /\ touch.stage = "sent" =>
       \A i \in 1..2 : touch.x[i] \in 0..FrameSize(touch.by)[i] - 1

Distance(a, b) == IF a < b THEN b - a ELSE a - b

\* Frame pixels by which a touch may be off. After a rotation the injector scales each axis by
\* the factor of the other, and the two differ by the rounding of fit_max_size.
Tolerance(d) ==
  LET f == FrameSize(d) IN
  IF d = opened THEN 1 ELSE 1 + 2 * (Larger(f[1], f[2]) \div Smaller(f[1], f[2]) + 1)

\* The touch met one state of affairs all the way: the picture under the cursor, the size in
\* Client and the display are of the same size.
Calm(t) == t.of = t.by /\ t.by = t.on

\* No side so short that fit_max_size raises it to 2, which gives up the proportions.
InProportion(d) == \A i \in 1..2 : Scaled(d, i, max_size) >= 2

\* The place in the picture nearest to what is under a point.
Nearest(u) == [i \in 1..2 |-> <<Within(0, u[i][1], u[i][2]), u[i][2]>>]

\* A touch reaches the display where the picture showed it under the cursor, or, if the cursor
\* was beside the picture, in a bar, over the toolbar or out of the window, at the place of the
\* picture nearest to it, and never beyond the edge of a display that has the size of the start.
\* Of a display that was rotated since, the first holds if its frames have its proportions.
LandsWhereShown ==
  landed.stage = "landed" /\ Calm(landed) =>
    LET d == landed.on
        f == FrameSize(d)
        u == Nearest(Under(landed.p, landed.window, f))
        to == landed.to
    IN \A i \in 1..2 :
         /\ d = opened \/ InProportion(d) =>
              Distance(to[i][1] * u[i][2] * f[i], u[i][1] * d[i] * to[i][2] * f[i])
                <= Tolerance(d) * d[i] * to[i][2] * u[i][2]
         /\ d = opened => to[i][1] < d[i] * to[i][2]

=================================================================================
