----------------------------- MODULE CanvasHost -----------------------------
(***************************************************************************)
(* The viewport of the design canvas (DCViewport of design-canvas.jsx) and *)
(* the tweaks panel (tweaks-panel.jsx), in an iframe, with the host whose  *)
(* toolbar shows the zoom of the one and the toggle of the other.  Page    *)
(* and host speak by postMessage, in order each way; the host is external  *)
(* and does what the comments of the two files say of it.                  *)
(*                                                                         *)
(* A scale is the number of zoom steps from 100%; a pan is one of a few    *)
(* positions; the panel moves in one dimension.                            *)
(***************************************************************************)
EXTENDS Integers, Sequences

CONSTANTS
  Limits,      \* minScale and maxScale, of the revisions of the page
  Pan,         \* positions of the canvas
  Pointer,     \* mouse buttons, fingers
  Width,       \* widths of the window
  Place,       \* where a drag would put the panel, from the right edge
  PanelWidth,  \* offsetWidth of the panel
  Pad,         \* PAD
  None,        \* nothing stored or posted, no gesture, no pointer
  Budgets,     \* bound: how many inputs the canvas and the panel get in a run
  MaxLoads     \* bound: loads of the page

ASSUME LimitsAssumption == \A l \in Limits : l.min \in Int /\ l.max \in Int /\ l.min <= 0 /\ 0 <= l.max
ASSUME PanelAssumption  == Width \subseteq Nat /\ Place \subseteq Int /\ PanelWidth \in Nat /\ Pad \in Nat
ASSUME NoneAssumption   == None \notin Int \cup Pointer
ASSUME PanAssumption    == Pan # {}
ASSUME BoundsAssumption == Budgets \subseteq [canvas : Nat, panel : Nat] /\ MaxLoads \in Nat \ {0}

VARIABLES
  canvas,   \* mounted; tf, the transform; posted, lastPostedScale; due, the 200 ms timer
  hand,     \* gesture, gsBase of a pinch; drag, the pointer it follows; grab, a drag of the panel
  panel,    \* open, and offset from the right edge
  stored,   \* localStorage dc-viewport:<path>
  window,   \* limits of the page that is loaded, width of the window
  up, down, \* messages to the host, and to the page
  host,     \* present; scale, its % readout; edit, its toggle; loaded, the iframe's load event
  inputs, loads, \* inputs the user may still give, loads so far
  kept      \* history: what a reload must land on, None if no write of it succeeded

vars   == <<canvas, hand, panel, stored, window, up, down, host, inputs, loads, kept>>
bounds == <<inputs, loads>>

Least(a, b) == IF a < b THEN a ELSE b
Most(a, b)  == IF a > b THEN a ELSE b
Clamp(s, l) == Least(l.max, Most(l.min, s))

Blank   == [mounted |-> FALSE, tf |-> [pan |-> CHOOSE p \in Pan : TRUE, scale |-> 0],
            posted |-> None, due |-> FALSE]
Relaxed == [gesture |-> None, drag |-> None, grab |-> FALSE]
Closed  == [open |-> FALSE, offset |-> Pad]
Note(t) == [type |-> t, scale |-> 0]
Zoom(s) == [type |-> "zoom", scale |-> s]

Init ==
  /\ canvas = Blank /\ hand = Relaxed /\ panel = Closed /\ stored = None /\ kept = None
  /\ window \in [limits : Limits, width : Width]
  /\ up = <<>> /\ down = <<>> /\ inputs \in Budgets /\ loads = 1
  /\ host = [present |-> FALSE, scale |-> 0, edit |-> FALSE, loaded |-> FALSE]

Input(k) == inputs[k] > 0 /\ inputs' = [inputs EXCEPT ![k] = @ - 1] /\ UNCHANGED loads
InPage(k) == canvas.mounted /\ Input(k) /\ UNCHANGED <<window, down, host>>

-----------------------------------------------------------------------------
(* The viewport.                                                             *)

\* apply(): the scale is posted unless it is the last one posted; the timer starts again.
Apply(tf, posted, first) ==
  /\ canvas' = [mounted |-> TRUE, tf |-> tf, posted |-> tf.scale, due |-> TRUE]
  /\ kept' = kept
  /\ up' = up \o first \o IF posted = tf.scale THEN <<>> ELSE <<Zoom(tf.scale)>>

\* zoomAt: the point under the cursor stays, so the canvas moves when it zooms.
ZoomTo(s) ==
  LET next == Clamp(s, window.limits) IN
  \E p \in IF next = canvas.tf.scale THEN {canvas.tf.pan} ELSE Pan :
    Apply([pan |-> p, scale |-> next], canvas.posted, <<>>)

PanTo(p) == Apply([canvas.tf EXCEPT !.pan = p], canvas.posted, <<>>)

Restored(l) == IF stored = None THEN Blank.tf ELSE [stored EXCEPT !.scale = Clamp(@, l)]

\* The layout effect restores the transform and posts its scale; then the panel and the
\* viewport announce themselves, and the scale is posted again, after __dc_present.
Mount ==
  LET tf == Restored(window.limits) IN
  /\ ~canvas.mounted
  /\ Apply(tf, None, (IF stored = None THEN <<>> ELSE <<Zoom(tf.scale)>>)
                       \o <<Note("available"), Note("present")>>)
  /\ UNCHANGED <<hand, panel, stored, window, down, host, bounds>>

\* onWheel: a pinch or a notch zooms, two fingers pan; dropped while gesture events zoom.
Wheel ==
  /\ InPage("canvas") /\ UNCHANGED <<hand, panel, stored>>
  /\ IF hand.gesture # None THEN UNCHANGED <<canvas, up, kept>>
     ELSE \/ \E d \in {-1, 1} : ZoomTo(canvas.tf.scale + d)
          \/ \E p \in Pan : PanTo(p)

GestureStart ==
  /\ InPage("canvas") /\ hand' = [hand EXCEPT !.gesture = canvas.tf.scale]
  /\ UNCHANGED <<canvas, panel, stored, up, kept>>

GestureChange ==
  /\ InPage("canvas") /\ hand.gesture # None /\ \E d \in {-1, 1} : ZoomTo(hand.gesture + d)
  /\ UNCHANGED <<hand, panel, stored>>

GestureEnd ==
  /\ InPage("canvas") /\ hand.gesture # None /\ hand' = [hand EXCEPT !.gesture = None]
  /\ UNCHANGED <<canvas, panel, stored, up, kept>>

\* onPointerDown: the middle button, or the primary one off the artboards, takes the drag
\* over from any other.
PointerDown(p) ==
  /\ InPage("canvas") /\ hand' = [hand EXCEPT !.drag = p]
  /\ UNCHANGED <<canvas, panel, stored, up, kept>>

PointerMove ==
  /\ InPage("canvas") /\ hand.drag # None /\ \E p \in Pan : PanTo(p)
  /\ UNCHANGED <<hand, panel, stored>>

\* onPointerUp, also of pointercancel: another pointer's is ignored.
PointerUp(p) ==
  /\ hand.drag = p /\ hand' = [hand EXCEPT !.drag = None]
  /\ UNCHANGED <<canvas, panel, stored, window, up, down, host, bounds, kept>>

\* The timer fires; setItem may throw, and the error is swallowed.
Save ==
  /\ canvas.due /\ canvas' = [canvas EXCEPT !.due = FALSE]
  /\ \/ stored' = canvas.tf /\ kept' = canvas.tf
     \/ stored' = stored /\ kept' = None
  /\ UNCHANGED <<hand, panel, window, up, down, host, bounds>>

-----------------------------------------------------------------------------
(* The tweaks panel.                                                         *)

ClampPanel(x) == Least(Most(Pad, window.width - PanelWidth - Pad), Most(Pad, x))

\* With a bug: the panel opens where it was.
OpenedThere == [panel EXCEPT !.open = TRUE]

\* setOpen(true), and the effect that clamps the panel when it opens.
Opened == IF panel.open THEN panel ELSE [open |-> TRUE, offset |-> ClampPanel(panel.offset)]

\* With a bug: the host is not told.
DismissQuietly ==
  /\ InPage("panel") /\ panel.open /\ panel' = [panel EXCEPT !.open = FALSE]
  /\ UNCHANGED <<canvas, hand, stored, up, kept>>

Dismiss ==
  /\ InPage("panel") /\ panel.open /\ panel' = [panel EXCEPT !.open = FALSE]
  /\ up' = Append(up, Note("dismissed"))
  /\ UNCHANGED <<canvas, hand, stored, kept>>

\* onDragStart, and its listeners on the window: they stay when the panel is closed
\* under the mouse, and move then records a position that is not clamped.
PanelGrab ==
  /\ InPage("panel") /\ panel.open /\ ~hand.grab /\ hand' = [hand EXCEPT !.grab = TRUE]
  /\ UNCHANGED <<canvas, panel, stored, up, kept>>

PanelMove(x) ==
  /\ InPage("panel") /\ hand.grab
  /\ panel' = [panel EXCEPT !.offset = IF panel.open THEN ClampPanel(x) ELSE x]
  /\ UNCHANGED <<canvas, hand, stored, up, kept>>

PanelDrop ==
  /\ hand.grab /\ hand' = [hand EXCEPT !.grab = FALSE]
  /\ UNCHANGED <<canvas, panel, stored, window, up, down, host, bounds, kept>>

\* The observer of the document's size exists while the panel is open.
Resize(w) ==
  /\ Input("panel") /\ w # window.width
  /\ window' = [window EXCEPT !.width = w]
  /\ panel' = IF panel.open
                THEN [panel EXCEPT !.offset = Least(Most(Pad, w - PanelWidth - Pad), Most(Pad, @))]
                ELSE panel
  /\ UNCHANGED <<canvas, hand, stored, up, down, host, kept>>

-----------------------------------------------------------------------------
(* The host.                                                                 *)

\* The % menu: the canvas zooms if there is one.
Menu(s) ==
  /\ Input("canvas") /\ host.present /\ down' = Append(down, [type |-> "set_zoom", scale |-> s])
  /\ UNCHANGED <<canvas, hand, panel, stored, window, up, host, kept>>

Toggle ==
  /\ Input("panel") /\ host' = [host EXCEPT !.edit = ~@]
  /\ down' = Append(down, Note(IF host.edit THEN "deactivate" ELSE "activate"))
  /\ UNCHANGED <<canvas, hand, panel, stored, window, up, kept>>

\* The load event, before or after the page has mounted: the readout is reset, and the
\* page asked whether it is a canvas.
HostLoad ==
  /\ ~host.loaded /\ host' = [host EXCEPT !.loaded = TRUE, !.present = FALSE, !.scale = 0]
  /\ down' = Append(down, Note("probe"))
  /\ UNCHANGED <<canvas, hand, panel, stored, window, up, bounds, kept>>

\* The host hears the page; a dismissal is echoed, and a panel that has just come up is
\* opened if the toggle is on.
DeliverUp ==
  /\ up # <<>> /\ up' = Tail(up)
  /\ LET m == Head(up)
         echo == CASE m.type = "available" /\ host.edit -> <<Note("activate")>>
                   [] m.type = "dismissed"              -> <<Note("deactivate")>>
                   [] OTHER                             -> <<>>
     IN /\ down' = down \o echo
        /\ host' = [host EXCEPT !.present = @ \/ m.type = "present",
                                !.scale = IF m.type = "zoom" /\ host.present THEN m.scale ELSE @,
                                !.edit = @ /\ m.type # "dismissed"]
  /\ UNCHANGED <<canvas, hand, panel, stored, window, bounds, kept>>

\* With a bug: the scale that was posted last is not posted again.
ProbedGuarded == Apply(canvas.tf, canvas.posted, <<Note("present")>>)

\* __dc_probe: the canvas announces itself, and its scale whatever it posted last.
Probed == Apply(canvas.tf, None, <<Note("present")>>)

\* onHostMsg of the viewport, onMsg of the panel; without their listeners, lost.
DeliverDown ==
  /\ down # <<>> /\ down' = Tail(down)
  /\ LET m == Head(down) IN
       /\ CASE canvas.mounted /\ m.type = "set_zoom" -> ZoomTo(m.scale)
            [] canvas.mounted /\ m.type = "probe"    -> Probed
            [] OTHER                                 -> UNCHANGED <<canvas, up, kept>>
       /\ panel' = CASE canvas.mounted /\ m.type = "activate"   -> Opened
                     [] canvas.mounted /\ m.type = "deactivate" -> [panel EXCEPT !.open = FALSE]
                     [] OTHER                                   -> panel
  /\ UNCHANGED <<hand, stored, window, host, bounds>>

-----------------------------------------------------------------------------
(* The page goes, and another one is loaded.                                 *)

Load ==
  /\ loads < MaxLoads /\ loads' = loads + 1
  /\ canvas' = Blank /\ hand' = Relaxed /\ panel' = Closed
  /\ \E l \in Limits : window' = [window EXCEPT !.limits = l]
  /\ host' = [host EXCEPT !.loaded = FALSE]
  /\ UNCHANGED <<up, down, inputs>>

\* With a bug: nothing is written when the page goes.
LeaveUnflushed ==
  canvas.mounted /\ stored' = stored /\ kept' = canvas.tf

\* pagehide: flush writes the transform, if it can.
Leave ==
  /\ canvas.mounted
  /\ \/ stored' = canvas.tf /\ kept' = canvas.tf
     \/ stored' = stored /\ kept' = None

Reload == Leave /\ Load

\* The tab is killed: what was not written is lost.
Kill ==
  /\ Load /\ stored' = stored
  /\ kept' = IF canvas.due THEN None ELSE kept

Next ==
  \/ Mount \/ Wheel \/ GestureStart \/ GestureChange \/ GestureEnd \/ PointerMove \/ Save
  \/ \E p \in Pointer : PointerDown(p) \/ PointerUp(p)
  \/ Dismiss \/ PanelGrab \/ PanelDrop \/ Toggle \/ HostLoad \/ DeliverUp \/ DeliverDown
  \/ \E x \in Place : PanelMove(x)
  \/ \E w \in Width : Resize(w)
  \/ \E l \in Limits : \E s \in (l.min - 1) .. (l.max + 1) : Menu(s)
  \/ Reload \/ Kill

CanvasSpec == Init /\ [][Next]_vars

-----------------------------------------------------------------------------
(* Properties.                                                               *)

Transform   == [pan : Pan, scale : Int]
UpMessage   == [type : {"zoom", "available", "present", "dismissed"}, scale : Int]
DownMessage == [type : {"set_zoom", "probe", "activate", "deactivate"}, scale : Int]

TypeOK ==
  /\ canvas \in [mounted : BOOLEAN, tf : Transform, posted : Int \cup {None}, due : BOOLEAN]
  /\ hand \in [gesture : Int \cup {None}, drag : Pointer \cup {None}, grab : BOOLEAN]
  /\ panel \in [open : BOOLEAN, offset : Int]
  /\ stored \in Transform \cup {None} /\ kept \in Transform \cup {None}
  /\ window \in [limits : Limits, width : Width]
  /\ up \in Seq(UpMessage) /\ down \in Seq(DownMessage)
  /\ host \in [present : BOOLEAN, scale : Int, edit : BOOLEAN, loaded : BOOLEAN]
  /\ inputs \in [canvas : Nat, panel : Nat] /\ loads \in 1 .. MaxLoads

Quiet == canvas.mounted /\ up = <<>> /\ down = <<>>

\* Once every message has arrived, the host knows the canvas and its toolbar shows the
\* canvas's scale, whenever the load event came ("so the toolbar % is correct before first
\* pinch", and the cleared guards, design-canvas.jsx:382-401).
ToolbarInSync == Quiet => host.present /\ host.scale = canvas.tf.scale

\* Once every message has arrived, the panel is open exactly if the host's toggle is on,
\* although both ends switch it ("in lockstep", tweaks-panel.jsx:180-186).
PanelInStep == Quiet => panel.open = host.edit

\* A panel that shows lies in the window, or at its edge if the window is too narrow,
\* although window and position may change while it is closed.
PanelVisible == panel.open => panel.offset = ClampPanel(panel.offset)

\* A page opens where the one before it was left, within its own limits, unless the write
\* failed or the tab was killed within the 200 ms of the timer ("so a reload within the
\* 200ms debounce window doesn't drop the last pan/zoom").
Landed ==
  [][~canvas.mounted /\ canvas'.mounted /\ kept # None
       => canvas'.tf = [kept EXCEPT !.scale = Clamp(@, window.limits)]]_vars
=============================================================================
