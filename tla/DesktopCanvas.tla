---------------------------- MODULE DesktopCanvas ----------------------------
(***************************************************************************)
(* The desktop page of the web panel: a guest's screen in an opaque frame. *)
(* In preview an overlay covers the frame and the page keeps wheel and     *)
(* keys; in control the guest gets them.  Three queries decide whether the *)
(* canvas is on the page at all, and effects keyed on the control flag     *)
(* alone wire the gestures to whatever element was there when they ran.    *)
(*                                                                         *)
(* React flushes a handler, its render and its effects before the next     *)
(* input event: one action is all three.  The animation frame that focuses *)
(* the guest is a step of its own, and any event may come before it.  The  *)
(* two axes of the view are one, its speed and smoothing a choice of       *)
(* direction, and a finger's way is told apart at TAP_SLOP.                *)
(***************************************************************************)
EXTENDS Integers

CONSTANTS MaxZoom,      \* MAX_ZOOM in whole steps
          Mods,         \* Ctrl, Alt, Shift, Super
          MaxChanges    \* bound: changes of the request seen by the poll

VARIABLES
  session, dash, desk,  \* the three queries
  focused,              \* the guest gets the input
  frameDue,             \* the animation frame that will focus the guest
  keys,                 \* where the keyboard focus is
  loaded,               \* the guest's page runs the input bridge
  wired,                \* the gesture listeners are on the overlay shown
  zoom, pan, full, cursor,
  press,                \* the mouse button on the overlay: up, held, dragged
  touch, fingers,       \* the tracked finger, and how many are down
  travel,               \* how far fingers have gone since the first came down
  suppress, lapse,      \* suppressClickRef, and the timer that clears it
  armed, board,         \* on-screen modifiers, and whether the keyboard is open
  changes

queryVars == <<session, dash, desk, changes>>
focusVars == <<focused, frameDue, keys, loaded, wired>>
viewVars  == <<zoom, pan, full, cursor>>
handVars  == <<press, touch, fingers, travel, suppress, lapse>>
boardVars == <<armed, board>>
canvasVars == <<queryVars, focusVars, viewVars, handVars, boardVars>>

\* No way, one within TAP_SLOP, one beyond it in steps that are each within,
\* and one with a step beyond.
Travels == 0 .. 3

CanvasTypeOK ==
  /\ session \in {"pending", "none", "user"}
  /\ dash \in {"pending", "error", "ended", "missing", "stopped", "running"}
  /\ desk \in {"pending", "error", "ended", "unsaved", "url"}
  /\ keys \in {"page", "stage", "guest"}
  /\ {focused, frameDue, loaded, wired, full, cursor, suppress, lapse, board}
       \subseteq BOOLEAN
  /\ zoom \in 1 .. MaxZoom /\ pan \in Int
  /\ press \in {"up", "held", "dragged"}
  /\ touch \in {"none", "still", "moved"} /\ fingers \in 0 .. 2 /\ travel \in Travels
  /\ armed \subseteq Mods /\ changes \in 0 .. MaxChanges

-----------------------------------------------------------------------------
(* What the page shows *)

Shown == CASE session = "pending"              -> "loading"
           [] session = "none"                 -> "signin"
           [] dash = "pending"                 -> "loading"
           [] dash = "ended"                   -> "signin"
           [] dash \in {"error", "missing"}    -> "error"
           [] dash = "stopped"                 -> "offline"
           [] desk = "pending"                 -> "loading"
           [] desk = "ended"                   -> "signin"
           [] desk \in {"error", "unsaved"}    -> "error"
           [] OTHER                            -> "canvas"

Canvas == Shown = "canvas"

\* The queries change what is on the page.  The effect that wires the gestures
\* is keyed on the control flag: an overlay that appears by itself stays as it
\* is.  A canvas that goes takes the keyboard focus, fullscreen, the guest's
\* page and the gesture in hand with it.
Rendered ==
  /\ wired' = (Canvas' /\ Canvas /\ wired)
  /\ IF Canvas' THEN UNCHANGED <<keys, loaded, press, fingers, travel, full>>
                ELSE /\ keys' = "page" /\ loaded' = FALSE /\ full' = FALSE
                     /\ press' = "up" /\ fingers' = 0 /\ travel' = 0
  /\ UNCHANGED <<focused, frameDue, zoom, pan, cursor, touch, suppress, lapse, boardVars>>

SessionKnown ==
  /\ session = "pending"
  /\ session' \in {"none", "user"}
  /\ UNCHANGED <<dash, desk, changes>> /\ Rendered

\* The first answer, a poll every ten seconds, or Retry.
DashboardAnswer ==
  /\ session = "user" /\ changes < MaxChanges /\ changes' = changes + 1
  /\ dash' \in {"error", "ended", "missing", "stopped", "running"} \ {dash}
  /\ UNCHANGED <<session, desk>> /\ Rendered

\* The first answer, Retry, or the network is back.
DeskAnswer ==
  /\ session = "user" /\ (desk # "url" \/ changes < MaxChanges)
  /\ desk' \in {"error", "ended", "unsaved", "url"} \ {desk}
  /\ changes' = IF desk = "url" THEN changes + 1 ELSE changes
  /\ UNCHANGED <<session, dash>> /\ Rendered

GuestLoads ==
  /\ Canvas /\ ~loaded /\ loaded' = TRUE
  /\ UNCHANGED <<queryVars, focused, frameDue, keys, wired, viewVars, handVars, boardVars>>

-----------------------------------------------------------------------------
(* Taking and releasing control *)

\* enterFocus: the frame is focused by the next animation frame.
Enter == /\ focused' = TRUE /\ frameDue' = TRUE /\ wired' = FALSE /\ press' = "up"
         /\ UNCHANGED <<keys, loaded>>

\* Seeded fault: the keyboard stays in the guest.
MutExit == /\ focused' = FALSE /\ wired' = (focused \/ wired) /\ cursor' = FALSE
           /\ UNCHANGED <<keys, frameDue, loaded>>

\* exitFocus: the Control button gets the keyboard.
Exit == /\ focused' = FALSE /\ wired' = (focused \/ wired) /\ cursor' = FALSE
        /\ keys' = "page"
        /\ UNCHANGED <<frameDue, loaded>>

\* The tools around the frame are used with nothing held on it.
Free == Canvas /\ press = "up" /\ fingers = 0

FrameFocus ==
  /\ frameDue /\ frameDue' = FALSE
  /\ keys' = IF Canvas THEN "guest" ELSE keys
  /\ UNCHANGED <<queryVars, focused, loaded, wired, viewVars, handVars, boardVars>>

\* The Control button, or Enter on the stage or the overlay.
ControlButton ==
  /\ Free
  /\ IF focused THEN Exit /\ UNCHANGED press ELSE Enter /\ UNCHANGED cursor
  /\ UNCHANGED <<queryVars, zoom, pan, full, touch, fingers, travel, suppress, lapse,
                 boardVars>>

\* A click into the frame in control, or on the tools around it.
FocusMoves ==
  /\ Free
  /\ keys' \in {"page", "stage"} \cup (IF focused THEN {"guest"} ELSE {})
  /\ UNCHANGED <<queryVars, focused, frameDue, loaded, wired, viewVars, handVars,
                 boardVars>>

\* In the guest the bridge reports it to a page in control; on the stage onKeys
\* handles it; anywhere else the listener on the window does, in preview only.
EscapeHeard == CASE keys = "guest" -> loaded /\ focused
                 [] keys = "stage" -> TRUE
                 [] OTHER          -> ~focused

Escape ==
  /\ Canvas
  /\ IF EscapeHeard THEN Exit ELSE UNCHANGED <<focusVars, cursor>>
  /\ UNCHANGED <<queryVars, zoom, pan, full, handVars, boardVars>>

-----------------------------------------------------------------------------
(* The view *)

Width(f) == IF f THEN 2 ELSE 1

Clamped(p, z, f) == LET low == (1 - z) * Width(f)
                    IN  IF z = 1 \/ p > 0 THEN 0 ELSE IF p < low THEN low ELSE p

View(z, p, f) == zoom' = z /\ pan' = p /\ full' = f

Still == UNCHANGED <<queryVars, focusVars, handVars, boardVars>>

ZoomTo(z) == View(z, Clamped(pan, z, full), full)

\* A pinch keeps the point between the fingers, as far as the frame allows.
ZoomAt(z) == \E p \in (1 - z) * Width(full) .. 0 : View(z, p, full)

ZoomStep ==
  /\ Free /\ \E z \in {1, zoom - 1, zoom + 1} \cap (1 .. MaxZoom) :
                /\ z # zoom /\ ZoomTo(z)
                /\ cursor' = (cursor /\ z # 1)
  /\ Still

\* Arrow keys on the stage.
Nudge ==
  /\ Canvas /\ zoom > 1 /\ keys = "stage"
  /\ \E d \in {-1, 1} : View(zoom, Clamped(pan + d, zoom, full), full)
  /\ UNCHANGED cursor /\ Still

\* Every animation frame glides towards the edge the cursor is at.
EdgeTick ==
  /\ Canvas /\ zoom > 1 /\ cursor
  /\ \E d \in {-1, 1} : View(zoom, Clamped(pan + d, zoom, full), full)
  /\ UNCHANGED cursor /\ Still

\* The mouse over the page, or reported by the guest; or it leaves.
CursorMoves == /\ Canvas /\ cursor' = ~cursor
               /\ UNCHANGED <<zoom, pan, full>> /\ Still

\* The frame changes its size and the view is clamped again; leaving takes the
\* keyboard to the button, also in control.
Fullscreen ==
  /\ Free
  /\ View(zoom, Clamped(pan, zoom, ~full), ~full)
  /\ keys' = IF full THEN "page" ELSE keys
  /\ UNCHANGED <<queryVars, focused, frameDue, loaded, wired, cursor, handVars, boardVars>>

-----------------------------------------------------------------------------
(* Gestures on the overlay *)

\* A pan by the hand on the stage.
Dragged == \E d \in {-1, 0, 1} : View(zoom, Clamped(pan + d, zoom, full), full)

\* Within half a second of a tap nobody drags with the mouse.
MouseDown ==
  /\ Canvas /\ ~focused /\ press = "up" /\ fingers = 0 /\ ~lapse
  /\ press' = "held" /\ keys' = "stage"
  /\ suppress' = IF wired THEN FALSE ELSE suppress
  /\ UNCHANGED <<queryVars, focused, frameDue, loaded, wired, viewVars, touch, fingers,
                 travel, lapse, boardVars>>

\* Seeded fault: the click after a drag is not suppressed.
MutMouseDrag ==
  /\ Canvas /\ press # "up" /\ press' = "dragged"
  /\ (IF wired THEN Dragged ELSE UNCHANGED <<zoom, pan, full>>) /\ cursor' = TRUE
  /\ UNCHANGED <<queryVars, focusVars, touch, fingers, travel, suppress, lapse, boardVars>>

\* Beyond TAP_SLOP.
MouseDrag ==
  /\ Canvas /\ press # "up" /\ press' = "dragged"
  /\ (IF wired THEN Dragged ELSE UNCHANGED <<zoom, pan, full>>) /\ cursor' = TRUE
  /\ suppress' = (wired \/ suppress)
  /\ UNCHANGED <<queryVars, focusVars, touch, fingers, travel, lapse, boardVars>>

\* The browser follows the release with a click.
MouseUp ==
  /\ Canvas /\ press # "up"
  /\ IF suppress THEN press' = "up" /\ UNCHANGED focusVars ELSE Enter
  /\ UNCHANGED <<queryVars, viewVars, touch, fingers, travel, suppress, lapse, boardVars>>

\* Each finger that comes down becomes the tracked one.
TouchStart ==
  /\ Canvas /\ ~focused /\ press = "up" /\ fingers < 2
  /\ fingers' = fingers + 1
  /\ touch' = IF wired THEN "still" ELSE touch
  /\ UNCHANGED <<queryVars, focusVars, viewVars, press, travel, suppress, lapse, boardVars>>

\* How far it is after one more event, far when that one is beyond TAP_SLOP.
Farther(far) == CASE far \/ travel = 3 -> {3}
                  [] travel = 0        -> {1}
                  [] OTHER             -> {travel, 2}

\* Each event is measured from the one before it, and makes a drag by itself;
\* two fingers always do.
Marks(far) == far \/ fingers = 2

\* One finger that drags pans, two pinch.
TouchMove ==
  /\ Canvas /\ fingers > 0
  /\ \E far \in BOOLEAN :
       /\ travel' \in Farther(far)
       /\ touch' = IF wired /\ touch # "none" /\ Marks(far) THEN "moved" ELSE touch
  /\ IF wired /\ touch # "none"
       THEN /\ cursor' = TRUE
            /\ CASE fingers = 2      -> \E z \in 1 .. MaxZoom : ZoomAt(z)
                 [] touch' = "moved" -> Dragged
                 [] OTHER            -> UNCHANGED <<zoom, pan, full>>
       ELSE UNCHANGED viewVars
  /\ UNCHANGED <<queryVars, focusVars, press, fingers, suppress, lapse, boardVars>>

\* A short press that is no drag takes control; without listeners the browser
\* makes a click of one without travel.
Tap == IF wired THEN touch = "still" ELSE travel < 2 /\ fingers = 1 /\ ~suppress

TouchEnd ==
  /\ Canvas /\ fingers > 0
  /\ IF Tap THEN Enter /\ fingers' = 0
            ELSE /\ fingers' = fingers - 1 /\ UNCHANGED <<focusVars, press>>
  /\ travel' = IF fingers' = 0 THEN 0 ELSE travel
  /\ suppress' = (suppress \/ (wired /\ Tap)) /\ lapse' = (lapse \/ (wired /\ Tap))
  /\ touch' = IF wired THEN "none" ELSE touch
  /\ cursor' = (cursor /\ ~(wired /\ touch # "none"))
  /\ UNCHANGED <<queryVars, zoom, pan, full, boardVars>>

\* The browser takes a gesture away, or the press was too long for a tap.
TouchCancel ==
  /\ Canvas /\ fingers > 0 /\ fingers' = 0 /\ travel' = 0
  /\ touch' = IF wired THEN "none" ELSE touch
  /\ UNCHANGED <<queryVars, focusVars, viewVars, press, suppress, lapse, boardVars>>

SuppressLapses == /\ lapse /\ lapse' = FALSE /\ suppress' = FALSE
                  /\ UNCHANGED <<queryVars, focusVars, viewVars, press, touch, fingers,
                                 travel, boardVars>>

-----------------------------------------------------------------------------
(* The on-screen keyboard *)

ToggleBoard == /\ Free /\ board' = ~board
               /\ UNCHANGED <<queryVars, focusVars, viewVars, handVars, armed>>

ToggleMod ==
  /\ Free /\ board
  /\ \E m \in Mods : armed' = IF m \in armed THEN armed \ {m} ELSE armed \cup {m}
  /\ UNCHANGED <<queryVars, focusVars, viewVars, handVars, board>>

Typed == /\ IF focused THEN UNCHANGED <<focusVars, press>> ELSE Enter
         /\ UNCHANGED <<queryVars, viewVars, touch, fingers, travel, suppress, lapse, board>>

\* A key takes what is armed with it, and takes control.
SendKey == Free /\ board /\ armed' = {} /\ Typed

\* So does this, but what is armed stays.
SendCtrlAltDel == Free /\ board /\ UNCHANGED armed /\ Typed

-----------------------------------------------------------------------------
\* The page is opened with nothing known, or with every answer in the cache.
CanvasMount ==
  /\ \/ /\ session = "pending" /\ dash = "pending" /\ desk = "pending" /\ wired = FALSE
     \/ /\ session = "user" /\ dash = "running" /\ desk = "url" /\ wired = TRUE
  /\ changes = 0
  /\ focused = FALSE /\ frameDue = FALSE /\ keys = "page" /\ loaded = FALSE
  /\ zoom = 1 /\ pan = 0 /\ full = FALSE /\ cursor = FALSE
  /\ press = "up" /\ touch = "none" /\ fingers = 0 /\ travel = 0
  /\ suppress = FALSE /\ lapse = FALSE /\ armed = {} /\ board = FALSE

CanvasNext == \/ SessionKnown \/ DashboardAnswer \/ DeskAnswer \/ GuestLoads
              \/ FrameFocus \/ ControlButton \/ FocusMoves \/ Escape
              \/ ZoomStep \/ Nudge \/ EdgeTick \/ CursorMoves \/ Fullscreen
              \/ MouseDown \/ MouseDrag \/ MouseUp
              \/ TouchStart \/ TouchMove \/ TouchEnd \/ TouchCancel \/ SuppressLapses
              \/ ToggleBoard \/ ToggleMod \/ SendKey \/ SendCtrlAltDel

-----------------------------------------------------------------------------
(* Properties *)

\* In preview the keyboard gets into the guest by the animation frame of an
\* enterFocus only, when control was released before it came: whichever way
\* control was taken and released and whatever the queries took off the page
\* meanwhile (enterFocus, exitFocus).
PreviewKeepsKeys ==
  [][~focused' /\ keys' = "guest" => FrameFocus \/ (~focused /\ keys = "guest")]_canvasVars

\* "Preview. Wheel and keys stay on this page." (exitFocus.)
PreviewHasKeys == ~focused => keys # "guest"

\* Dragging the view, with the mouse or with a finger in a stroke that leaves
\* TAP_SLOP at once, never takes control of the guest at its end, where the
\* gesture listeners are wired and no second finger came in (suppressClickRef:
\* "A real drag is not a click").
DragIsNoClick ==
  [][wired /\ ~focused /\ focused' =>
       /\ press # "dragged"
       /\ fingers = 1 => travel # 3]_canvasVars

\* "a tap is a short press with almost no travel; anything beyond is a drag"
\* (TAP_SLOP): whatever would be taken for a tap has not left it.
TapHasNoTravel == wired /\ ~focused /\ fingers = 1 /\ Tap => travel < 2
=============================================================================
