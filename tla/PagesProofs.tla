------------------------------ MODULE PagesProofs ------------------------------
(***************************************************************************)
(* What the pages keep, for any number of clicks, answers and rows.  The   *)
(* five parts share no state, and each has an argument of its own:         *)
(*                                                                         *)
(* Desktop page (FrameIsLate, HandInv): the keys are looked for step by    *)
(* step, and a drag is known by where the fingers are.                     *)
(* Forms (FormInv): a license that is sent was read since the recipe was   *)
(* chosen.                                                                 *)
(* Concierge (SuggestInv): a fact about the plan table, and the answers    *)
(* that are decided on are answers of the tier.                            *)
(* Panel (PanelInv): every query is known to hold, or to be about to fetch,*)
(* what it owes; this is said of queries that no page observes too, since  *)
(* a page may open over them.                                              *)
(* Feed (FeedInv): a page of rows is known by its heading, as long as no   *)
(* row commits late, so that the same heading is the same page.            *)
(***************************************************************************)
EXTENDS DesktopCanvas, RequestForms, Concierge, Panel, Feed,
        FiniteSetTheorems, WellFoundedInduction, TLAPS

-----------------------------------------------------------------------------
(* The desktop page and the forms *)

CanvasSpec == CanvasMount /\ [][CanvasNext]_canvasVars
FormsSpec == FormsMount /\ [][FormsNext]_formsVars
SuggestSpec == SuggestMount /\ [][SuggestNext]_suggestVars

\* How the keys get into a guest that is previewed.
FrameIsLate == ~focused' /\ keys' = "guest" => FrameFocus \/ (~focused /\ keys = "guest")

\* No other step of the page, the guest or the network sends keys there.
LEMMA KeysStep == CanvasNext => FrameIsLate
<1> SUFFICES ASSUME CanvasNext PROVE FrameIsLate
  OBVIOUS
<1> USE DEF FrameIsLate
<1>1. CASE SessionKnown \/ DashboardAnswer \/ DeskAnswer
  BY <1>1 DEF SessionKnown, DashboardAnswer, DeskAnswer, Rendered
<1>2. CASE GuestLoads \/ FrameFocus \/ FocusMoves \/ Fullscreen
  BY <1>2 DEF GuestLoads, FocusMoves, Fullscreen
<1>3. CASE ControlButton \/ Escape
  BY <1>3 DEF ControlButton, Escape, Enter, Exit, focusVars
<1>4. CASE ZoomStep \/ Nudge \/ EdgeTick \/ CursorMoves
  BY <1>4 DEF ZoomStep, Nudge, EdgeTick, CursorMoves, Still, focusVars
<1>5. CASE MouseDown \/ MouseDrag \/ MouseUp
  BY <1>5 DEF MouseDown, MouseDrag, MouseUp, Enter, focusVars
<1>6. CASE TouchStart \/ TouchMove \/ TouchEnd \/ TouchCancel \/ SuppressLapses
  BY <1>6 DEF TouchStart, TouchMove, TouchEnd, TouchCancel, SuppressLapses, Enter, focusVars
<1>7. CASE ToggleBoard \/ ToggleMod \/ SendKey \/ SendCtrlAltDel
  BY <1>7 DEF ToggleBoard, ToggleMod, SendKey, SendCtrlAltDel, Typed, Enter, focusVars
<1> QED
  BY <1>1, <1>2, <1>3, <1>4, <1>5, <1>6, <1>7 DEF CanvasNext

\* The one way the keyboard gets into a guest in preview is the animation frame
\* of an enterFocus that was taken back: for any modifiers and any order of
\* clicks, keys, gestures and queries on the page (enterFocus, exitFocus).
THEOREM OnlyALateFrameTakesKeys == CanvasSpec => PreviewKeepsKeys
<1>1. [CanvasNext]_canvasVars => [FrameIsLate]_canvasVars
  BY KeysStep
<1>2. [][FrameIsLate]_canvasVars => PreviewKeepsKeys
  BY PTL DEF FrameIsLate, PreviewKeepsKeys
<1> QED
  BY <1>1, <1>2, PTL DEF CanvasSpec

-----------------------------------------------------------------------------
\* One hand at a time: the mouse and the fingers exclude each other, and both
\* control.  A drag is remembered for its release, and so is a finger's long step.
HandInv ==
  /\ fingers \in {0, 1, 2}
  /\ fingers = 0 => travel = 0
  /\ focused => press = "up" /\ fingers = 0
  /\ press # "up" => fingers = 0 /\ ~lapse
  /\ wired /\ press = "dragged" => suppress
  /\ wired /\ fingers = 1 /\ travel = 3 => touch # "still"

\* What a step that takes control may not have come from.
NoDrag == wired /\ ~focused /\ focused' => /\ press # "dragged"
                                           /\ fingers = 1 => travel # 3

\* Steps that leave the hand on the overlay, and the listeners on it, or take
\* them away with it.
LEMMA HandKeeps ==
  ASSUME HandInv, focused' => focused, wired' => wired,
         suppress => suppress', lapse' => lapse, touch' = touch,
         \/ press' = press /\ fingers' = fingers /\ travel' = travel
         \/ press' = "up" /\ fingers' = 0 /\ travel' = 0
  PROVE  HandInv' /\ NoDrag
BY SMT DEF HandInv, NoDrag

\* Steps that give control to the page or the guest with the hand elsewhere.
LEMMA HandFree ==
  ASSUME HandInv, press' = "up", fingers' = 0, travel' = 0,
         ~focused /\ focused' => fingers = 0 /\ press # "dragged"
  PROVE  HandInv' /\ NoDrag
<1>1. "up" # "dragged" /\ 0 # 1
  OBVIOUS
<1> QED
  BY <1>1, Zenon DEF HandInv, NoDrag

\* A step that takes control is no end of a drag.
LEMMA HandStep == ASSUME HandInv, [CanvasNext]_canvasVars PROVE HandInv' /\ [NoDrag]_canvasVars
<1> USE DEF handVars, focusVars, viewVars, boardVars
<1>1. CASE SessionKnown \/ DashboardAnswer \/ DeskAnswer
  <2>1. Rendered
    BY <1>1 DEF SessionKnown, DashboardAnswer, DeskAnswer
  <2>2. /\ wired' => wired
        /\ \/ press' = press /\ fingers' = fingers /\ travel' = travel
           \/ press' = "up" /\ fingers' = 0 /\ travel' = 0
        /\ UNCHANGED <<focused, touch, suppress, lapse>>
    BY <2>1, Zenon DEF Rendered
  <2> QED
    BY <2>2, HandKeeps
<1>2. CASE \/ GuestLoads \/ FrameFocus \/ FocusMoves \/ Fullscreen
           \/ ZoomStep \/ Nudge \/ EdgeTick \/ CursorMoves
           \/ ToggleBoard \/ ToggleMod \/ UNCHANGED canvasVars
  <2>1. UNCHANGED <<focused, wired, press, fingers, touch, travel, suppress, lapse>>
    BY <1>2 DEF GuestLoads, FrameFocus, FocusMoves, Fullscreen, ZoomStep, Nudge, EdgeTick,
       CursorMoves, ToggleBoard, ToggleMod, Still, canvasVars
  <2> QED
    BY <2>1, HandKeeps
<1>3. CASE ControlButton
  <2>1. fingers = 0 /\ press = "up" /\ press' = "up" /\ fingers' = 0 /\ travel' = travel
    BY <1>3 DEF ControlButton, Enter, Exit, Free
  <2> QED
    BY <2>1, HandFree DEF HandInv
<1>4. CASE Escape
  <2>1. CASE EscapeHeard
    <3>1. /\ ~focused' /\ UNCHANGED <<press, fingers, touch, travel, suppress, lapse>>
          /\ ~focused => (wired' => wired)
      BY <1>4, <2>1, Zenon DEF Escape, Exit
    <3>2. CASE focused
      BY <3>1, <3>2, HandFree DEF HandInv
    <3>3. CASE ~focused
      BY <3>1, <3>3, HandKeeps
    <3> QED
      BY <3>2, <3>3
  <2>2. CASE ~EscapeHeard
    BY <1>4, <2>2, HandKeeps DEF Escape
  <2> QED
    BY <2>1, <2>2
<1>5. CASE MouseDown
  <2>1. /\ ~focused /\ ~focused' /\ fingers = 0 /\ fingers' = 0 /\ ~lapse /\ ~lapse'
        /\ press' = "held" /\ travel' = travel
    BY <1>5, Zenon DEF MouseDown
  <2> QED
    BY <2>1 DEF HandInv, NoDrag
<1>6. CASE MouseDrag
  <2>1. /\ press # "up" /\ UNCHANGED <<focused, wired, fingers, travel, lapse>>
        /\ wired => suppress'
    BY <1>6, Zenon DEF MouseDrag
  <2>2. ~focused /\ fingers = 0 /\ ~lapse
    BY <2>1 DEF HandInv
  <2> QED
    BY <2>1, <2>2 DEF HandInv, NoDrag
<1>7. CASE MouseUp
  <2>1. /\ press # "up" /\ press' = "up" /\ fingers' = fingers /\ travel' = travel
        /\ focused' /\ ~focused => ~suppress
    BY <1>7 DEF MouseUp, Enter
  <2>2. ~focused /\ fingers = 0 /\ (wired /\ press = "dragged" => suppress)
    BY <2>1 DEF HandInv
  <2>3. wired /\ ~focused /\ focused' => press # "dragged"
    BY <2>1, <2>2
  <2> QED
    BY <2>1, <2>2, <2>3 DEF HandInv, NoDrag
<1>8. CASE TouchStart
  <2>1. /\ ~focused /\ ~focused' /\ press = "up" /\ press' = "up"
        /\ fingers < 2 /\ fingers' = fingers + 1
        /\ travel' = travel
    BY <1>8 DEF TouchStart
  <2>2. fingers' \in {1, 2} /\ (travel' = 3 => fingers' = 2)
    BY <2>1 DEF HandInv
  <2> QED
    BY <2>1, <2>2 DEF HandInv, NoDrag
<1>9. CASE TouchMove
  <2>1. UNCHANGED <<focused, wired, press, fingers, lapse, suppress>> /\ fingers > 0
    BY <1>9 DEF TouchMove
  <2>2. wired /\ fingers = 1 /\ travel' = 3 => touch' # "still"
    <3>1. PICK far \in BOOLEAN :
            /\ travel' \in Farther(far)
            /\ touch' = IF wired /\ touch # "none" /\ Marks(far) THEN "moved" ELSE touch
      BY <1>9 DEF TouchMove
    <3>2. travel' = 3 => far \/ travel = 3
      BY <3>1 DEF Farther
    <3> QED
      BY <3>1, <3>2 DEF Marks, HandInv
  <2> QED
    BY <2>1, <2>2 DEF HandInv, NoDrag
<1>10. CASE TouchEnd
  <2>1. fingers > 0 /\ fingers \in {1, 2} /\ press = "up" /\ ~focused
    BY <1>10 DEF TouchEnd, HandInv
  <2>2. CASE Tap
    <3>1. press' = "up" /\ fingers' = 0 /\ travel' = 0
      BY <1>10, <2>2 DEF TouchEnd, Enter
    <3>2. wired => touch = "still"
      BY <2>2 DEF Tap
    <3> QED
      BY <2>1, <3>1, <3>2 DEF HandInv, NoDrag
  <2>3. CASE ~Tap
    <3>1. UNCHANGED <<focused, wired, press>> /\ fingers' = fingers - 1
          /\ (fingers' = 0 => travel' = 0)
          /\ (wired => touch' = "none")
      BY <1>10, <2>3 DEF TouchEnd
    <3>2. fingers' \in {0, 1}
      BY <2>1, <3>1
    <3> QED
      BY <2>1, <3>1, <3>2 DEF HandInv, NoDrag
  <2> QED
    BY <2>2, <2>3
<1>11. CASE TouchCancel
  <2>1. fingers' = 0 /\ travel' = 0 /\ UNCHANGED <<focused, wired, press, suppress, lapse>> /\ fingers > 0
    BY <1>11 DEF TouchCancel
  <2>2. press = "up"
    BY <2>1 DEF HandInv
  <2> QED
    BY <2>1, <2>2 DEF HandInv, NoDrag
<1>12. CASE SuppressLapses
  <2>1. lapse /\ ~lapse' /\ UNCHANGED <<focused, wired, press, touch, fingers, travel>>
    BY <1>12 DEF SuppressLapses
  <2>2. press = "up"
    BY <2>1 DEF HandInv
  <2> QED
    BY <2>1, <2>2 DEF HandInv, NoDrag
<1>13. CASE SendKey \/ SendCtrlAltDel
  <2>1. fingers = 0 /\ press = "up" /\ press' = "up" /\ fingers' = 0 /\ travel' = travel
    BY <1>13 DEF SendKey, SendCtrlAltDel, Typed, Enter, Free
  <2> QED
    BY <2>1, HandFree DEF HandInv
<1> QED
  BY <1>1, <1>2, <1>3, <1>4, <1>5, <1>6, <1>7, <1>8, <1>9, <1>10, <1>11, <1>12, <1>13
     DEF CanvasNext

\* A drag with the mouse, or with a finger that went beyond the slop in one
\* step, takes no control at its end, whatever fingers come and go (start, move
\* and end of the desktop page's touch listeners, suppressClickRef).
THEOREM DragsTakeNoControl == CanvasSpec => DragIsNoClick
<1>1. CanvasMount => HandInv
  BY DEF CanvasMount, HandInv
<1>2. HandInv /\ [CanvasNext]_canvasVars => HandInv' /\ [NoDrag]_canvasVars
  BY HandStep
<1>3. [][NoDrag]_canvasVars => DragIsNoClick
  BY PTL DEF NoDrag, DragIsNoClick
<1> QED
  BY <1>1, <1>2, <1>3, PTL DEF CanvasSpec

-----------------------------------------------------------------------------
\* A chat of this page is opened before the helper is asked on it.
ChatFirst ==
  /\ "here" \in opening => place = "home" /\ ~inline
  /\ place = "home" /\ ~inline => result = Nothing /\ ~asking /\ problem # "retry"

\* A page that is the chat shows nothing of a form.
LEMMA ChatFirstStep == ASSUME ChatFirst, [FormsNext]_formsVars PROVE ChatFirst'
<1> USE DEF ChatFirst, helperVars
<1>1. CASE Leave \/ ChatOpened
  <2>1. "here" \notin opening' /\ result' = Nothing /\ ~asking' /\ problem' = "none"
    BY <1>1 DEF Leave, Go, ChatOpened, Blank
  <2> QED
    BY <2>1
<1>2. CASE Submit \/ Retry \/ Answered
  BY <1>2 DEF Submit, Submitted, Retry, Answered
<1>3. CASE StartOver \/ OpenChat
  BY <1>3 DEF StartOver, OpenChat
<1>4. CASE ChatFailed
  BY <1>4 DEF ChatFailed, Submitted
<1>5. CASE UseThis \/ PickPlan \/ PlainInstead \/ Tick \/ Create \/ CreateFails
           \/ UNCHANGED formsVars
  BY <1>5 DEF UseThis, PickPlan, PlainInstead, Tick, Create, CreateFails, formsVars
<1>6. CASE Created
  <2>1. \/ "here" \notin opening' /\ place' = "progress"
        \/ UNCHANGED <<place, opening, asking, result, problem, inline>>
    BY <1>6 DEF Created
  <2> QED
    BY <2>1
<1> QED
  BY <1>1, <1>2, <1>3, <1>4, <1>5, <1>6 DEF FormsNext

\* The checkbox was ticked for the software that would be sent.
FormInv ==
  /\ pick \in [plan : Plans \cup {"none"}, recipe : Recipes \cup {Plain}]
  /\ ticked \in Recipes \cup {Plain}
  /\ creating \subseteq Calls
  /\ eula => ticked = Drafted.recipe
  /\ AcceptedWhatIsSent

\* Calls that are dropped with their page keep what the others promise.
LEMMA DroppedKeeps ==
  ASSUME NEW C \in SUBSET Calls
  PROVE  /\ Dropped(C) \subseteq Calls
         /\ \A d \in Dropped(C) : \E c \in C : d.what = c.what /\ d.ticked = c.ticked
<1>1. ASSUME NEW c \in C PROVE LET d == [c EXCEPT !.here = FALSE] IN
        d \in Calls /\ d.what = c.what /\ d.ticked = c.ticked
  BY <1>1 DEF Calls
<1> QED
  BY <1>1 DEF Dropped

\* Calls go with their page or end; the page they leave is new.
LEMMA FormKeeps ==
  ASSUME FormInv, creating' \subseteq Calls,
         \A d \in creating' : \E c \in creating : d.what = c.what /\ d.ticked = c.ticked,
         pick' \in [plan : Plans \cup {"none"}, recipe : Recipes \cup {Plain}],
         ticked' \in Recipes \cup {Plain},
         eula' => ticked' = Drafted'.recipe
  PROVE  FormInv'
BY DEF FormInv, AcceptedWhatIsSent

\* What is sent was accepted: a changed recipe takes the acceptance away.
LEMMA FormStep == ASSUME ChatFirst, FormInv, [FormsNext]_formsVars PROVE FormInv'
<1>0. /\ creating \in SUBSET Calls /\ ticked \in Recipes \cup {Plain}
      /\ pick \in [plan : Plans \cup {"none"}, recipe : Recipes \cup {Plain}]
      /\ Nothing \in [plan : Plans \cup {"none"}, recipe : Recipes \cup {Plain}]
  BY DEF FormInv, Nothing
\* A new page is blank.
<1>1. ASSUME Blank, NEW C \in SUBSET creating, creating' = Dropped(C) PROVE FormInv'
  <2>1. creating' \subseteq Calls /\ \A d \in creating' : \E c \in creating :
           d.what = c.what /\ d.ticked = c.ticked
    BY <1>0, <1>1, DroppedKeeps
  <2>2. pick' = Nothing /\ ticked' = Plain /\ ~eula'
    BY <1>1 DEF Blank
  <2> QED
    BY <1>0, <2>1, <2>2, FormKeeps
\* A page that stays, with the checkbox untouched or cleared.
<1>2. ASSUME UNCHANGED <<place, ticked>>, creating' \subseteq creating \/ creating' = Dropped(creating),
             \/ ~eula' /\ pick' \in [plan : Plans \cup {"none"}, recipe : Recipes \cup {Plain}]
             \/ eula' = (eula /\ place = "new") /\ UNCHANGED pick
             \/ UNCHANGED <<eula, pick, result>>
      PROVE FormInv'
  <2>1. creating' \subseteq Calls /\ \A d \in creating' : \E c \in creating :
           d.what = c.what /\ d.ticked = c.ticked
    BY <1>0, <1>2, DroppedKeeps
  <2>2. eula' => ticked' = Drafted'.recipe
    <3>1. CASE eula' = (eula /\ place = "new") /\ UNCHANGED pick
      BY <1>2, <3>1 DEF FormInv, Drafted
    <3>2. CASE UNCHANGED <<eula, pick, result>>
      BY <1>2, <3>2 DEF FormInv, Drafted, Suggested
    <3> QED
      BY <1>2, <3>1, <3>2
  <2> QED
    BY <1>0, <1>2, <2>1, <2>2, FormKeeps
<1>3. CASE Leave \/ ChatOpened
  BY <1>1, <1>3 DEF Leave, Go, ChatOpened
<1>4. CASE Submit
  BY <1>2, <1>4 DEF Submit, Submitted
<1>5. CASE Retry \/ OpenChat
  BY <1>2, <1>5 DEF Retry, OpenChat, formVars
<1>6. CASE Answered \/ StartOver
  BY <1>2, <1>6 DEF Answered, StartOver
<1>7. CASE ChatFailed
  <2>1. UNCHANGED <<place, ticked, pick, creating>>
        /\ \/ UNCHANGED <<result, eula>>
           \/ eula' = (eula /\ place = "new")
           \/ "here" \in opening /\ result' = Nothing /\ UNCHANGED eula
    BY <1>7 DEF ChatFailed, Submitted
  <2>2. CASE "here" \in opening /\ result' = Nothing /\ UNCHANGED eula
    <3>1. UNCHANGED result
      BY <2>2 DEF ChatFirst
    <3> QED
      BY <1>2, <2>1, <2>2, <3>1
  <2> QED
    BY <1>2, <2>1, <2>2
<1>8. CASE UseThis
  <2>1. pick' \in [plan : Plans \cup {"none"}, recipe : Recipes \cup {Plain}]
    BY <1>8 DEF UseThis, Suggested, Picks
  <2> QED
    BY <1>2, <1>8, <2>1 DEF UseThis
<1>9. CASE PickPlan
  <2>1. /\ pick' \in [plan : Plans \cup {"none"}, recipe : Recipes \cup {Plain}]
        /\ pick'.recipe = pick.recipe
    BY <1>0, <1>9 DEF PickPlan
  <2>2. eula' => ticked' = Drafted'.recipe
    BY <1>9, <2>1 DEF PickPlan, Drafted, FormInv
  <2> QED
    BY <1>0, <1>9, <2>1, <2>2, FormKeeps DEF PickPlan
<1>10. CASE PlainInstead
  <2>1. pick' \in [plan : Plans \cup {"none"}, recipe : Recipes \cup {Plain}]
    BY <1>0, <1>10 DEF PlainInstead
  <2> QED
    BY <1>2, <1>10, <2>1 DEF PlainInstead
<1>11. Drafted \in [plan : Plans \cup {"none"}, recipe : Recipes \cup {Plain}]
  BY <1>0 DEF Drafted, Suggested, Picks
<1>12. CASE Tick
  <2>1. Drafted' = Drafted
    BY <1>12 DEF Tick, helperVars, Drafted, Suggested
  <2>2. ticked' \in Recipes \cup {Plain} /\ (eula' => ticked' = Drafted.recipe)
    BY <1>11, <1>12 DEF Tick
  <2> QED
    BY <1>0, <1>12, <2>1, <2>2, FormKeeps DEF Tick
<1>13. CASE Create
  <2> DEFINE c == [what |-> Drafted, ticked |-> ticked, here |-> TRUE]
  <2>1. c \in Calls
    BY <1>0, <1>11, <1>13 DEF Create, Complete, Calls
  <2>2. c.what.recipe \in Licensed => c.ticked = c.what.recipe
    BY <1>13 DEF Create, Complete, FormInv
  <2>3. creating' = creating \cup {c} /\ UNCHANGED <<place, result, pick, ticked, eula>>
    BY <1>13 DEF Create, helperVars, formVars
  <2> HIDE DEF c
  <2>4. Drafted' = Drafted
    BY <2>3 DEF Drafted, Suggested
  <2> QED
    BY <2>1, <2>2, <2>3, <2>4 DEF FormInv, AcceptedWhatIsSent
<1>14. CASE Created
  <2>1. PICK c \in creating :
          \/ Blank /\ creating' = Dropped(creating \ {c})
          \/ creating' = creating \ {c} /\ UNCHANGED <<place, result, formVars>>
    BY <1>14 DEF Created
  <2> QED
    BY <1>1, <1>2, <2>1 DEF formVars
<1>15. CASE CreateFails \/ UNCHANGED formsVars
  BY <1>2, <1>15 DEF CreateFails, formsVars, helperVars, formVars
<1> QED
  BY <1>3, <1>4, <1>5, <1>6, <1>7, <1>8, <1>9, <1>10, <1>12, <1>13, <1>14, <1>15 DEF FormsNext

\* A request for software with a license is sent only with its acceptance, for any
\* recipes and whatever the answers and page changes in between (RequestForm,
\* the chat's card).
THEOREM LicensesAreAccepted == FormsSpec => []AcceptedWhatIsSent
<1>1. FormsMount => ChatFirst /\ FormInv
  BY DEF FormsMount, ChatFirst, FormInv, Nothing, AcceptedWhatIsSent
<1>2. ChatFirst /\ FormInv /\ [FormsNext]_formsVars => ChatFirst' /\ FormInv'
  BY ChatFirstStep, FormStep
<1>3. FormInv => AcceptedWhatIsSent
  BY DEF FormInv
<1> QED
  BY <1>1, <1>2, <1>3, PTL DEF FormsSpec

-----------------------------------------------------------------------------
(* The concierge *)

\* The fields of the plan table that sizes and rules look at.
LEMMA Table ==
  /\ AllPlans = 1 .. 6
  /\ PlanTable[1].cpu = 2 /\ PlanTable[2].cpu = 4 /\ PlanTable[3].cpu = 4
  /\ PlanTable[4].cpu = 8 /\ PlanTable[5].cpu = 2 /\ PlanTable[6].cpu = 4
  /\ \A p \in AllPlans : /\ PlanTable[p].cpu \in Nat
                         /\ PlanTable[p].memory \in Nat
                         /\ PlanTable[p].disk \in Nat
<1>1. AllPlans = 1 .. 6
  BY DEF AllPlans, PlanTable
<1>2. /\ PlanTable[1] = [Shape(2, 2, 20) EXCEPT !.technicalOnly = FALSE, !.vm = FALSE]
      /\ PlanTable[2] = [Shape(4, 4, 40) EXCEPT !.vm = FALSE, !.gpu = TRUE]
      /\ PlanTable[3] = Shape(4, 4, 40)
      /\ PlanTable[4] = Shape(8, 8, 80)
      /\ PlanTable[5] = [Shape(2, 2, 20) EXCEPT !.desktop = TRUE]
      /\ PlanTable[6] = [Shape(4, 4, 40) EXCEPT !.desktop = TRUE, !.available = FALSE]
  BY DEF PlanTable
<1>3. PlanTable[1].cpu = 2 /\ PlanTable[1].memory = 2 /\ PlanTable[1].disk = 20
  BY <1>2 DEF Shape
<1>4. PlanTable[2].cpu = 4 /\ PlanTable[2].memory = 4 /\ PlanTable[2].disk = 40
  BY <1>2 DEF Shape
<1>5. PlanTable[3].cpu = 4 /\ PlanTable[3].memory = 4 /\ PlanTable[3].disk = 40
  BY <1>2 DEF Shape
<1>6. PlanTable[4].cpu = 8 /\ PlanTable[4].memory = 8 /\ PlanTable[4].disk = 80
  BY <1>2 DEF Shape
<1>7. PlanTable[5].cpu = 2 /\ PlanTable[5].memory = 2 /\ PlanTable[5].disk = 20
  BY <1>2 DEF Shape
<1>8. PlanTable[6].cpu = 4 /\ PlanTable[6].memory = 4 /\ PlanTable[6].disk = 40
  BY <1>2 DEF Shape
<1> QED
  BY <1>1, <1>3, <1>4, <1>5, <1>6, <1>7, <1>8

\* A plan that no other undercuts exists among any plans.
LEMMA SmallestIsOne ==
  ASSUME NEW S \in SUBSET AllPlans, S # {}
  PROVE  Smallest(S) \in S
<1> DEFINE Least(p) == \A q \in S : \/ PlanTable[p].cpu < PlanTable[q].cpu
                                    \/ PlanTable[p].cpu = PlanTable[q].cpu /\ p <= q
<1>1. \E p \in S : Least(p)
  <2>1. S \subseteq 1 .. 6
    BY Table
  <2>2. CASE 1 \in S
    BY <2>1, <2>2, Table
  <2>3. CASE 1 \notin S /\ 5 \in S
    BY <2>1, <2>3, Table
  <2>4. CASE 1 \notin S /\ 5 \notin S /\ 2 \in S
    BY <2>1, <2>4, Table
  <2>5. CASE 1 \notin S /\ 5 \notin S /\ 2 \notin S /\ 3 \in S
    BY <2>1, <2>5, Table
  <2>6. CASE 1 \notin S /\ 5 \notin S /\ 2 \notin S /\ 3 \notin S /\ 6 \in S
    BY <2>1, <2>6, Table
  <2>7. CASE S \subseteq {4}
    <3>1. 4 \in S
      BY <2>7, S # {}
    <3> QED
      BY <2>7, <3>1, Table
  <2>8. \A p \in S : p = 1 \/ p = 2 \/ p = 3 \/ p = 4 \/ p = 5 \/ p = 6
    BY <2>1
  <2>9. \/ 1 \in S \/ 2 \in S \/ 3 \in S \/ 5 \in S \/ 6 \in S
        \/ S \subseteq {4}
    BY <2>8
  <2> HIDE DEF Least
  <2> QED
    BY <2>9, <2>2, <2>3, <2>4, <2>5, <2>6, <2>7
<1>2. Smallest(S) = CHOOSE p \in S : Least(p)
  BY DEF Smallest
<1> QED
  BY <1>1, <1>2

\* What the rules decide for answers that could be given.
LEMMA DecisionHolds ==
  ASSUME NEW a, NEW t, a.plan \in {NoPlan} \cup EligiblePlans(t),
         Decision(a, t).is = "suggested"
  PROVE  /\ Accepted(Decision(a, t).plan, Decision(a, t).recipe, t)
         /\ UseCase(a) # "learn" /\ a.planSure => AtLeast(Decision(a, t).plan, a.plan)
<1> DEFINE candidates == {p \in EligiblePlans(t) : Fits(p, a)}
           plan == Sized(a, t, candidates)
<1>1. candidates # {} /\ ~(a.planSure /\ a.plan = NoPlan) /\ plan # NoPlan
  <2>1. "suggested" \notin {"refused", "unsupported", "locked", "too_large"}
    OBVIOUS
  <2> QED
    BY <2>1 DEF Decision, No
<1>2. Decision(a, t).plan = plan /\ Decision(a, t).recipe = Software(a)
  <2>1. Decision(a, t) = [is |-> "suggested", plan |-> plan, recipe |-> Software(a),
                          warned |-> a.abuse = "review" \/ a.scraping]
    BY DEF Decision, No
  <2> QED
    BY <2>1
<1>3. EligiblePlans(t) \subseteq AllPlans /\ candidates \subseteq AllPlans
  BY DEF EligiblePlans
<1>4. /\ plan \in candidates
      /\ UseCase(a) # "learn" /\ a.planSure => AtLeast(plan, a.plan)
  <2>1. CASE ~(UseCase(a) # "learn" /\ a.planSure)
    <3>1. plan = Smallest(candidates)
      BY <2>1 DEF Sized
    <3> QED
      BY <1>1, <1>3, <2>1, <3>1, SmallestIsOne
  <2>2. CASE UseCase(a) # "learn" /\ a.planSure /\ Fits(a.plan, a)
    <3>1. plan = a.plan
      BY <2>2 DEF Sized
    <3>2. a.plan \in EligiblePlans(t)
      BY <1>1, <2>2
    <3>3. AtLeast(a.plan, a.plan)
      BY <1>3, <3>2, Table DEF AtLeast
    <3> QED
      BY <2>2, <3>1, <3>2, <3>3
  <2>3. CASE UseCase(a) # "learn" /\ a.planSure /\ ~Fits(a.plan, a)
    <3> DEFINE E == Enough(a.plan, candidates)
    <3>1. E # {} /\ plan = Smallest(E)
      BY <1>1, <2>3 DEF Sized
    <3>2. E \in SUBSET AllPlans /\ E \subseteq candidates
          /\ \A p \in E : AtLeast(p, a.plan)
      BY <1>3 DEF Enough
    <3> HIDE DEF E
    <3>3. plan \in E
      BY <3>1, <3>2, SmallestIsOne
    <3> QED
      BY <3>2, <3>3
  <2> QED
    BY <2>1, <2>2, <2>3
<1> HIDE DEF plan
<1>5. /\ plan \in AllPlans /\ PlanTable[plan].available
      /\ PlanTable[plan].technicalOnly => t = "technical"
      /\ Runs(plan, Software(a))
  BY <1>4 DEF EligiblePlans, Fits
<1> QED
  BY <1>2, <1>4, <1>5 DEF Accepted

\* The answers that are decided on are answers of the user's tier.
SuggestInv ==
  /\ step = "decide" => reply.plan \in {NoPlan} \cup EligiblePlans(tier)
  /\ step # "over" => outcome.is # "suggested"
  /\ SuggestionsHold

\* The steps of a suggestion keep the answers those of the tier.
LEMMA SuggestStep == ASSUME SuggestInv, [SuggestNext]_suggestVars PROVE SuggestInv'
<1>1. CASE AdmitSuggestion
  <2>1. step' = "first" /\ outcome' = No("none")
    BY <1>1 DEF AdmitSuggestion, Then
  <2>2. outcome'.is # "suggested"
    BY <2>1 DEF No
  <2> QED
    BY <2>1, <2>2 DEF SuggestInv, SuggestionsHold
<1>2. CASE AskFirst
  <2>1. step # "over" /\ UNCHANGED <<outcome, tier>>
    BY <1>2 DEF AskFirst
  <2>2. PICK a \in Answers(tier) : step' # "decide" \/ reply' = a
    <3>1. PICK a \in Answers(tier) :
            IF a.abuse # "refuse" /\ ~a.english /\ NeedsTranslation(a)
              THEN step' = "translate"
              ELSE step' = "decide" /\ reply' = a
      BY <1>2 DEF AskFirst, Then
    <3> QED
      BY <3>1
  <2>3. a.plan \in {NoPlan} \cup EligiblePlans(tier)
    BY DEF Answers
  <2>4. step' = "decide" => reply'.plan \in {NoPlan} \cup EligiblePlans(tier)
    BY <2>2, <2>3
  <2>5. EligiblePlans(tier)' = EligiblePlans(tier)
    BY <2>1 DEF EligiblePlans
  <2>6. outcome.is # "suggested"
    BY <2>1 DEF SuggestInv
  <2> QED
    BY <2>1, <2>4, <2>5, <2>6 DEF SuggestInv, SuggestionsHold
<1>3. CASE AskSecond
  <2>1. step # "over" /\ UNCHANGED <<outcome, tier>>
    BY <1>3 DEF AskSecond
  <2>2. PICK a \in Answers(tier) :
          reply' = [a EXCEPT !.abuse = IF @ = "none" THEN reply.abuse ELSE @,
                             !.scraping = @ \/ reply.scraping]
    BY <1>3 DEF AskSecond
  <2>3. a \in Replies /\ a.plan \in {NoPlan} \cup EligiblePlans(tier)
    BY DEF Answers
  <2>4. reply'.plan = a.plan
    BY <2>2, <2>3 DEF Replies
  <2>5. EligiblePlans(tier)' = EligiblePlans(tier)
    BY <2>1 DEF EligiblePlans
  <2> QED
    BY <2>1, <2>3, <2>4, <2>5 DEF SuggestInv, SuggestionsHold
<1>4. CASE Translate
  BY <1>4 DEF Translate, Then, SuggestInv, SuggestionsHold
<1>5. CASE Decide
  <2>1. /\ step' = "over" /\ UNCHANGED <<reply, tier>> /\ outcome' = Decision(reply, tier)
        /\ reply.plan \in {NoPlan} \cup EligiblePlans(tier)
    BY <1>5 DEF Decide, Then, SuggestInv
  <2>2. PICK a : a = reply
    OBVIOUS
  <2>3. PICK t : t = tier
    OBVIOUS
  <2>4. /\ reply' = a /\ tier' = t /\ outcome' = Decision(a, t)
        /\ a.plan \in {NoPlan} \cup EligiblePlans(t)
    BY <2>1, <2>2, <2>3
  <2>5. Decision(a, t).is = "suggested" =>
          /\ Accepted(Decision(a, t).plan, Decision(a, t).recipe, t)
          /\ UseCase(a) # "learn" /\ a.planSure => AtLeast(Decision(a, t).plan, a.plan)
    BY <2>4, DecisionHolds
  <2>6. SuggestionsHold'
    BY <2>4, <2>5 DEF SuggestionsHold
  <2> QED
    BY <2>1, <2>6 DEF SuggestInv
<1>6. CASE UpstreamFails \/ StaysRunning
  <2>1. step # "over" /\ step' = "over" /\ UNCHANGED outcome
    BY <1>6 DEF UpstreamFails, StaysRunning, Then
  <2> QED
    BY <2>1 DEF SuggestInv, SuggestionsHold
<1>7. CASE UNCHANGED suggestVars
  <2>1. UNCHANGED <<tier, step, reply, outcome>>
    BY <1>7 DEF suggestVars
  <2>2. EligiblePlans(tier)' = EligiblePlans(tier)
    BY <2>1 DEF EligiblePlans
  <2> QED
    BY <2>1, <2>2 DEF SuggestInv, SuggestionsHold
<1> QED
  BY <1>1, <1>2, <1>3, <1>4, <1>5, <1>6, <1>7 DEF SuggestNext

\* Every suggestion can be created by its user and is not too small, for any
\* software and any answers of the model (decideSuggestion, validateServerSetup).
THEOREM SuggestionsAreCreateable == SuggestSpec => []SuggestionsHold
<1>1. SuggestMount => SuggestInv
  BY DEF SuggestMount, SuggestInv, SuggestionsHold, No
<1>2. SuggestInv => SuggestionsHold
  BY DEF SuggestInv
<1>3. SuggestInv /\ [SuggestNext]_suggestVars => SuggestInv'
  BY SuggestStep
<1> QED
  BY <1>1, <1>2, <1>3, PTL DEF SuggestSpec

-----------------------------------------------------------------------------
(* The panel *)

\* What is known of a query: the fetch under way knows what is owed; without
\* one, data that is neither stale nor behind a failed fetch does, and on the
\* page stale data does too.
QueryHolds(q) ==
  /\ fetching[q] # Unread => fetching[q].n >= owed[q]
  /\ /\ fetching[q] = Unread /\ ~broken[q] /\ cache[q] # Unread
     /\ q \in Observed(page) \/ ~stale[q]
     => cache[q].n >= owed[q]

DataInv ==
  /\ server \in Readings /\ server.n >= 1
  /\ cache \in [Queries -> Readings] /\ fetching \in [Queries -> Readings]
  /\ DOMAIN stale = Queries
  /\ broken = [q \in Queries |-> broken[q]]
  /\ owed \in [Queries -> Nat]
  /\ \A q \in Queries : owed[q] <= server.n /\ QueryHolds(q)

CallHolds(c) == /\ c \in PanelCalls
                /\ c.at = "done" => c.read.n >= 1 /\ c.read.n <= server.n
CallInv == \A c \in calls : CallHolds(c)

PanelInv == DataInv /\ CallInv

\* Readings are numbered, and none has number 0.
LEMMA ReadingN == /\ \A r \in Readings : r.n \in Nat
                  /\ Unread \in Readings /\ Unread.n = 0
BY PanelAssumption DEF Readings, Unread

\* A step that only fetches what the server has, and ages or opens pages with
\* what is stale fetched again.
LEMMA Fetches ==
  ASSUME DataInv, UNCHANGED <<tour, cache, broken, owed>>,
         server' \in Readings, server'.n >= server.n,
         fetching' \in [Queries -> Readings], DOMAIN stale' = Queries,
         \A q \in Queries : fetching'[q] \in {server, fetching[q]},
         \A q \in Queries : fetching'[q] = Unread => fetching[q] = Unread,
         \A q \in Queries : stale[q] => stale'[q],
         \/ page' = page
         \/ /\ stale' = stale
            /\ \A q \in Observed(page)' :
                 fetching'[q] = Unread => cache[q] = Unread \/ ~stale[q]
  PROVE  DataInv'
<1>1. server.n \in Nat /\ server'.n \in Nat /\ \A q \in Queries : owed[q] \in Nat
  BY ReadingN DEF DataInv
<1>2. ASSUME NEW q \in Queries PROVE owed'[q] <= server'.n
  BY <1>1 DEF DataInv
<1>3. ASSUME NEW q \in Queries PROVE QueryHolds(q)'
  <2>1. QueryHolds(q) /\ owed[q] <= server.n
    BY DEF DataInv
  <2>2. fetching'[q] # Unread => fetching'[q].n >= owed'[q]
    BY <1>1, <2>1 DEF QueryHolds
  <2>3. ASSUME fetching'[q] = Unread, ~broken'[q], cache'[q] # Unread,
               q \in Observed(page)' \/ ~stale'[q]
        PROVE  cache'[q].n >= owed'[q]
    <3>1. fetching[q] = Unread /\ ~broken[q] /\ cache[q] # Unread
      BY <2>3
    <3>2. CASE page' = page
      <4>1. Observed(page)' = Observed(page)
        BY <3>2 DEF Observed
      <4>2. q \in Observed(page) \/ ~stale[q]
        BY <2>3, <4>1
      <4> QED
        BY <2>1, <3>1, <4>2 DEF QueryHolds
    <3>3. CASE page' # page
      <4>1. ~stale[q]
        BY <2>3, <3>3
      <4> QED
        BY <2>1, <3>1, <4>1 DEF QueryHolds
    <3> QED
      BY <3>2, <3>3
  <2> QED
    BY <2>2, <2>3 DEF QueryHolds
<1>4. /\ server'.n >= 1
      /\ cache' \in [Queries -> Readings] /\ owed' \in [Queries -> Nat]
  BY <1>1 DEF DataInv
<1>5. (broken = [q \in Queries |-> broken[q]])'
  BY DEF DataInv
<1>6. \A q \in Queries : (owed[q] <= server.n)' /\ QueryHolds(q)'
  BY <1>2, <1>3
<1> QED
  BY <1>4, <1>5, <1>6, Zenon DEF DataInv

\* Calls are sent, detached or forgotten.
LEMMA CallsKept ==
  ASSUME CallInv, server.n \in Nat, server'.n \in Nat, server'.n >= server.n,
         \A c \in calls' : \/ c \in calls \/ c \in Detached(calls)
                           \/ \E k \in Kinds : c = Call(k)
                           \/ CallHolds(c)'
  PROVE  CallInv'
<1> SUFFICES ASSUME NEW c \in calls' PROVE CallHolds(c)'
  BY DEF CallInv
<1>1. CASE c \in calls
  <2>1. CallHolds(c)
    BY <1>1 DEF CallInv
  <2>2. c.read.n \in Nat
    BY <2>1, ReadingN DEF CallHolds, PanelCalls
  <2> QED
    BY <2>1, <2>2 DEF CallHolds
<1>2. CASE c \in Detached(calls)
  <2>1. PICK d \in calls : c = [d EXCEPT !.here = FALSE]
    BY <1>2 DEF Detached
  <2>2. CallHolds(d)
    BY <2>1 DEF CallInv
  <2>3. d.read.n \in Nat
    BY <2>2, ReadingN DEF CallHolds, PanelCalls
  <2>4. c \in PanelCalls /\ c.at = d.at /\ c.read = d.read
    BY <2>1, <2>2 DEF CallHolds, PanelCalls
  <2> QED
    BY <2>2, <2>3, <2>4 DEF CallHolds
<1>3. CASE \E k \in Kinds : c = Call(k)
  <2>1. c \in PanelCalls /\ c.at = "sent"
    BY <1>3, ReadingN DEF Call, PanelCalls
  <2> QED
    BY <2>1 DEF CallHolds
<1> QED
  BY <1>1, <1>2, <1>3

\* What rendering does to the calls.
LEMMA RenderCalls ==
  ASSUME NEW p, NEW was, NEW rest \in SUBSET calls, Render(p, was, rest)
  PROVE  /\ page' = p
         /\ \A c \in calls' : \/ c \in calls \/ c \in Detached(calls)
                              \/ \E k \in Kinds : c = Call(k)
<1>1. page' = p
  BY DEF Render
<1>2. PICK A \in {rest, Detached(rest)}, B \in {{Call("start")}, {}} : calls' = A \cup B
  BY DEF Render
<1>3. Detached(rest) \subseteq Detached(calls)
  BY DEF Detached
<1>4. "start" \in Kinds
  BY DEF Kinds, Turns
<1> QED
  BY <1>1, <1>2, <1>3, <1>4

\* The same for a page that stays.
LEMMA RendersCalls ==
  ASSUME NEW rest \in SUBSET calls, Renders(rest)
  PROVE  /\ page' = page
         /\ \A c \in calls' : \/ c \in calls \/ c \in Detached(calls)
                              \/ \E k \in Kinds : c = Call(k)
<1>1. PICK p : p = page
  OBVIOUS
<1>2. PICK was : was = Mounted(page, cache, broken)
  OBVIOUS
<1>3. Render(p, was, rest)
  BY <1>1, <1>2 DEF Renders
<1> QED
  BY <1>1, <1>3, RenderCalls

\* What invalidating queries does to them.
LEMMA InvalidateQueries ==
  ASSUME DataInv, NEW Q \in SUBSET Queries, NEW data \in [Queries -> Readings],
         Invalidates(Q, data)
  PROVE  /\ fetching' \in [Queries -> Readings] /\ DOMAIN stale' = Queries
         /\ \A q \in Queries : fetching'[q] \in {server, fetching[q]}
         /\ \A q \in Queries : fetching'[q] = Unread => fetching[q] = Unread
         /\ \A q \in Queries : stale[q] => stale'[q]
         /\ \A q \in Q \cap Observed(page) : data[q] # Unread => fetching'[q] = server
         /\ \A q \in Q : data[q] # Unread => stale'[q]
         /\ \A q \in Q : data[q] # Unread => q \in Observed(page) \/ fetching'[q] = fetching[q]
<1>1. server # Unread /\ server \in Readings /\ fetching \in [Queries -> Readings]
  BY ReadingN DEF DataInv
<1>2. fetching' = [q \in Queries |->
        IF q \in Q \cap Observed(page) /\ (data[q] # Unread \/ fetching[q] = Unread)
        THEN server ELSE fetching[q]]
  BY DEF Invalidates, Refetched
<1>3. fetching' \in [Queries -> Readings]
  BY <1>1, <1>2
<1>4. DOMAIN stale' = Queries
  BY DEF Invalidates
<1>5. ASSUME NEW q \in Queries PROVE stale'[q] = (stale[q] \/ (q \in Q /\ data[q] # Unread))
  BY DEF Invalidates
<1>6. \A q \in Queries : stale[q] => stale'[q]
  BY <1>5, Zenon
<1>7. \A q \in Q : data[q] # Unread => stale'[q]
  BY <1>5, Zenon
<1> QED
  BY <1>1, <1>2, <1>3, <1>4, <1>6, <1>7

\* Steps that read the server, or change nothing but calls.
LEMMA PollKeeps ==
  ASSUME PanelInv, NEW q \in Queries, Poll(q) \/ ListRefetches
  PROVE  PanelInv'
<1>1. UNCHANGED <<tour, server, cache, stale, broken, owed, page, calls>>
  BY DEF Poll, ListRefetches, pageVars
<1>2. server # Unread /\ server \in Readings /\ server.n \in Nat
      /\ fetching \in [Queries -> Readings]
  BY ReadingN DEF PanelInv, DataInv
<1>3. /\ fetching' \in [Queries -> Readings]
      /\ \A r \in Queries : /\ fetching'[r] \in {server, fetching[r]}
                            /\ fetching'[r] = Unread => fetching[r] = Unread
  <2>1. CASE Poll(q)
    BY <1>2, <2>1 DEF Poll
  <2>2. CASE ListRefetches
    <3>1. fetching' = [r \in Queries |->
            IF r \in {"dashboard"} /\ (cache[r] # Unread \/ fetching[r] = Unread)
            THEN server ELSE fetching[r]]
      BY <2>2 DEF ListRefetches, Refetched
    <3> QED
      BY <1>2, <3>1
  <2> QED
    BY <2>1, <2>2
<1>4. DOMAIN stale' = Queries /\ server'.n >= server.n /\ \A r \in Queries : stale[r] => stale'[r]
  BY <1>1, <1>2 DEF PanelInv, DataInv
<1>5. DataInv'
  BY <1>1, <1>2, <1>3, <1>4, Fetches DEF PanelInv
<1>6. CallInv'
  BY <1>1, <1>2, <1>4, CallsKept DEF PanelInv
<1> QED
  BY <1>5, <1>6 DEF PanelInv

\* A fetch that lands knew what is owed.
LEMMA LandsKeeps ==
  ASSUME PanelInv, NEW q \in Queries, FetchLands(q)
  PROVE  PanelInv'
<1>1. UNCHANGED <<tour, server, owed>> /\ Renders(calls)
  BY DEF FetchLands
<1>2. /\ page' = page
      /\ \A c \in calls' : \/ c \in calls \/ c \in Detached(calls)
                           \/ \E k \in Kinds : c = Call(k)
  BY <1>1, RendersCalls
<1>3. server.n \in Nat
  BY ReadingN DEF PanelInv, DataInv
<1>4. CallInv'
  BY <1>1, <1>2, <1>3, CallsKept DEF PanelInv
<1>5. /\ fetching[q] # Unread
      /\ cache' = [cache EXCEPT ![q] = fetching[q]]
      /\ fetching' = [fetching EXCEPT ![q] = Unread]
      /\ stale' = [stale EXCEPT ![q] = FALSE]
      /\ broken' = [broken EXCEPT ![q] = FALSE]
  BY DEF FetchLands
<1>6. /\ cache' \in [Queries -> Readings] /\ fetching' \in [Queries -> Readings]
      /\ DOMAIN stale' = Queries
  BY <1>5, ReadingN DEF PanelInv, DataInv
<1>7. broken' = [r \in Queries |-> broken'[r]]
  BY <1>5 DEF PanelInv, DataInv
<1>8. Observed(page)' = Observed(page)
  BY <1>1, <1>2 DEF Observed
<1>9. ASSUME NEW r \in Queries PROVE QueryHolds(r)'
  <2>1. QueryHolds(r)
    BY DEF PanelInv, DataInv
  <2>2. CASE r = q
    BY <1>1, <1>5, <2>1, <2>2 DEF QueryHolds, PanelInv, DataInv
  <2>3. CASE r # q
    <3>1. /\ cache'[r] = cache[r] /\ fetching'[r] = fetching[r]
          /\ stale'[r] = stale[r] /\ owed'[r] = owed[r]
      BY <1>1, <1>5, <2>3 DEF PanelInv, DataInv
    <3>2. broken'[r] = broken[r]
      BY <1>5, <2>3 DEF PanelInv, DataInv
    <3> QED
      BY <1>8, <2>1, <3>1, <3>2 DEF QueryHolds
  <2> QED
    BY <2>2, <2>3
<1>10. /\ (server \in Readings /\ server.n >= 1)' /\ (owed \in [Queries -> Nat])'
       /\ \A r \in Queries : (owed[r] <= server.n)'
  BY <1>1 DEF PanelInv, DataInv
<1>11. DataInv'
  BY <1>6, <1>7, <1>9, <1>10, Zenon DEF DataInv
<1> QED
  BY <1>4, <1>11 DEF PanelInv

\* A fetch that fails leaves its query broken and stale.
LEMMA FailsKeeps ==
  ASSUME PanelInv, NEW q \in Queries, FetchFails(q)
  PROVE  PanelInv'
<1>1. UNCHANGED <<tour, server, owed, cache>> /\ Renders(calls)
  BY DEF FetchFails
<1>2. /\ page' = page
      /\ \A c \in calls' : \/ c \in calls \/ c \in Detached(calls)
                           \/ \E k \in Kinds : c = Call(k)
  BY <1>1, RendersCalls
<1>3. server.n \in Nat
  BY ReadingN DEF PanelInv, DataInv
<1>4. CallInv'
  BY <1>1, <1>2, <1>3, CallsKept DEF PanelInv
<1>5. /\ fetching' = [fetching EXCEPT ![q] = Unread]
      /\ stale' = [stale EXCEPT ![q] = TRUE]
      /\ broken' = [broken EXCEPT ![q] = TRUE]
  BY DEF FetchFails
<1>6. /\ cache' \in [Queries -> Readings] /\ fetching' \in [Queries -> Readings]
      /\ DOMAIN stale' = Queries
  BY <1>1, <1>5, ReadingN DEF PanelInv, DataInv
<1>7. broken' = [r \in Queries |-> broken'[r]]
  BY <1>5 DEF PanelInv, DataInv
<1>8. Observed(page)' = Observed(page)
  BY <1>1, <1>2 DEF Observed
<1>9. ASSUME NEW r \in Queries PROVE QueryHolds(r)'
  <2>1. QueryHolds(r)
    BY DEF PanelInv, DataInv
  <2>2. CASE r = q
    <3>1. fetching'[r] = Unread
      BY <1>5, <2>2 DEF PanelInv, DataInv
    <3>2. broken'[r]
      BY <1>5, <2>2 DEF PanelInv, DataInv
    <3> QED
      BY <3>1, <3>2 DEF QueryHolds
  <2>3. CASE r # q
    <3>1. /\ cache'[r] = cache[r] /\ fetching'[r] = fetching[r]
          /\ stale'[r] = stale[r] /\ owed'[r] = owed[r]
      BY <1>1, <1>5, <2>3 DEF PanelInv, DataInv
    <3>2. broken'[r] = broken[r]
      BY <1>5, <2>3 DEF PanelInv, DataInv
    <3> QED
      BY <1>8, <2>1, <3>1, <3>2 DEF QueryHolds
  <2> QED
    BY <2>2, <2>3
<1>10. /\ (server \in Readings /\ server.n >= 1)' /\ (owed \in [Queries -> Nat])'
       /\ \A r \in Queries : (owed[r] <= server.n)'
  BY <1>1 DEF PanelInv, DataInv
<1>11. DataInv'
  BY <1>6, <1>7, <1>9, <1>10, Zenon DEF DataInv
<1> QED
  BY <1>4, <1>11 DEF PanelInv

\* Another persona is owed nothing yet.
LEMMA SwitchKeeps == ASSUME PanelInv, SwitchPersona PROVE PanelInv'
<1>1. UNCHANGED <<tour, server>> /\ Render("list", FALSE, calls)
  BY DEF SwitchPersona
<1>2. \A c \in calls' : \/ c \in calls \/ c \in Detached(calls)
                        \/ \E k \in Kinds : c = Call(k)
  BY <1>1, RenderCalls
<1>3. server.n \in Nat /\ server.n >= 1 /\ server \in Readings
  BY ReadingN DEF PanelInv, DataInv
<1>4. CallInv'
  BY <1>1, <1>2, <1>3, CallsKept DEF PanelInv
<1>5. /\ cache' = [q \in Queries |-> Unread]
      /\ fetching' = [q \in Queries |-> IF q \in Observed("list") THEN server ELSE Unread]
      /\ owed' = [q \in Queries |-> 0]
      /\ DOMAIN stale' = Queries
  BY DEF SwitchPersona
<1>6. broken' = [q \in Queries |-> broken'[q]]
  BY DEF SwitchPersona
<1>7. ASSUME NEW q \in Queries PROVE QueryHolds(q)'
  <2>1. cache'[q] = Unread /\ owed'[q] = 0 /\ fetching'[q] \in {server, Unread}
    BY <1>5
  <2> QED
    BY <1>3, <2>1 DEF QueryHolds
<1>8. /\ cache' \in [Queries -> Readings] /\ fetching' \in [Queries -> Readings]
      /\ owed' \in [Queries -> Nat]
      /\ \A q \in Queries : (owed[q] <= server.n)'
      /\ (server \in Readings /\ server.n >= 1)'
  BY <1>1, <1>3, <1>5, ReadingN
<1>9. DOMAIN stale' = Queries
  BY <1>5
<1>10. DataInv'
  BY <1>6, <1>7, <1>8, <1>9, Zenon DEF DataInv
<1> QED
  BY <1>4, <1>10 DEF PanelInv

\* A page that opens fetches what is stale.
LEMMA OpensKeeps == ASSUME PanelInv, NEW p, Opens(p) PROVE PanelInv'
<1>1. UNCHANGED <<tour, server, cache, stale, broken, owed>> /\ Render(p, FALSE, calls)
  BY DEF Opens
<1>2. /\ page' = p
      /\ \A c \in calls' : \/ c \in calls \/ c \in Detached(calls)
                           \/ \E k \in Kinds : c = Call(k)
  BY <1>1, RenderCalls
<1>3. server # Unread /\ server \in Readings /\ server.n \in Nat
      /\ fetching \in [Queries -> Readings]
  BY ReadingN DEF PanelInv, DataInv
<1>4. CallInv'
  BY <1>1, <1>2, <1>3, CallsKept DEF PanelInv
<1>5. PICK aged : fetching' = [q \in Queries |->
        IF /\ q \in Observed(p) /\ fetching[q] = Unread
           /\ cache[q] = Unread \/ stale[q] \/ q \in aged
        THEN server ELSE fetching[q]]
  BY DEF Opens, Opened
<1>6. /\ fetching' \in [Queries -> Readings]
      /\ \A q \in Queries : /\ fetching'[q] \in {server, fetching[q]}
                            /\ fetching'[q] = Unread => fetching[q] = Unread
      /\ \A q \in Observed(p) : fetching'[q] = Unread => cache[q] = Unread \/ ~stale[q]
  BY <1>3, <1>5 DEF Observed
<1>7. Observed(page)' = Observed(p)
  BY <1>1, <1>2 DEF Observed
<1>8. DOMAIN stale' = Queries /\ server'.n >= server.n /\ \A q \in Queries : stale[q] => stale'[q]
  BY <1>1, <1>3 DEF PanelInv, DataInv
<1>9. \A q \in Observed(page)' : fetching'[q] = Unread => cache[q] = Unread \/ ~stale[q]
  BY <1>6, <1>7
<1>10. DataInv'
  BY <1>1, <1>3, <1>6, <1>8, <1>9, Fetches DEF PanelInv
<1> QED
  BY <1>4, <1>10 DEF PanelInv

\* Buttons change nothing but the components and send calls.
LEMMA ButtonKeeps ==
  ASSUME PanelInv, UNCHANGED <<tour, server, cache, fetching, stale, broken, owed, page>>,
         \/ UNCHANGED calls
         \/ \E k \in Kinds : calls' = calls \cup {Call(k)}
  PROVE  PanelInv'
<1>1. server \in Readings /\ server.n \in Nat
  BY ReadingN DEF PanelInv, DataInv
<1>2. CallInv'
  <2>1. \A c \in calls' : \/ c \in calls \/ c \in Detached(calls)
                          \/ \E k \in Kinds : c = Call(k)
    OBVIOUS
  <2> QED
    BY <1>1, <2>1, CallsKept DEF PanelInv
<1>3. /\ fetching' \in [Queries -> Readings] /\ DOMAIN stale' = Queries
      /\ \A q \in Queries : /\ fetching'[q] \in {server, fetching[q]}
                            /\ fetching'[q] = Unread => fetching[q] = Unread
                            /\ stale[q] => stale'[q]
      /\ server' \in Readings /\ server'.n >= server.n
  BY <1>1 DEF PanelInv, DataInv
<1>4. DataInv'
  BY <1>3, Fetches DEF PanelInv
<1> QED
  BY <1>2, <1>4 DEF PanelInv

\* The server goes on, and a call with it.
LEMMA ServerKeeps ==
  ASSUME PanelInv, UNCHANGED <<tour, cache, fetching, stale, broken, owed, page>>,
         server' \in Readings, server'.n >= server.n,
         \A c \in calls' : c \in calls \/ CallHolds(c)'
  PROVE  PanelInv'
<1>1. server.n \in Nat /\ server'.n \in Nat
  BY ReadingN DEF PanelInv, DataInv
<1>2. CallInv'
  BY <1>1, CallsKept DEF PanelInv
<1>3. /\ fetching' \in [Queries -> Readings] /\ DOMAIN stale' = Queries
      /\ \A q \in Queries : /\ fetching'[q] \in {server, fetching[q]}
                            /\ fetching'[q] = Unread => fetching[q] = Unread
                            /\ stale[q] => stale'[q]
  BY DEF PanelInv, DataInv
<1>4. DataInv'
  BY <1>3, Fetches DEF PanelInv
<1> QED
  BY <1>2, <1>4 DEF PanelInv

\* A change of the server, and its answer.
LEMMA ChangesKeeps ==
  ASSUME PanelInv, NEW c \in calls, NEW s \in Readings, Changes(c, s)
  PROVE  /\ server' \in Readings /\ server'.n >= server.n
         /\ \A d \in calls' : d \in calls \/ CallHolds(d)'
<1>1. server.n \in Nat /\ server.n >= 1 /\ c \in PanelCalls
  BY ReadingN DEF PanelInv, DataInv, CallInv, CallHolds
<1>2. /\ server.n <= MaxMoves /\ server' = [s EXCEPT !.n = server.n + 1]
      /\ calls' = (calls \ {c}) \cup {[c EXCEPT !.at = "done", !.read = server']}
  BY DEF Changes
<1>3. MaxMoves \in Nat
  BY PanelAssumption
<1>4. server' \in Readings /\ server'.n = server.n + 1
  BY <1>1, <1>2, <1>3 DEF Readings
<1> DEFINE d == [c EXCEPT !.at = "done", !.read = server']
<1>5. d \in PanelCalls /\ d.read = server'
  BY <1>1, <1>4 DEF PanelCalls
<1>6. d.read.n >= 1 /\ d.read.n <= server'.n
  BY <1>1, <1>4, <1>5
<1> HIDE DEF d
<1>7. \A e \in calls' : e \in calls \/ e = d
  BY <1>2 DEF d
<1>8. ASSUME NEW e \in calls', e \notin calls PROVE CallHolds(e)'
  BY <1>5, <1>6, <1>7, <1>8 DEF CallHolds
<1> QED
  BY <1>1, <1>4, <1>8

\* An answer that changes nothing, and a refusal.
LEMMA KeepsKeeps ==
  ASSUME PanelInv, NEW c \in calls, Keeps(c) \/ Refuses(c)
  PROVE  /\ server' \in Readings /\ server'.n >= server.n
         /\ \A d \in calls' : d \in calls \/ CallHolds(d)'
<1>1. server.n \in Nat /\ server.n >= 1 /\ c \in PanelCalls /\ server \in Readings
  BY ReadingN DEF PanelInv, DataInv, CallInv, CallHolds
<1>2. UNCHANGED server
  BY DEF Keeps, Refuses
<1>3. ASSUME NEW e \in calls', e \notin calls PROVE CallHolds(e)'
  <2>1. CASE Keeps(c)
    <3>1. e = [c EXCEPT !.at = "done", !.read = server]
      BY <1>3, <2>1 DEF Keeps
    <3>2. e \in PanelCalls /\ e.read = server
      BY <1>1, <3>1 DEF PanelCalls
    <3> QED
      BY <1>1, <1>2, <3>2 DEF CallHolds
  <2>2. CASE Refuses(c)
    <3>1. e = [c EXCEPT !.at = "refused"]
      BY <1>3, <2>2 DEF Refuses
    <3>2. e \in PanelCalls /\ e.at = "refused"
      BY <1>1, <3>1 DEF PanelCalls
    <3> QED
      BY <3>2 DEF CallHolds
  <2> QED
    BY <2>1, <2>2
<1> QED
  BY <1>1, <1>2, <1>3

\* Every call is answered by one change, none, or a refusal.
LEMMA ServesKeeps == ASSUME PanelInv, NEW c \in calls, Serves(c) PROVE PanelInv'
<1>1. UNCHANGED <<tour, cache, fetching, stale, broken, owed, page>>
  BY DEF Serves, fetchVars, pageVars
<1>2. server.n \in Nat /\ server.n >= 1 /\ server \in Readings /\ c \in PanelCalls
  BY ReadingN DEF PanelInv, DataInv, CallInv, CallHolds
<1>3. /\ server' \in Readings /\ server'.n >= server.n
      /\ \A d \in calls' : d \in calls \/ CallHolds(d)'
  <2>1. CASE Keeps(c) \/ Refuses(c)
    BY <2>1, KeepsKeeps
  <2>2. ASSUME NEW s \in Readings, Changes(c, s)
        PROVE  /\ server' \in Readings /\ server'.n >= server.n
               /\ \A d \in calls' : d \in calls \/ CallHolds(d)'
    BY <2>2, ChangesKeeps
  <2>3. CASE CreateServed(c)
    <3>1. [server EXCEPT !.status = "pending_approval"] \in Readings
      BY <1>2 DEF Readings
    <3>2. \/ Changes(c, [server EXCEPT !.status = "pending_approval"])
          \/ Keeps(c) \/ Refuses(c)
      BY <2>3 DEF CreateServed
    <3>3. CASE Changes(c, [server EXCEPT !.status = "pending_approval"])
      <4>1. PICK s \in Readings : s = [server EXCEPT !.status = "pending_approval"]
        BY <3>1
      <4>2. Changes(c, s)
        BY <3>3, <4>1 DEF Changes
      <4> QED
        BY <2>2, <4>2
    <3> QED
      BY <2>1, <3>2, <3>3
  <2>4. CASE CancelServed(c)
    <3>1. [server EXCEPT !.status = "deleted"] \in Readings
      BY <1>2 DEF Readings
    <3>2. Changes(c, [server EXCEPT !.status = "deleted"]) \/ Refuses(c)
      BY <2>4 DEF CancelServed
    <3>3. CASE Changes(c, [server EXCEPT !.status = "deleted"])
      <4>1. PICK s \in Readings : s = [server EXCEPT !.status = "deleted"]
        BY <3>1
      <4>2. Changes(c, s)
        BY <3>3, <4>1 DEF Changes
      <4> QED
        BY <2>2, <4>2
    <3> QED
      BY <2>1, <3>2, <3>3
  <2>5. CASE PowerServed(c)
    BY <2>1, <2>5 DEF PowerServed
  <2>6. CASE DecideServed(c)
    <3> DEFINE t == IF c.kind = "approve" THEN "approved" ELSE "rejected"
    <3>1. [server EXCEPT !.status = t] \in Readings
      BY <1>2 DEF Readings
    <3>2. Changes(c, [server EXCEPT !.status = t]) \/ Refuses(c)
      BY <2>6 DEF DecideServed
    <3>3. CASE Changes(c, [server EXCEPT !.status = t])
      <4>1. PICK s \in Readings : s = [server EXCEPT !.status = t]
        BY <3>1
      <4>2. Changes(c, s)
        BY <3>3, <4>1 DEF Changes
      <4> QED
        BY <2>2, <4>2
    <3> QED
      BY <2>1, <3>2, <3>3
  <2>7. CASE RetryServed(c)
    <3>1. [server EXCEPT !.setup = "pending"] \in Readings
      BY <1>2 DEF Readings
    <3>2. Changes(c, [server EXCEPT !.setup = "pending"]) \/ Refuses(c)
      BY <2>7 DEF RetryServed
    <3>3. CASE Changes(c, [server EXCEPT !.setup = "pending"])
      <4>1. PICK s \in Readings : s = [server EXCEPT !.setup = "pending"]
        BY <3>1
      <4>2. Changes(c, s)
        BY <3>3, <4>1 DEF Changes
      <4> QED
        BY <2>2, <4>2
    <3> QED
      BY <2>1, <3>2, <3>3
  <2>8. CASE TurnServed(c)
    <3>1. CASE ~Refuses(c)
      <4>1. /\ server.n <= MaxMoves
            /\ server' = [server EXCEPT !.talk = "running", !.n = server.n + 1]
            /\ calls' = (calls \ {c}) \cup {[c EXCEPT !.at = "works"]}
        BY <2>8, <3>1 DEF TurnServed
      <4>2. server' \in Readings /\ server'.n = server.n + 1
        <5> DEFINE s == [server EXCEPT !.talk = "running"]
        <5>1. s \in Readings
          BY <1>2 DEF Readings
        <5>2. server' = [s EXCEPT !.n = server.n + 1]
          BY <1>2, <4>1 DEF Readings
        <5> HIDE DEF s
        <5> QED
          BY <1>2, <4>1, <5>1, <5>2, PanelAssumption DEF Readings
      <4>3. ASSUME NEW e \in calls', e \notin calls PROVE CallHolds(e)'
        <5>1. e = [c EXCEPT !.at = "works"]
          BY <4>1, <4>3
        <5>2. e \in PanelCalls /\ e.at = "works"
          BY <1>2, <5>1 DEF PanelCalls
        <5> QED
          BY <5>2 DEF CallHolds
      <4> QED
        BY <1>2, <4>2, <4>3
    <3> QED
      BY <2>1, <3>1
  <2> QED
    BY <2>3, <2>4, <2>5, <2>6, <2>7, <2>8 DEF Serves
<1> QED
  BY <1>1, <1>3, ServerKeeps

\* A turn ends with a second change.
LEMMA TurnEndsKeeps == ASSUME PanelInv, NEW c \in calls, TurnEnds(c) PROVE PanelInv'
<1>1. UNCHANGED <<tour, cache, fetching, stale, broken, owed, page>>
  BY DEF TurnEnds, fetchVars, pageVars
<1>2. PICK s \in Readings : s = [server EXCEPT !.talk = "idle"]
  <2>1. [server EXCEPT !.talk = "idle"] \in Readings
    BY DEF PanelInv, DataInv, Readings
  <2> QED
    BY <2>1
<1>3. Changes(c, s)
  BY <1>2 DEF TurnEnds, Changes
<1> QED
  BY <1>1, <1>3, ChangesKeeps, ServerKeeps

\* The worker and other tabs only move the server on.
LEMMA OthersKeeps == ASSUME PanelInv, OthersChange PROVE PanelInv'
<1>1. UNCHANGED <<tour, cache, fetching, stale, broken, owed, page, calls>>
  BY DEF OthersChange, fetchVars, pageVars
<1>2. server.n \in Nat /\ server.n >= 1 /\ server \in Readings /\ server.n <= MaxMoves
  BY ReadingN DEF PanelInv, DataInv, OthersChange
<1>3. PICK s \in Steps(server) : server' = [s EXCEPT !.n = server.n + 1]
  BY DEF OthersChange
<1>4. s \in Readings
  <2>1. CASE \E t \in {"approved", "rejected", "running", "stopped", "deleted"} :
               s = [server EXCEPT !.status = t]
    BY <1>2, <2>1 DEF Readings
  <2>2. CASE \E t \in {"done", "failed"} : s = [server EXCEPT !.setup = t]
    BY <1>2, <2>2 DEF Readings
  <2>3. CASE s = [server EXCEPT !.talk = "idle"]
    BY <1>2, <2>3 DEF Readings
  <2> QED
    BY <1>3, <2>1, <2>2, <2>3 DEF Steps
<1>5. server' \in Readings /\ server'.n >= server.n
  BY <1>2, <1>3, <1>4, PanelAssumption DEF Readings
<1> QED
  BY <1>1, <1>5, ServerKeeps

\* An answer that is put into the cache, invalidates and is owed.
LEMMA AnswerHolds ==
  ASSUME DataInv, UNCHANGED <<tour, server, page>>,
         NEW Q \in SUBSET Queries, NEW data \in [Queries -> Readings],
         NEW n \in Nat, n <= server.n,
         Invalidates(Q, data), Owes(Q, data, n),
         cache' \in [Queries -> Readings], (broken = [q \in Queries |-> broken[q]])',
         \A q \in Queries : \/ cache'[q] = cache[q] /\ (broken[q] => broken'[q])
                            \/ q \in Q /\ data[q] # Unread
  PROVE  DataInv'
<1>1. /\ fetching' \in [Queries -> Readings] /\ DOMAIN stale' = Queries
      /\ \A q \in Queries : fetching'[q] \in {server, fetching[q]}
      /\ \A q \in Queries : fetching'[q] = Unread => fetching[q] = Unread
      /\ \A q \in Queries : stale[q] => stale'[q]
      /\ \A q \in Q \cap Observed(page) : data[q] # Unread => fetching'[q] = server
      /\ \A q \in Q : data[q] # Unread => stale'[q]
      /\ \A q \in Q : data[q] # Unread => q \in Observed(page) \/ fetching'[q] = fetching[q]
  BY InvalidateQueries
<1>2. server # Unread /\ server \in Readings /\ server.n \in Nat
      /\ \A q \in Queries : owed[q] \in Nat /\ owed[q] <= server.n
  BY ReadingN DEF DataInv
<1>3. owed' = [q \in Queries |->
        IF q \in Q \cap Observed(page) /\ data[q] # Unread /\ n > owed[q]
        THEN n ELSE owed[q]]
  BY DEF Owes
<1>4. /\ owed' \in [Queries -> Nat]
      /\ \A q \in Queries : owed'[q] <= server.n
      /\ \A q \in Queries : \/ owed'[q] = owed[q]
                            \/ q \in Q \cap Observed(page) /\ data[q] # Unread
  BY <1>2, <1>3
<1>5. Observed(page)' = Observed(page)
  BY DEF Observed
<1>6. ASSUME NEW q \in Queries PROVE QueryHolds(q)'
  <2>1. QueryHolds(q)
    BY DEF DataInv
  <2>2. CASE q \in Q /\ data[q] # Unread /\ q \in Observed(page)
    <3>1. fetching'[q] = server /\ owed'[q] <= server.n /\ owed'[q] \in Nat
      BY <1>1, <1>4, <2>2
    <3> QED
      BY <1>2, <3>1 DEF QueryHolds
  <2>3. CASE q \in Q /\ data[q] # Unread /\ q \notin Observed(page)
    <3>1. fetching'[q] = fetching[q] /\ owed'[q] = owed[q] /\ stale'[q]
      BY <1>1, <1>4, <2>3
    <3> QED
      BY <1>5, <2>1, <2>3, <3>1 DEF QueryHolds
  <2>4. CASE ~(q \in Q /\ data[q] # Unread)
    <3>1. /\ owed'[q] = owed[q] /\ cache'[q] = cache[q]
          /\ broken[q] => broken'[q]
          /\ stale[q] => stale'[q]
          /\ fetching'[q] \in {server, fetching[q]}
          /\ fetching'[q] = Unread => fetching[q] = Unread
      BY <1>1, <1>4, <2>4
    <3>2. fetching'[q] # Unread => fetching'[q].n >= owed'[q]
      BY <1>2, <2>1, <3>1 DEF QueryHolds
    <3>3. fetching'[q] = Unread /\ ~broken'[q] /\ cache'[q] # Unread
          /\ (q \in Observed(page) \/ ~stale'[q]) => cache'[q].n >= owed'[q]
      BY <2>1, <3>1 DEF QueryHolds
    <3> QED
      BY <1>5, <3>2, <3>3 DEF QueryHolds
  <2> QED
    BY <2>2, <2>3, <2>4
<1>7. (server \in Readings /\ server.n >= 1)' /\ \A q \in Queries : (owed[q] <= server.n)'
  BY <1>4 DEF DataInv
<1> QED
  BY <1>1, <1>4, <1>6, <1>7, Zenon DEF DataInv

\* The answers of the buttons, which invalidate every query.
LEMMA SucceedsKeeps == ASSUME PanelInv, NEW c \in calls, Succeeds(c) PROVE PanelInv'
<1>1. /\ UNCHANGED <<tour, server>> /\ c.at = "done"
      /\ cache' = Upserted(c) /\ Invalidates(Queries, cache) /\ Owes(Queries, cache, c.read.n)
      /\ broken' = [broken EXCEPT !["dashboard"] = @ /\ cache' = cache]
  BY DEF Succeeds
<1>2. /\ c.read \in Readings /\ c.read.n \in Nat /\ c.read.n <= server.n
      /\ server.n \in Nat
  BY <1>1, ReadingN DEF PanelInv, DataInv, CallInv, CallHolds, PanelCalls
<1>3. /\ page' = page
      /\ \A d \in calls' : \/ d \in calls \/ d \in Detached(calls)
                           \/ \E k \in Kinds : d = Call(k)
  <2>1. CASE c.kind = "cancel" /\ c.here
    <3>1. page' = page /\ calls' = calls \ {c}
      BY <2>1 DEF Succeeds
    <3> QED
      BY <3>1
  <2>2. CASE ~(c.kind = "cancel" /\ c.here)
    <3>1. Renders(calls \ {c})
      BY <2>2 DEF Succeeds
    <3>2. PICK rest \in SUBSET calls : rest = calls \ {c}
      OBVIOUS
    <3>3. Renders(rest)
      BY <3>1, <3>2
    <3> QED
      BY <3>3, RendersCalls
  <2> QED
    BY <2>1, <2>2
<1>4. CallInv'
  BY <1>1, <1>2, <1>3, CallsKept DEF PanelInv
<1>5. "dashboard" \in Queries
  BY DEF Queries
<1>6. /\ cache' \in [Queries -> Readings]
      /\ \A q \in Queries : cache'[q] = cache[q] \/ (q = "dashboard" /\ cache[q] # Unread)
      /\ cache["dashboard"] = Unread => cache' = cache
  BY <1>1, <1>2, <1>5 DEF Upserted, PanelInv, DataInv
<1>7. /\ broken' = [q \in Queries |-> broken'[q]]
      /\ \A q \in Queries : (q # "dashboard" \/ cache' = cache) => (broken[q] => broken'[q])
  BY <1>1, <1>5 DEF PanelInv, DataInv
<1>8. \A q \in Queries : \/ cache'[q] = cache[q] /\ (broken[q] => broken'[q])
                         \/ q \in Queries /\ cache[q] # Unread
  BY <1>6, <1>7
<1>9. cache \in [Queries -> Readings]
  BY DEF PanelInv, DataInv
<1>10. PICK data \in [Queries -> Readings] : data = cache
  BY <1>9
<1>11. PICK n \in Nat : n = c.read.n /\ n <= server.n
  BY <1>2
<1>12. Invalidates(Queries, data) /\ Owes(Queries, data, n)
  BY <1>1, <1>10, <1>11
<1>13. DataInv'
  BY <1>1, <1>3, <1>6, <1>7, <1>8, <1>10, <1>11, <1>12, AnswerHolds DEF PanelInv
<1> QED
  BY <1>4, <1>13 DEF PanelInv

\* The answer of a turn, which is the conversation.
LEMMA TurnAnsweredKeeps == ASSUME PanelInv, NEW c \in calls, TurnAnswered(c) PROVE PanelInv'
<1>1. /\ UNCHANGED <<tour, server>> /\ c.at = "done"
      /\ cache' = [cache EXCEPT !["conversation"] = c.read]
      /\ broken' = [broken EXCEPT !["conversation"] = FALSE]
      /\ Invalidates({"conversation"}, cache') /\ Owes({"conversation"}, cache', c.read.n)
      /\ Renders(calls \ {c})
  BY DEF TurnAnswered
<1>2. /\ c.read \in Readings /\ c.read.n \in Nat /\ c.read.n <= server.n /\ c.read.n >= 1
      /\ server.n \in Nat
  BY <1>1, ReadingN DEF PanelInv, DataInv, CallInv, CallHolds, PanelCalls
<1>3. /\ page' = page
      /\ \A d \in calls' : \/ d \in calls \/ d \in Detached(calls)
                           \/ \E k \in Kinds : d = Call(k)
  <2>1. PICK rest \in SUBSET calls : rest = calls \ {c}
    OBVIOUS
  <2>2. Renders(rest)
    BY <1>1, <2>1
  <2> QED
    BY <2>2, RendersCalls
<1>4. CallInv'
  BY <1>1, <1>2, <1>3, CallsKept DEF PanelInv
<1>5. "conversation" \in Queries /\ c.read # Unread
  BY <1>2, ReadingN DEF Queries
<1>6. /\ cache' \in [Queries -> Readings]
      /\ cache'["conversation"] # Unread
      /\ \A q \in Queries : q # "conversation" => cache'[q] = cache[q]
  BY <1>1, <1>2, <1>5 DEF PanelInv, DataInv
<1>7. /\ broken' = [q \in Queries |-> broken'[q]]
      /\ \A q \in Queries : q # "conversation" => (broken[q] => broken'[q])
  BY <1>1, <1>5 DEF PanelInv, DataInv
<1>8. PICK data \in [Queries -> Readings] : data = cache'
  BY <1>6
<1>9. PICK Q \in SUBSET Queries : Q = {"conversation"}
  BY <1>5
<1>10. PICK n \in Nat : n = c.read.n /\ n <= server.n
  BY <1>2
<1>11. Invalidates(Q, data) /\ Owes(Q, data, n)
  BY <1>1, <1>8, <1>9, <1>10
<1>12. \A q \in Queries : \/ cache'[q] = cache[q] /\ (broken[q] => broken'[q])
                          \/ q \in Q /\ data[q] # Unread
  BY <1>6, <1>7, <1>8, <1>9
<1>13. /\ UNCHANGED <<tour, server, page>> /\ cache' \in [Queries -> Readings]
       /\ (broken = [q \in Queries |-> broken[q]])' /\ n <= server.n
  BY <1>1, <1>3, <1>6, <1>7, <1>10
<1>14. DataInv'
  BY <1>11, <1>12, <1>13, AnswerHolds DEF PanelInv
<1> QED
  BY <1>4, <1>14 DEF PanelInv

\* Errors only make queries fetch again.
LEMMA ErrsKeeps == ASSUME PanelInv, NEW c \in calls, Errs(c) PROVE PanelInv'
<1>1. /\ UNCHANGED <<tour, server, cache, broken, owed, page>> /\ calls' = calls \ {c}
  BY DEF Errs, pageVars
<1>2. server \in Readings /\ server.n \in Nat /\ cache \in [Queries -> Readings]
  BY ReadingN DEF PanelInv, DataInv
<1>3. CallInv'
  BY <1>1, <1>2, CallsKept DEF PanelInv
<1>4. /\ fetching' \in [Queries -> Readings] /\ DOMAIN stale' = Queries
      /\ \A q \in Queries : fetching'[q] \in {server, fetching[q]}
      /\ \A q \in Queries : fetching'[q] = Unread => fetching[q] = Unread
      /\ \A q \in Queries : stale[q] => stale'[q]
  <2>1. PICK data \in [Queries -> Readings] : data = cache
    BY <1>2
  <2>2. CASE \E Q \in SUBSET Queries : Invalidates(Q, cache)
    <3>1. PICK Q \in SUBSET Queries : Invalidates(Q, data)
      BY <2>1, <2>2
    <3> QED
      BY <3>1, InvalidateQueries DEF PanelInv
  <2>3. CASE UNCHANGED <<fetching, stale>>
    BY <2>3 DEF PanelInv, DataInv
  <2>4. \/ Invalidates({"conversation"}, cache) \/ Invalidates(Queries, cache)
        \/ UNCHANGED <<fetching, stale>>
    BY DEF Errs
  <2>5. {"conversation"} \in SUBSET Queries /\ Queries \in SUBSET Queries
    BY DEF Queries
  <2>6. CASE Invalidates({"conversation"}, cache)
    <3>1. PICK Q \in SUBSET Queries : Q = {"conversation"}
      BY <2>5
    <3> QED
      BY <2>2, <2>6, <3>1
  <2>7. CASE Invalidates(Queries, cache)
    BY <2>2, <2>5, <2>7
  <2> QED
    BY <2>3, <2>4, <2>6, <2>7
<1>5. server' \in Readings /\ server'.n >= server.n
  BY <1>1, <1>2
<1>6. DataInv'
  BY <1>1, <1>4, <1>5, Fetches DEF PanelInv
<1> QED
  BY <1>3, <1>6 DEF PanelInv

\* Each step of the panel keeps what is known of the queries and the calls.
LEMMA PanelStep == ASSUME PanelInv, [PanelNext]_panelVars PROVE PanelInv'
<1>1. CASE \E q \in Queries : Poll(q) \/ FetchLands(q) \/ FetchFails(q)
  BY <1>1, PollKeeps, LandsKeeps, FailsKeeps
<1>2. CASE ListRefetches
  BY <1>2, PollKeeps DEF Queries
<1>3. CASE SwitchPersona
  BY <1>3, SwitchKeeps
<1>4. CASE OthersChange
  BY <1>4, OthersKeeps
<1>5. CASE CountdownEnds \/ \E p \in tour : GoTo(p)
  BY <1>5, OpensKeeps DEF CountdownEnds, GoTo
<1>6. CASE \/ Power \/ ConfirmDelete \/ RetrySetup \/ ClickCreate \/ Send \/ TryAgain
           \/ \E d \in {"approve", "reject"} : ClickDecide(d)
  <2>1. PICK k \in Kinds : Click(k)
    BY <1>6 DEF Power, ConfirmDelete, RetrySetup, ClickCreate, Send, TryAgain, ClickDecide,
                Kinds, Turns
  <2>2. /\ UNCHANGED <<tour, server, cache, fetching, stale, broken, owed, page>>
        /\ calls' = calls \cup {Call(k)}
    BY <2>1 DEF Click, fetchVars, pageVars
  <2> QED
    BY <2>2, ButtonKeeps
<1>7. CASE OpenDialog \/ CloseDialog \/ StayHere
  <2>1. UNCHANGED <<tour, server, cache, fetching, stale, broken, owed, page, calls>>
    BY <1>7 DEF OpenDialog, CloseDialog, StayHere, fetchVars
  <2> QED
    BY <2>1, ButtonKeeps
<1>8. CASE \E c \in calls : Serves(c) \/ TurnEnds(c) \/ Succeeds(c) \/ TurnAnswered(c) \/ Errs(c)
  BY <1>8, ServesKeeps, TurnEndsKeeps, SucceedsKeeps, TurnAnsweredKeeps, ErrsKeeps
<1>9. CASE UNCHANGED panelVars
  <2>1. UNCHANGED <<tour, server, cache, fetching, stale, broken, owed, page, calls>>
    BY <1>9 DEF panelVars, fetchVars, pageVars
  <2> QED
    BY <2>1, ButtonKeeps
<1> QED
  BY <1>1, <1>2, <1>3, <1>4, <1>5, <1>6, <1>7, <1>8, <1>9 DEF PanelNext

\* A page that waits for no fetch, and whose last one did not fail, shows at least
\* what every mutation answer reported that found the query observed and with
\* data, for any number of changes, clicks and lost calls. What others change
\* may be stale until a poll (useInvalidateAfterMutation, query.ts).
THEOREM AnswersAreNotUndone == PanelSpec => []QuietIsCurrent
<1>1. PanelMount => PanelInv
  <2> SUFFICES ASSUME PanelMount PROVE PanelInv
    OBVIOUS
  <2>1. /\ server \in [n : {1}, status : {"none", "pending_approval", "running"},
                       setup : {"pending", "failed"}, talk : {"pending", "idle"}]
        /\ cache = [q \in Queries |-> Unread]
        /\ fetching = [q \in Queries |-> IF q \in Observed(page) THEN server ELSE Unread]
        /\ stale = [q \in Queries |-> FALSE] /\ owed = [q \in Queries |-> 0] /\ calls = {}
    BY DEF PanelMount, PanelInit
  <2>2. server \in Readings /\ server.n = 1
    BY <2>1, PanelAssumption DEF Readings
  <2>3. broken = [q \in Queries |-> broken[q]]
    BY DEF PanelMount, PanelInit
  <2>4. /\ cache \in [Queries -> Readings] /\ fetching \in [Queries -> Readings]
        /\ owed \in [Queries -> Nat] /\ DOMAIN stale = Queries
        /\ \A q \in Queries : owed[q] <= server.n
    BY <2>1, <2>2, ReadingN
  <2>5. ASSUME NEW q \in Queries PROVE QueryHolds(q)
    BY <2>1, <2>2 DEF QueryHolds
  <2>6. DataInv
    BY <2>2, <2>3, <2>4, <2>5 DEF DataInv
  <2> QED
    BY <2>1, <2>6 DEF PanelInv, CallInv
<1>2. PanelInv => QuietIsCurrent
  BY DEF PanelInv, DataInv, QueryHolds, QuietIsCurrent, Observed
<1>3. PanelInv /\ [PanelNext]_panelVars => PanelInv'
  BY PanelStep
<1> QED
  BY <1>1, <1>2, <1>3, PTL DEF PanelSpec

-----------------------------------------------------------------------------
(* The feed and the audit trail *)

FeedSpec == FeedMount /\ [][FeedNext]_feedVars

\* A full page stands above what is not on it.
PageAbove(rows) ==
  \A e \in entries \ rows :
    \/ Displaced(e) \/ e > Heading(rows)
    \/ Cardinality(rows) >= PageSize /\ \A r \in rows : e < r

\* Rows from the heading down to one.
Above(e, h) == {f \in entries : f > e /\ f <= h}

\* Which rows are on the page is decided by the heading alone.
PageExact(rows) ==
  \A e \in entries :
    \/ Displaced(e) \/ e > Heading(rows)
    \/ e \in rows <=> Cardinality(Above(e, Heading(rows))) < PageSize

FeedTypes ==
  /\ entries \subseteq 1 .. MaxEntries /\ late \subseteq 1 .. MaxEntries
  /\ head \subseteq entries /\ older \subseteq entries
  /\ more.page.rows \subseteq entries /\ reading.page.rows \subseteq entries
  /\ more.under \in Nat /\ list \in {"activity", "audit"}
  /\ list = "audit" /\ reading.step # "over" =>
       head = {} /\ older = {} /\ hasMore = "unknown" /\ ~Loading

HeadInv == PageAbove(head) /\ PageExact(head) /\ more.under <= Heading(head)

ReadingInv == reading.step = "sent" =>
  LET rows == reading.page.rows
  IN  /\ PageAbove(rows) /\ PageExact(rows) /\ Heading(head) <= Heading(rows)
      /\ \A e \in entries \ rows : \/ Displaced(e) \/ e > Heading(rows)
                                   \/ reading.page.hasMore = "yes"

GapInv == ~crossed => \A e \in entries \ Visible :
  \/ CutOff(e) \/ Displaced(e) \/ e > Heading(head)
  \/ Showing /\ \A v \in Visible : e < v

MoreInv == Loading /\ ~crossed /\ more.under = Heading(head) =>
  \A e \in entries \ (Visible \cup more.page.rows) :
    \/ CutOff(e) \/ Displaced(e) \/ e > Heading(head)
    \/ /\ more.page.hasMore = "yes"
       /\ \A v \in Visible \cup more.page.rows : e < v

FeedInv == FeedTypes /\ HeadInv /\ ReadingInv /\ GapInv /\ MoreInv

\* Rows have a first and a last.
LEMMA Least ==
  ASSUME NEW T \in SUBSET Nat, T # {}
  PROVE  \E x \in T : \A y \in T : x <= y
<1>1. PICK x \in T : \A y \in T : ~(<<y, x>> \in OpToRel(<, Nat))
  BY NatLessThanWellFounded, WFMin
<1>2. \A y \in T : ~(y < x)
  BY <1>1 DEF OpToRel
<1> QED
  BY <1>2

\* So Min and Max are rows.
LEMMA Ends ==
  ASSUME NEW S \in SUBSET (1 .. MaxEntries), S # {}
  PROVE  /\ Max(S) \in S /\ \A s \in S : s <= Max(S)
         /\ Min(S) \in S /\ \A s \in S : Min(S) <= s
<1>1. MaxEntries \in Nat
  BY FeedAssumption
<1>2. \E x \in S : \A y \in S : x <= y
  BY <1>1, Least
<1>3. \E x \in S : \A y \in S : x >= y
  <2> DEFINE T == {MaxEntries - s : s \in S}
  <2>1. T \in SUBSET Nat /\ T # {}
    <3>1. ASSUME NEW t \in T PROVE t \in Nat
      <4>1. PICK s \in S : t = MaxEntries - s
        OBVIOUS
      <4>2. s \in 1 .. MaxEntries
        OBVIOUS
      <4> QED
        BY <1>1, <4>1, <4>2
    <3>2. T # {}
      OBVIOUS
    <3> HIDE DEF T
    <3> QED
      BY <3>1, <3>2
  <2>2. PICK t \in T : \A u \in T : t <= u
    <3> HIDE DEF T
    <3> QED
      BY <2>1, Least
  <2>3. PICK x \in S : t = MaxEntries - x
    OBVIOUS
  <2>4. \A y \in S : MaxEntries - x <= MaxEntries - y
    BY <2>2, <2>3
  <2>5. \A y \in S : x >= y
    BY <1>1, <2>4
  <2> QED
    BY <2>5
<1>4. Min(S) \in S /\ \A s \in S : Min(S) <= s
  BY <1>2 DEF Min
<1>5. Max(S) \in S /\ \A s \in S : Max(S) >= s
  BY <1>3 DEF Max
<1>6. \A s \in S : s \in Nat
  BY <1>1
<1> QED
  BY <1>4, <1>5, <1>6

\* The heading is the newest row, or 0 without any.
LEMMA HeadingIs ==
  ASSUME NEW S \in SUBSET (1 .. MaxEntries)
  PROVE  /\ Heading(S) \in Nat
         /\ \A s \in S : s <= Heading(S)
         /\ S = {} => Heading(S) = 0
         /\ S # {} => Heading(S) \in S
<1>1. MaxEntries \in Nat
  BY FeedAssumption
<1>2. CASE S = {}
  BY <1>2 DEF Heading
<1>3. CASE S # {}
  <2>1. Max(S) \in S /\ \A s \in S : s <= Max(S)
    BY <1>3, Ends
  <2>2. Heading(S) = Max(S)
    BY <1>3 DEF Heading
  <2>3. Heading(S) \in 1 .. MaxEntries
    BY <2>1, <2>2
  <2>4. Heading(S) \in Nat
    BY <1>1, <2>3
  <2> QED
    BY <1>3, <2>1, <2>2, <2>4
<1> QED
  BY <1>2, <1>3

\* More rows have no older heading.
LEMMA HeadingGrows ==
  ASSUME NEW S \in SUBSET (1 .. MaxEntries), NEW R \in SUBSET S
  PROVE  Heading(R) <= Heading(S)
<1>1. R \in SUBSET (1 .. MaxEntries)
  OBVIOUS
<1>2. /\ Heading(S) \in Nat /\ Heading(R) \in Nat
      /\ \A s \in S : s <= Heading(S)
      /\ R = {} => Heading(R) = 0
      /\ R # {} => Heading(R) \in R
  BY <1>1, HeadingIs
<1> QED
  BY <1>2

\* What a page is: the newest rows, full if there are others, which all are
\* older.
LEMMA PageIs ==
  ASSUME NEW S \in SUBSET (1 .. MaxEntries)
  PROVE  /\ Page(S).rows \subseteq S
         /\ Heading(Page(S).rows) = Heading(S)
         /\ \A e \in S : e \in Page(S).rows <=> Cardinality({f \in S : f > e}) < PageSize
         /\ \A e \in S \ Page(S).rows :
              /\ Page(S).hasMore = "yes"
              /\ Cardinality(Page(S).rows) >= PageSize
              /\ \A r \in Page(S).rows : e < r
<1> DEFINE R == {e \in S : Cardinality({f \in S : f > e}) < PageSize}
<1>1. MaxEntries \in Nat /\ PageSize \in Nat /\ PageSize > 0
  BY FeedAssumption
<1>2. IsFiniteSet(1 .. MaxEntries)
  BY <1>1, FS_Interval
<1>3. /\ IsFiniteSet(S) /\ S \subseteq Nat
      /\ \A e \in S : e \in Nat
  <2>1. IsFiniteSet(S)
    BY <1>2, FS_Subset
  <2>2. \A e \in S : e \in 1 .. MaxEntries
    OBVIOUS
  <2> QED
    BY <1>1, <2>1, <2>2
<1>4. ASSUME NEW T \in SUBSET S, NEW U \in SUBSET T
      PROVE  /\ IsFiniteSet(T) /\ IsFiniteSet(U)
             /\ Cardinality(U) \in Nat /\ Cardinality(T) \in Nat
             /\ Cardinality(U) <= Cardinality(T)
             /\ Cardinality(T) = Cardinality(U) => T = U
  <2>1. IsFiniteSet(T)
    BY <1>3, FS_Subset
  <2>2. IsFiniteSet(U) /\ Cardinality(U) <= Cardinality(T) /\ (Cardinality(T) = Cardinality(U) => T = U)
    BY <2>1, FS_Subset
  <2> QED
    BY <2>1, <2>2, FS_CardinalityType
<1>5. Page(S).rows = R
  BY DEF Page
<1> DEFINE N(e) == {f \in S : f > e}
<1>6. ASSUME NEW e \in S \ R, NEW r \in R PROVE e < r
  <2> SUFFICES ASSUME r < e PROVE FALSE
    BY <1>3, <1>6
  <2>1. N(e) \in SUBSET N(r) /\ N(r) \in SUBSET S
    <3>1. e \in S /\ r \in S /\ e \in Nat /\ r \in Nat
      BY <1>3, <1>6
    <3>2. \A f \in S : f > e => f > r
      BY <1>3, <3>1
    <3> QED
      BY <3>2
  <2>2. Cardinality(N(e)) <= Cardinality(N(r))
        /\ Cardinality(N(e)) \in Nat /\ Cardinality(N(r)) \in Nat
    <3> HIDE DEF N
    <3> QED
      BY <1>4, <2>1
  <2>3. Cardinality(N(r)) < PageSize
    OBVIOUS
  <2>4. ~(Cardinality(N(e)) < PageSize)
    BY <1>6
  <2> HIDE DEF N, R
  <2> QED
    BY <1>1, <2>2, <2>3, <2>4
<1>7. ASSUME NEW e \in S \ R
      PROVE  Cardinality(R) >= PageSize /\ Page(S).hasMore = "yes"
  <2>1. S \ R \in SUBSET (1 .. MaxEntries) /\ S \ R # {}
    BY <1>7
  <2>2. PICK m \in S \ R : \A y \in S \ R : y <= m
    <3> DEFINE D == S \ R
    <3>1. D \in SUBSET (1 .. MaxEntries) /\ D # {}
      BY <2>1
    <3>2. Max(D) \in D /\ \A y \in D : y <= Max(D)
      <4> HIDE DEF D
      <4> QED
        BY <3>1, Ends
    <3> QED
      BY <3>2
  <2>3. N(m) \in SUBSET R /\ R \in SUBSET S
    <3>1. m \in S /\ m \in Nat
      BY <1>3, <2>2
    <3>2. \A f \in S : f > m => f \in R
      <4> HIDE DEF R
      <4>1. \A f \in S : f \notin R => f <= m
        BY <2>2
      <4> QED
        BY <1>3, <3>1, <4>1
    <3>3. R \in SUBSET S
      OBVIOUS
    <3> HIDE DEF R
    <3> QED
      BY <3>2, <3>3
  <2>4. ~(Cardinality(N(m)) < PageSize)
    BY <2>2
  <2> HIDE DEF N, R
  <2>5. /\ Cardinality(N(m)) <= Cardinality(R) /\ Cardinality(N(m)) \in Nat
        /\ Cardinality(R) \in Nat
    BY <1>4, <2>3
  <2>6. /\ Cardinality(R) <= Cardinality(S) /\ Cardinality(S) \in Nat
        /\ Cardinality(S) = Cardinality(R) => S = R
    <3>1. S \in SUBSET S
      OBVIOUS
    <3> QED
      BY <1>4, <2>3, <3>1
  <2>7. Cardinality(S) > PageSize
    BY <1>1, <1>7, <2>4, <2>5, <2>6
  <2> QED
    BY <1>1, <2>4, <2>5, <2>7 DEF Page
<1>8. Heading(R) = Heading(S)
  <2>1. CASE S = {}
    BY <2>1
  <2>2. CASE S # {}
    <3>1. Heading(S) \in S /\ \A s \in S : s <= Heading(S)
      BY <2>2, HeadingIs
    <3>2. N(Heading(S)) = {}
      <4>1. Heading(S) \in Nat
        BY <1>3, <3>1
      <4>2. \A f \in S : ~(f > Heading(S))
        BY <1>3, <3>1, <4>1
      <4> QED
        BY <4>2
    <3>3. Cardinality(N(Heading(S))) = 0
      BY <3>2, FS_EmptySet
    <3>4. Heading(S) \in R
      BY <1>1, <3>1, <3>3
    <3>5. R \in SUBSET (1 .. MaxEntries) /\ R \in SUBSET S
      OBVIOUS
    <3> HIDE DEF N, R
    <3>6. Heading(R) \in Nat /\ Heading(S) <= Heading(R) /\ Heading(R) \in R
      BY <3>4, <3>5, HeadingIs
    <3>7. Heading(R) <= Heading(S) /\ Heading(S) \in Nat
      BY <3>5, HeadingGrows, HeadingIs
    <3> QED
      BY <3>6, <3>7
  <2> QED
    BY <2>1, <2>2
<1>9. \A e \in S : e \in R <=> Cardinality(N(e)) < PageSize
  OBVIOUS
<1> QED
  BY <1>5, <1>6, <1>7, <1>8, <1>9

\* A new row is late, or above everything on any page.
LEMMA NewRow ==
  ASSUME FeedTypes, NEW x \in 1 .. MaxEntries, Record(x)
  PROVE  /\ entries' = entries \cup {x} /\ late' \in SUBSET (1 .. MaxEntries)
         /\ late \subseteq late'
         /\ UNCHANGED <<list, head, older, hasMore, reading, more, crossed>>
         /\ \A R \in SUBSET entries : x \in late' \/ x > Heading(R)
<1>1. /\ entries' = entries \cup {x} /\ x \notin entries
      /\ late' \in SUBSET (1 .. MaxEntries) /\ late \subseteq late'
      /\ x < Heading(entries) => x \in late'
      /\ UNCHANGED <<list, head, older, hasMore, reading, more, crossed>>
  BY DEF Record, FeedTypes
<1>2. x \in Nat /\ x > 0
  BY FeedAssumption
<1>3. entries \in SUBSET (1 .. MaxEntries)
  BY DEF FeedTypes
<1>4. x \in late' \/ x > Heading(entries)
  <2>1. /\ Heading(entries) \in Nat
        /\ entries = {} => Heading(entries) = 0
        /\ entries # {} => Heading(entries) \in entries
    BY <1>3, HeadingIs
  <2> QED
    BY <1>1, <1>2, <2>1
<1>5. ASSUME NEW R \in SUBSET entries PROVE x \in late' \/ x > Heading(R)
  <2>1. Heading(R) <= Heading(entries)
    BY <1>3, HeadingGrows
  <2>2. Heading(R) \in Nat /\ Heading(entries) \in Nat
    BY <1>3, HeadingIs
  <2> QED
    BY <1>2, <1>4, <2>1, <2>2
<1> QED
  BY <1>1, <1>5

\* It changes nothing a page promises.
LEMMA NewRowPage ==
  ASSUME FeedTypes, NEW x \in 1 .. MaxEntries, Record(x), NEW R \in SUBSET entries
  PROVE  PageAbove(R) => PageAbove(R)'
<1>1. /\ entries' = entries \cup {x} /\ late \subseteq late'
      /\ x \in late' \/ x > Heading(R)
  BY NewRow
<1>2. x >= x
  BY FeedAssumption
<1> QED
  BY <1>1, <1>2 DEF PageAbove, Displaced

\* Nor which rows stand on it.
LEMMA NewRowExact ==
  ASSUME FeedTypes, NEW x \in 1 .. MaxEntries, Record(x), NEW R \in SUBSET entries
  PROVE  PageExact(R) => PageExact(R)'
<1> SUFFICES ASSUME PageExact(R) PROVE PageExact(R)'
  OBVIOUS
<1>1. /\ entries' = entries \cup {x} /\ late \subseteq late'
      /\ x \in late' \/ x > Heading(R)
  BY NewRow
<1>2. x \in Nat /\ entries \subseteq Nat
  BY FeedAssumption DEF FeedTypes
<1>3. PICK h \in Nat : h = Heading(R)
  <2>1. R \in SUBSET (1 .. MaxEntries)
    BY DEF FeedTypes
  <2> QED
    BY <2>1, HeadingIs
<1>4. ASSUME NEW e \in entries', ~Displaced(e)', e <= h
      PROVE  e \in R <=> Cardinality(Above(e, h)') < PageSize
  <2>1. ~Displaced(e) /\ ~(\E f \in late' : f >= e)
    BY <1>1, <1>4 DEF Displaced
  <2>2. x \in late' => ~(x >= e)
    BY <2>1
  <2>3. e \in Nat
    BY <1>1, <1>2
  <2>4. e # x /\ ~(x > e /\ x <= h)
    BY <1>1, <1>2, <1>3, <1>4, <2>2, <2>3
  <2>5. e \in entries
    BY <1>1, <2>4
  <2>6. Above(e, h)' = Above(e, h)
    BY <1>1, <2>4 DEF Above
  <2>7. ~(e > Heading(R))
    BY <1>3, <1>4, <2>3
  <2>8. e \in R <=> Cardinality(Above(e, h)) < PageSize
    BY <1>3, <2>1, <2>5, <2>7 DEF PageExact
  <2> QED
    BY <2>6, <2>8
<1>5. \A e \in entries' : e \in Nat
  BY <1>1, <1>2
<1>6. \A e \in entries' : \/ Displaced(e)' \/ e > h
                          \/ e \in R <=> Cardinality(Above(e, h)') < PageSize
  BY <1>3, <1>4, <1>5
<1> QED
  BY <1>3, <1>6 DEF PageExact, Above

\* A transaction commits.
LEMMA RecordKeeps ==
  ASSUME FeedInv, NEW x \in 1 .. MaxEntries, Record(x)
  PROVE  FeedInv'
<1>1. /\ entries' = entries \cup {x} /\ late' \in SUBSET (1 .. MaxEntries)
      /\ late \subseteq late'
      /\ UNCHANGED <<list, head, older, hasMore, reading, more, crossed>>
      /\ \A R \in SUBSET entries : x \in late' \/ x > Heading(R)
  BY NewRow DEF FeedInv
<1>2. /\ head \in SUBSET entries /\ reading.page.rows \in SUBSET entries
      /\ entries \in SUBSET (1 .. MaxEntries)
  BY DEF FeedInv, FeedTypes
<1>3. FeedTypes'
  BY <1>1 DEF FeedInv, FeedTypes, Loading
<1>4. \A e : Displaced(e) => Displaced(e)'
  BY <1>1 DEF Displaced
<1>5. \A R \in SUBSET entries : Displaced(x)' \/ x > Heading(R)
  <2>1. x >= x
    BY FeedAssumption
  <2> QED
    BY <1>1, <2>1 DEF Displaced
<1>6. PICK H \in SUBSET entries : H = head
  BY <1>2
<1>7. HeadInv'
  <2>1. PageAbove(H) /\ PageExact(H)
    BY <1>6 DEF FeedInv, HeadInv, PageAbove, PageExact
  <2>2. PageAbove(H)' /\ PageExact(H)'
    BY <2>1, NewRowPage, NewRowExact DEF FeedInv
  <2>3. head' = H /\ (more.under <= Heading(head))'
    BY <1>1, <1>6 DEF FeedInv, HeadInv
  <2> QED
    BY <2>2, <2>3 DEF HeadInv, PageAbove, PageExact
<1>8. ReadingInv'
  <2>1. PICK R \in SUBSET entries : R = reading.page.rows
    BY <1>2
  <2>2. SUFFICES ASSUME reading.step = "sent" PROVE ReadingInv'
    BY <1>1 DEF ReadingInv
  <2>3. /\ PageAbove(R) /\ PageExact(R) /\ Heading(head) <= Heading(R)
        /\ \A e \in entries \ R : \/ Displaced(e) \/ e > Heading(R)
                                  \/ reading.page.hasMore = "yes"
    BY <2>1, <2>2 DEF FeedInv, ReadingInv, PageAbove, PageExact
  <2>4. PageAbove(R)' /\ PageExact(R)'
    BY <2>3, NewRowPage, NewRowExact DEF FeedInv
  <2>5. \A e \in entries' \ R : \/ Displaced(e)' \/ e > Heading(R)
                                \/ reading'.page.hasMore = "yes"
    BY <1>1, <1>4, <1>5, <2>3
  <2>6. reading'.page.rows = R /\ (Heading(head) <= Heading(R))'
    BY <1>1, <2>1, <2>3
  <2> QED
    BY <2>4, <2>5, <2>6 DEF ReadingInv, PageAbove, PageExact
<1>9. Displaced(x)' \/ x > Heading(head)
  BY <1>2, <1>5
<1>10. /\ Visible' = Visible /\ Showing' = Showing
       /\ \A e : CutOff(e) => CutOff(e)'
  BY <1>1 DEF Visible, Showing, CutOff
<1>11. GapInv'
  <2>1. SUFFICES ASSUME ~crossed, NEW e \in entries' \ Visible
                 PROVE  \/ CutOff(e)' \/ Displaced(e)' \/ e > Heading(head)
                        \/ Showing /\ \A v \in Visible : e < v
    BY <1>1, <1>10 DEF GapInv
  <2>2. CASE e = x
    BY <1>9, <2>2
  <2>3. CASE e \in entries
    <3>1. \/ CutOff(e) \/ Displaced(e) \/ e > Heading(head)
          \/ Showing /\ \A v \in Visible : e < v
      BY <2>1, <2>3 DEF FeedInv, GapInv
    <3> QED
      BY <1>4, <1>10, <3>1
  <2> QED
    BY <1>1, <2>2, <2>3
<1>12. MoreInv'
  <2>1. SUFFICES ASSUME Loading, ~crossed, more.under = Heading(head),
                        NEW e \in entries' \ (Visible \cup more.page.rows)
                 PROVE  \/ CutOff(e)' \/ Displaced(e)' \/ e > Heading(head)
                        \/ /\ more.page.hasMore = "yes"
                           /\ \A v \in Visible \cup more.page.rows : e < v
    BY <1>1, <1>10 DEF MoreInv, Loading
  <2>2. CASE e = x
    BY <1>9, <2>2
  <2>3. CASE e \in entries
    <3>1. \/ CutOff(e) \/ Displaced(e) \/ e > Heading(head)
          \/ /\ more.page.hasMore = "yes"
             /\ \A v \in Visible \cup more.page.rows : e < v
      BY <2>1, <2>3 DEF FeedInv, MoreInv
    <3> QED
      BY <1>4, <1>10, <3>1
  <2> QED
    BY <1>1, <2>2, <2>3
<1> QED
  BY <1>3, <1>7, <1>8, <1>11, <1>12 DEF FeedInv

\* What a page read now promises.
LEMMA ReadHeadKeeps == ASSUME FeedInv, ReadHead PROVE FeedInv'
<1>1. /\ reading' = [step |-> "sent", page |-> Page(entries)] /\ reading.step = "due"
      /\ UNCHANGED <<list, entries, late, head, older, hasMore, more, crossed>>
  BY DEF ReadHead
<1>2. entries \in SUBSET (1 .. MaxEntries) /\ head \in SUBSET entries
  BY DEF FeedInv, FeedTypes
<1>3. PICK S \in SUBSET (1 .. MaxEntries) : S = entries
  BY <1>2
<1>4. PICK sheet : sheet = Page(S)
  OBVIOUS
<1>5. /\ sheet.rows \subseteq S
      /\ Heading(sheet.rows) = Heading(S)
      /\ \A e \in S : e \in sheet.rows <=> Cardinality({f \in S : f > e}) < PageSize
      /\ \A e \in S \ sheet.rows :
           /\ sheet.hasMore = "yes"
           /\ Cardinality(sheet.rows) >= PageSize
           /\ \A r \in sheet.rows : e < r
  BY <1>4, PageIs
<1>6. reading'.step = "sent" /\ reading'.page = sheet
  BY <1>1, <1>3, <1>4
<1>7. FeedTypes'
  <2>1. reading'.page.rows \subseteq entries
    BY <1>3, <1>5, <1>6
  <2>2. list = "audit" => head = {} /\ older = {} /\ hasMore = "unknown" /\ ~Loading
    BY <1>1 DEF FeedInv, FeedTypes
  <2> QED
    BY <1>1, <2>1, <2>2 DEF FeedInv, FeedTypes, Loading
<1>8. HeadInv' /\ GapInv' /\ MoreInv'
  BY <1>1 DEF FeedInv, HeadInv, PageAbove, PageExact, Above, Displaced, GapInv, MoreInv,
              Visible, Showing, CutOff, Loading
<1>9. ReadingInv'
  <2> DEFINE h == Heading(sheet.rows)
  <2>1. \A f \in S : f <= h
    BY <1>5, HeadingIs
  <2>2. ASSUME NEW e \in S PROVE Above(e, h) = {f \in S : f > e}
    BY <1>3, <2>1 DEF Above
  <2>3. PageExact(sheet.rows)
    BY <1>3, <1>5, <2>2 DEF PageExact
  <2>4. PageAbove(sheet.rows)
    BY <1>3, <1>5 DEF PageAbove
  <2>5. Heading(head) <= Heading(sheet.rows)
    BY <1>2, <1>3, <1>5, HeadingGrows
  <2>6. \A e \in entries \ sheet.rows : sheet.hasMore = "yes"
    BY <1>3, <1>5
  <2>7. PageExact(sheet.rows)' /\ PageAbove(sheet.rows)' /\ Heading(head)' <= Heading(sheet.rows)
    BY <1>1, <2>3, <2>4, <2>5 DEF PageExact, PageAbove, Displaced, Above
  <2> QED
    BY <1>1, <1>6, <2>6, <2>7 DEF ReadingInv, PageExact, PageAbove, Displaced, Above
<1> QED
  BY <1>7, <1>8, <1>9 DEF FeedInv

\* A failed read changes nothing on the screen.
LEMMA HeadFailsKeeps == ASSUME FeedInv, HeadFails PROVE FeedInv'
<1>1. /\ reading' = Settled /\ reading.step = "sent"
      /\ UNCHANGED <<list, entries, late, head, older, hasMore, more, crossed>>
  BY DEF HeadFails
<1>2. reading'.page.rows = {} /\ reading'.step # "sent"
  BY <1>1 DEF Settled, NoPage
<1>3. FeedTypes'
  BY <1>1, <1>2 DEF FeedInv, FeedTypes, Loading
<1>4. HeadInv' /\ GapInv' /\ MoreInv'
  BY <1>1 DEF FeedInv, HeadInv, PageAbove, PageExact, Above, Displaced, GapInv, MoreInv,
              Visible, Showing, CutOff, Loading
<1>5. ReadingInv'
  BY <1>2 DEF ReadingInv
<1> QED
  BY <1>3, <1>4, <1>5 DEF FeedInv

\* "Show more" goes by the oldest row on the screen.
LEMMA ShowMoreKeeps == ASSUME FeedInv, ShowMore PROVE FeedInv'
<1>1. /\ more' = [under |-> Heading(head), page |-> Page(Below(Min(Visible)))]
      /\ Showing
      /\ UNCHANGED <<list, entries, late, head, older, hasMore, reading, crossed>>
  BY DEF ShowMore
<1>2. /\ entries \in SUBSET (1 .. MaxEntries) /\ head \in SUBSET entries
      /\ Visible \in SUBSET entries
  BY DEF FeedInv, FeedTypes, Visible
<1>3. PICK m : m = Min(Visible)
  OBVIOUS
<1>4. PICK B \in SUBSET (1 .. MaxEntries) : B = Below(m) /\ B \in SUBSET entries
  BY <1>2 DEF Below
<1>5. PICK sheet : sheet = Page(B)
  OBVIOUS
<1>6. /\ sheet.rows \subseteq B
      /\ \A e \in B \ sheet.rows : /\ sheet.hasMore = "yes"
                                  /\ \A r \in sheet.rows : e < r
  BY <1>5, PageIs
<1>7. more'.page = sheet /\ more'.under = Heading(head)
  BY <1>1, <1>3, <1>4, <1>5
<1>8. head \in SUBSET (1 .. MaxEntries)
  BY <1>2
<1>9. Heading(head) \in Nat
  BY <1>8, HeadingIs
<1>10. FeedTypes'
  <2>1. ~(list = "audit" /\ reading.step # "over")
    <3>1. SUFFICES ASSUME list = "audit" /\ reading.step # "over" PROVE FALSE
      OBVIOUS
    <3>2. head = {} /\ hasMore = "unknown"
      BY <3>1 DEF FeedInv, FeedTypes
    <3>3. Cardinality(head) = 0
      BY <3>2, FS_EmptySet
    <3> QED
      BY <1>1, <3>2, <3>3, FeedAssumption DEF Showing
  <2>2. sheet.rows \subseteq entries
    BY <1>4, <1>6
  <2> QED
    BY <1>1, <1>7, <1>9, <2>1, <2>2 DEF FeedInv, FeedTypes
<1>11. ReadingInv' /\ GapInv'
  BY <1>1 DEF FeedInv, ReadingInv, PageAbove, PageExact, Above, Displaced, GapInv,
              Visible, Showing, CutOff
<1>12. HeadInv'
  <2>1. PageAbove(head)' /\ PageExact(head)'
    BY <1>1 DEF FeedInv, HeadInv, PageAbove, PageExact, Above, Displaced
  <2>2. (more.under <= Heading(head))'
    BY <1>1, <1>7, <1>9
  <2> QED
    BY <2>1, <2>2 DEF HeadInv
<1>13. ASSUME ~crossed, NEW e \in entries \ (Visible \cup sheet.rows),
              ~Displaced(e), ~(e > Heading(head)), ~CutOff(e)
       PROVE  sheet.hasMore = "yes" /\ \A v \in Visible \cup sheet.rows : e < v
  <2>1. \A v \in Visible : e < v
    BY <1>13 DEF FeedInv, GapInv
  <2>2. Visible # {}
    <3>1. SUFFICES ASSUME head = {} PROVE FALSE
      BY DEF Visible
    <3>2. Heading(head) = 0
      BY <3>1 DEF Heading
    <3>3. e \in 1 .. MaxEntries
      BY <1>2
    <3>4. e > 0
      BY <3>3, FeedAssumption
    <3> QED
      BY <1>13, <3>2, <3>4
  <2>3. m \in Visible
    <3>1. PICK V \in SUBSET (1 .. MaxEntries) : V = Visible
      BY <1>2
    <3> QED
      BY <1>3, <2>2, <3>1, Ends
  <2>4. e < m /\ e \in 1 .. MaxEntries /\ m \in 1 .. MaxEntries
    BY <1>2, <2>1, <2>3
  <2>5. m > e
    BY <2>4, FeedAssumption
  <2>6. Millisecond[m] # Millisecond[e]
    BY <1>13, <2>3, <2>5 DEF CutOff
  <2>7. /\ Millisecond[m] \in Nat /\ Millisecond[e] \in Nat
        /\ Millisecond[e] <= Millisecond[m]
    BY <2>4, FeedAssumption
  <2>8. Precedes(e, m)
    BY <2>4, <2>6, <2>7 DEF Precedes
  <2>9. e \in B \ sheet.rows
    BY <1>4, <1>13, <2>8 DEF Below
  <2> QED
    BY <1>6, <2>1, <2>9
<1>14. MoreInv'
  <2>1. /\ Visible' = Visible /\ crossed' = crossed /\ entries' = entries /\ head' = head
        /\ \A e : Displaced(e)' = Displaced(e) /\ CutOff(e)' = CutOff(e)
    BY <1>1 DEF Visible, Displaced, CutOff
  <2> QED
    BY <1>7, <1>13, <2>1 DEF MoreInv
<1> QED
  BY <1>10, <1>11, <1>12, <1>14 DEF FeedInv

\* Its answer is appended.
LEMMA MoreLandsKeeps == ASSUME FeedInv, MoreLands PROVE FeedInv'
<1>1. /\ Loading /\ older' = older \cup more.page.rows /\ hasMore' = more.page.hasMore
      /\ crossed' = (crossed \/ more.under # Heading(head))
      /\ more' = [under |-> 0, page |-> NoPage]
      /\ UNCHANGED <<list, entries, late, head, reading>>
  BY DEF MoreLands, MoreEnds
<1>2. more'.under = 0 /\ more'.page.rows = {} /\ ~Loading'
  BY <1>1 DEF NoPage, Loading
<1>3. FeedTypes'
  BY <1>1, <1>2 DEF FeedInv, FeedTypes
<1>4. ReadingInv'
  BY <1>1 DEF FeedInv, ReadingInv, PageAbove, PageExact, Above, Displaced
<1>5. HeadInv'
  <2>1. PageAbove(head)' /\ PageExact(head)'
    BY <1>1 DEF FeedInv, HeadInv, PageAbove, PageExact, Above, Displaced
  <2>2. head \in SUBSET (1 .. MaxEntries)
    BY DEF FeedInv, FeedTypes
  <2>3. Heading(head) \in Nat
    BY <2>2, HeadingIs
  <2>4. (more.under <= Heading(head))'
    BY <1>1, <1>2, <2>3
  <2> QED
    BY <2>1, <2>4 DEF HeadInv
<1>6. MoreInv'
  BY <1>2 DEF MoreInv
<1>7. GapInv'
  <2>1. ~crossed' => ~crossed /\ more.under = Heading(head)
    BY <1>1, Zenon
  <2>2. Visible' = Visible \cup more.page.rows
    BY <1>1 DEF Visible
  <2>3. /\ \A e : Displaced(e) => Displaced(e)'
        /\ \A e : CutOff(e) => CutOff(e)'
    BY <1>1, <2>2 DEF Displaced, CutOff
  <2>4. more.page.hasMore = "yes" => Showing'
    BY <1>1 DEF Showing
  <2>5. SUFFICES ASSUME ~crossed', NEW e \in entries \ (Visible \cup more.page.rows)
                 PROVE  \/ CutOff(e)' \/ Displaced(e)' \/ e > Heading(head)
                        \/ Showing' /\ \A v \in Visible \cup more.page.rows : e < v
    BY <1>1, <2>2 DEF GapInv
  <2>6. \/ CutOff(e) \/ Displaced(e) \/ e > Heading(head)
        \/ /\ more.page.hasMore = "yes"
           /\ \A v \in Visible \cup more.page.rows : e < v
    BY <1>1, <2>1, <2>5 DEF FeedInv, MoreInv
  <2> QED
    BY <2>3, <2>4, <2>6
<1> QED
  BY <1>3, <1>4, <1>5, <1>6, <1>7 DEF FeedInv

\* A failed "Show more" neither.
LEMMA MoreFailsKeeps == ASSUME FeedInv, MoreFails PROVE FeedInv'
<1>1. /\ more' = [under |-> 0, page |-> NoPage]
      /\ UNCHANGED <<list, entries, late, head, older, hasMore, reading, crossed>>
  BY DEF MoreFails, MoreEnds
<1>2. more'.under = 0 /\ more'.page.rows = {} /\ ~Loading'
  BY <1>1 DEF NoPage, Loading
<1>3. FeedTypes'
  BY <1>1, <1>2 DEF FeedInv, FeedTypes
<1>4. ReadingInv' /\ GapInv'
  BY <1>1 DEF FeedInv, ReadingInv, PageAbove, PageExact, Above, Displaced, GapInv,
              Visible, Showing, CutOff
<1>5. HeadInv'
  <2>1. PageAbove(head)' /\ PageExact(head)'
    BY <1>1 DEF FeedInv, HeadInv, PageAbove, PageExact, Above, Displaced
  <2>2. head \in SUBSET (1 .. MaxEntries)
    BY DEF FeedInv, FeedTypes
  <2>3. Heading(head) \in Nat
    BY <2>2, HeadingIs
  <2>4. (more.under <= Heading(head))'
    BY <1>1, <1>2, <2>3
  <2> QED
    BY <2>1, <2>4 DEF HeadInv
<1>6. MoreInv'
  BY <1>2 DEF MoreInv
<1> QED
  BY <1>3, <1>4, <1>5, <1>6 DEF FeedInv

\* A page under the heading there is: what it lacks, the last one lacked.
LEMMA SamePage ==
  ASSUME FeedInv, reading.step = "sent", Heading(reading.page.rows) = Heading(head),
         NEW e \in entries, ~Displaced(e), ~(e > Heading(head))
  PROVE  e \in reading.page.rows <=> e \in head
<1>1. e \in head <=> Cardinality(Above(e, Heading(head))) < PageSize
  BY DEF FeedInv, HeadInv, PageExact
<1>2. PICK R : R = reading.page.rows
  OBVIOUS
<1>3. PageExact(R) /\ Heading(R) = Heading(head)
  BY <1>2 DEF FeedInv, ReadingInv, PageExact
<1>4. e \in R <=> Cardinality(Above(e, Heading(head))) < PageSize
  BY <1>3 DEF PageExact
<1> QED
  BY <1>1, <1>2, <1>4

\* A first page lands: on the audit trail, under a new heading, or under the same.
LEMMA HeadLandsKeeps == ASSUME FeedInv, HeadLands PROVE FeedInv'
<1>1. /\ reading.step = "sent" /\ head' = reading.page.rows /\ reading' = Settled
      /\ UNCHANGED <<list, entries, late, more>>
  BY DEF HeadLands
<1>2. PICK R : R = reading.page.rows
  OBVIOUS
<1>3. /\ R \in SUBSET entries /\ head \in SUBSET entries /\ older \in SUBSET entries
      /\ entries \in SUBSET (1 .. MaxEntries) /\ more.under \in Nat
  BY <1>2 DEF FeedInv, FeedTypes
<1>4. /\ PageAbove(R) /\ PageExact(R) /\ Heading(head) <= Heading(R)
      /\ \A e \in entries \ R : \/ Displaced(e) \/ e > Heading(R)
                                \/ reading.page.hasMore = "yes"
  BY <1>1, <1>2 DEF FeedInv, ReadingInv, PageAbove, PageExact
<1>5. head' = R /\ entries' = entries /\ \A e : Displaced(e)' = Displaced(e)
  BY <1>1, <1>2 DEF Displaced
<1>6. more.under <= Heading(head)
  BY DEF FeedInv, HeadInv
<1>7. Heading(R) \in Nat /\ Heading(head) \in Nat
  <2>1. R \in SUBSET (1 .. MaxEntries) /\ head \in SUBSET (1 .. MaxEntries)
    BY <1>3
  <2> QED
    BY <2>1, HeadingIs
<1>8. reading'.page.rows = {} /\ reading'.step # "sent"
      /\ (list = "audit" => reading'.step = "over")
  BY <1>1 DEF Settled, NoPage
<1>9. ReadingInv'
  BY <1>8 DEF ReadingInv
<1>10. HeadInv'
  <2>1. PageAbove(R)' /\ PageExact(R)'
    BY <1>1, <1>4 DEF PageAbove, PageExact, Above, Displaced
  <2>2. more'.under <= Heading(R)
    BY <1>1, <1>3, <1>4, <1>6, <1>7
  <2> QED
    BY <1>5, <2>1, <2>2 DEF HeadInv, PageAbove, PageExact
<1>11. CASE list = "audit"
  <2>1. hasMore' = reading.page.hasMore /\ UNCHANGED <<older, crossed>>
    BY <1>11 DEF HeadLands
  <2>2. older = {} /\ ~Loading
    BY <1>1, <1>11 DEF FeedInv, FeedTypes
  <2>3. Visible' = R /\ ~Loading' /\ older' = {}
    BY <1>1, <1>5, <2>1, <2>2 DEF Visible, Loading
  <2>4. FeedTypes'
    BY <1>1, <1>3, <1>5, <1>8, <2>3 DEF FeedInv, FeedTypes
  <2>5. MoreInv'
    BY <2>3 DEF MoreInv
  <2>6. GapInv'
    <3>1. SUFFICES ASSUME NEW e \in entries \ R, ~Displaced(e), ~(e > Heading(R))
                   PROVE  Showing' /\ \A v \in R : e < v
      BY <1>5, <2>3 DEF GapInv
    <3>2. reading.page.hasMore = "yes"
      BY <1>4, <3>1
    <3>3. Showing'
      BY <2>1, <3>2 DEF Showing
    <3> QED
      BY <1>4, <3>1, <3>3 DEF PageAbove
  <2> QED
    BY <1>9, <1>10, <2>4, <2>5, <2>6 DEF FeedInv
<1>12. CASE list = "activity" /\ Heading(R) # Heading(head)
  <2>1. older' = {} /\ hasMore' = "unknown" /\ crossed' = FALSE
    BY <1>2, <1>12 DEF HeadLands, Reset
  <2>2. Visible' = R
    BY <1>5, <2>1 DEF Visible
  <2>3. FeedTypes'
    BY <1>1, <1>3, <1>5, <1>8, <1>12, <2>1 DEF FeedInv, FeedTypes
  <2>4. MoreInv'
    <3>1. more'.under # Heading(head')
      BY <1>1, <1>3, <1>4, <1>5, <1>6, <1>7, <1>12
    <3> QED
      BY <3>1 DEF MoreInv
  <2>5. GapInv'
    <3>1. SUFFICES ASSUME NEW e \in entries \ R, ~Displaced(e), ~(e > Heading(R))
                   PROVE  Showing' /\ \A v \in R : e < v
      BY <1>5, <2>2 DEF GapInv
    <3>2. Cardinality(R) >= PageSize /\ \A r \in R : e < r
      BY <1>4, <3>1 DEF PageAbove
    <3> QED
      BY <1>5, <2>1, <3>2 DEF Showing
  <2> QED
    BY <1>9, <1>10, <2>3, <2>4, <2>5 DEF FeedInv
<1>13. CASE list = "activity" /\ Heading(R) = Heading(head)
  <2>1. UNCHANGED <<older, hasMore, crossed>>
    BY <1>2, <1>13 DEF HeadLands, Reset
  <2>2. Visible' = R \cup older
    BY <1>5, <2>1 DEF Visible
  <2>3. FeedTypes'
    BY <1>1, <1>3, <1>5, <1>8, <1>13, <2>1 DEF FeedInv, FeedTypes
  <2>4. ASSUME NEW e \in entries, ~Displaced(e), ~(e > Heading(R))
        PROVE  e \in R <=> e \in head
    BY <1>1, <1>2, <1>13, <2>4, SamePage
  \* What cuts a row off stays on the screen.
  <2>5. ASSUME NEW e \in entries, ~Displaced(e), CutOff(e) PROVE CutOff(e)'
    <3>1. PICK f \in Visible : f > e /\ Millisecond[f] = Millisecond[e]
      BY <2>5 DEF CutOff
    <3>2. e \in Nat /\ f \in Nat /\ f \in entries /\ late \subseteq Nat
      BY <1>3, FeedAssumption DEF Visible, FeedInv, FeedTypes
    <3>3. ~Displaced(f)
      <4>1. \A g \in late : ~(g >= e)
        BY <2>5 DEF Displaced
      <4>2. \A g \in late : ~(g >= f)
        BY <3>1, <3>2, <4>1
      <4> QED
        BY <4>2 DEF Displaced
    <3>4. f \in head => ~(f > Heading(R))
      <4>1. head \in SUBSET (1 .. MaxEntries)
        BY <1>3
      <4>2. f \in head => f <= Heading(head)
        BY <4>1, HeadingIs
      <4> QED
        BY <1>7, <1>13, <3>2, <4>2
    <3>5. f \in R \cup older
      BY <2>4, <3>1, <3>2, <3>3, <3>4 DEF Visible
    <3> QED
      BY <2>2, <3>1, <3>5 DEF CutOff
  <2>6. GapInv'
    <3>1. SUFFICES ASSUME ~crossed, NEW e \in entries \ (R \cup older), ~Displaced(e),
                          ~(e > Heading(R)), ~CutOff(e)'
                   PROVE  Showing' /\ \A v \in R \cup older : e < v
      BY <1>5, <2>1, <2>2 DEF GapInv
    <3>2. e \notin Visible /\ ~CutOff(e)
      BY <2>4, <2>5, <3>1 DEF Visible
    <3>3. Showing /\ \A v \in Visible : e < v
      BY <1>13, <3>1, <3>2 DEF FeedInv, GapInv
    <3>4. Cardinality(R) >= PageSize /\ \A r \in R : e < r
      BY <1>4, <3>1 DEF PageAbove
    <3>5. Showing'
      BY <1>5, <2>1, <3>3, <3>4 DEF Showing
    <3> QED
      BY <3>3, <3>4, <3>5 DEF Visible
  <2>7. MoreInv'
    <3>1. SUFFICES ASSUME Loading, ~crossed, more.under = Heading(head),
                          NEW e \in entries \ (R \cup older \cup more.page.rows), ~Displaced(e),
                          ~(e > Heading(R)), ~CutOff(e)'
                   PROVE  /\ more.page.hasMore = "yes"
                          /\ \A v \in R \cup older \cup more.page.rows : e < v
      BY <1>1, <1>5, <1>13, <2>1, <2>2 DEF MoreInv, Loading
    <3>2. e \notin Visible \cup more.page.rows /\ ~CutOff(e)
      BY <2>4, <2>5, <3>1 DEF Visible
    <3>3. /\ more.page.hasMore = "yes"
          /\ \A v \in Visible \cup more.page.rows : e < v
      BY <1>13, <3>1, <3>2 DEF FeedInv, MoreInv
    <3>4. \A r \in R : e < r
      BY <1>4, <3>1 DEF PageAbove
    <3> QED
      BY <3>3, <3>4 DEF Visible
  <2> QED
    BY <1>9, <1>10, <2>3, <2>6, <2>7 DEF FeedInv
<1> QED
  BY <1>11, <1>12, <1>13 DEF FeedInv, FeedTypes

\* Each step of the feed keeps the invariant.
LEMMA FeedStep == ASSUME FeedInv, [FeedNext]_feedVars PROVE FeedInv'
<1>1. CASE \E e \in 1 .. MaxEntries : Record(e)
  BY <1>1, RecordKeeps
<1>2. CASE UNCHANGED feedVars
  BY <1>2 DEF feedVars, FeedInv, FeedTypes, HeadInv, ReadingInv, PageAbove, PageExact, Above,
              Displaced, GapInv, MoreInv, Visible, Showing, CutOff, Loading
<1> QED
  BY <1>1, <1>2, ReadHeadKeeps, HeadLandsKeeps, HeadFailsKeeps, ShowMoreKeeps,
     MoreLandsKeeps, MoreFailsKeeps DEF FeedNext

\* Reading in pages passes over rows for three reasons only: a row cut off with
\* the millisecond of one above it, one displaced by a row that committed late,
\* and an answer appended under another heading. For any page size and any number
\* of rows (ActivityFeed, AuditTrail, listActions, /api/activity).
THEOREM NoOtherGap == FeedSpec => []FeedHasNoGap
<1>1. FeedMount => FeedInv
  <2> SUFFICES ASSUME FeedMount PROVE FeedInv
    OBVIOUS
  <2>1. /\ list \in {"activity", "audit"}
        /\ entries = {} /\ late = {} /\ head = {} /\ older = {} /\ hasMore = "unknown"
        /\ reading.step = "due" /\ reading.page.rows = {}
        /\ more.under = 0 /\ more.page.rows = {}
    BY DEF FeedMount, NoPage
  <2>2. Heading(head) = 0
    BY <2>1 DEF Heading
  <2> QED
    BY <2>1, <2>2 DEF FeedInv, FeedTypes, HeadInv, PageAbove, PageExact, ReadingInv, GapInv,
                      MoreInv, Loading
<1>2. FeedInv => FeedHasNoGap
  <2> SUFFICES ASSUME FeedInv, ~crossed, NEW e \in entries \ Visible,
                      ~CutOff(e), ~Displaced(e), ~(e > Heading(head))
               PROVE  Showing /\ e < Min(Visible)
    BY DEF FeedHasNoGap
  <2>1. Showing /\ \A v \in Visible : e < v
    BY DEF FeedInv, GapInv
  <2>2. PICK V \in SUBSET (1 .. MaxEntries) : V = Visible
    BY DEF FeedInv, FeedTypes, Visible
  <2>3. V # {}
    <3>1. SUFFICES ASSUME head = {} PROVE FALSE
      BY <2>2 DEF Visible
    <3>2. Heading(head) = 0
      BY <3>1 DEF Heading
    <3>3. e \in 1 .. MaxEntries
      BY DEF FeedInv, FeedTypes
    <3> QED
      BY <3>2, <3>3, FeedAssumption
  <2> QED
    BY <2>1, <2>2, <2>3, Ends
<1>3. FeedInv /\ [FeedNext]_feedVars => FeedInv'
  BY FeedStep
<1> QED
  BY <1>1, <1>2, <1>3, PTL DEF FeedSpec
=============================================================================
