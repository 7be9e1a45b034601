-------------------------------- MODULE MCPages --------------------------------
(***************************************************************************)
(* The pages of the panel and the concierge behind the forms.  They share  *)
(* no state: a behaviour is about one of them, and the others keep their   *)
(* first state.                                                            *)
(***************************************************************************)
EXTENDS DesktopCanvas, RequestForms, Concierge, Panel, Feed

VARIABLE open  \* what this behaviour is about
pagesVars == <<open, canvasVars, formsVars, suggestVars, panelVars, feedVars>>

PagesInit == /\ open \in {"desktop", "forms", "concierge", "panel", "feed"}
             /\ CanvasMount /\ (open # "desktop" => session = "pending")
             /\ FormsMount /\ (open # "forms" => place = "home")
             /\ SuggestMount
             /\ PanelMount
             /\ open # "panel" => /\ page = "list" /\ tour = {"list", "progress"}
                                  /\ server.status = "running" /\ server.setup = "failed"
             /\ FeedMount /\ (open # "feed" => list = "activity")

PagesNext ==
  \/ /\ open = "desktop" /\ CanvasNext
     /\ UNCHANGED <<open, formsVars, suggestVars, panelVars, feedVars>>
  \/ /\ open = "forms" /\ FormsNext
     /\ UNCHANGED <<open, canvasVars, suggestVars, panelVars, feedVars>>
  \/ /\ open = "concierge" /\ SuggestNext
     /\ UNCHANGED <<open, canvasVars, formsVars, panelVars, feedVars>>
  \/ /\ open = "panel" /\ PanelNext
     /\ UNCHANGED <<open, canvasVars, formsVars, suggestVars, feedVars>>
  \/ /\ open = "feed" /\ FeedNext
     /\ UNCHANGED <<open, canvasVars, formsVars, suggestVars, panelVars>>

PagesSpec == PagesInit /\ [][PagesNext]_pagesVars

CONSTANTS mine, web

MCMods == {"ctrl"}
\* Rows 2 and 3, 4 and 5, ... are of one millisecond.
MCMillisecond == [e \in 1..MaxEntries |-> e \div 2]
=============================================================================
