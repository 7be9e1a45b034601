---------------------------- MODULE RequestForms ----------------------------
(***************************************************************************)
(* How a request is put together in the panel.  The search box of the      *)
(* dashboard opens a chat or, where there is none, asks the concierge in   *)
(* place and ends in a card that creates the request; the page for a new   *)
(* request asks the same concierge and copies its pick into a form.  All   *)
(* of it lives in the components on the page and goes with them, while     *)
(* calls that are under way go on.                                         *)
(*                                                                         *)
(* Names and keys are valid or not; the words of the copy are left out.    *)
(***************************************************************************)
EXTENDS Naturals, FiniteSets

CONSTANTS Recipes,   \* installable software
          Licensed,  \* those with an EULA to accept
          VmOnly,    \* those that need a VM plan
          MaxCalls   \* bound: calls the user starts

ASSUME FormsAssumption == Licensed \subseteq Recipes /\ VmOnly \subseteq Recipes
                          /\ MaxCalls \in Nat

Plain == "plain"  \* no software, or software that is coming soon
Plans == {"vm", "container"}
Nothing == [plan |-> "none", recipe |-> Plain]
Picks == {p \in [plan : Plans, recipe : Recipes \cup {Plain}] :
            p.recipe \in VmOnly => p.plan = "vm"}

VARIABLES
  place,     \* the page: home, new, progress, chat or another one
  asking,    \* the concierge call of the page is under way
  result,    \* its answer: none, declined or a suggestion
  problem,   \* what is shown instead: none, retry or final
  off,       \* conciergeUnavailable of this page load
  hidden,    \* the page has seen it: the concierge is not offered
  inline,    \* the chat is unavailable: the box asks the concierge
  opening,   \* the chat calls under way: of this page, of one that is gone
  pick,      \* plan and software of the form
  eula,      \* its checkbox
  ticked,    \* what the user ticked the checkbox for
  creating,  \* the creations under way
  asked      \* calls so far

helperVars == <<asking, result, problem, off, hidden, inline, opening>>
formVars   == <<pick, eula, ticked>>
formsVars  == <<place, helperVars, formVars, creating, asked>>

Calls == [what : [plan : Plans, recipe : Recipes \cup {Plain}],
          ticked : Recipes \cup {Plain}, here : BOOLEAN]

FormsTypeOK ==
  /\ place \in {"home", "new", "progress", "chat", "else"}
  /\ {asking, off, hidden, inline, eula} \subseteq BOOLEAN
  /\ result \in Picks \cup {Nothing, [plan |-> "none", recipe |-> "declined"]}
  /\ problem \in {"none", "retry", "final"}
  /\ opening \in SUBSET {"here", "gone"}
  /\ pick \in [plan : Plans \cup {"none"}, recipe : Recipes \cup {Plain}]
  /\ ticked \in Recipes \cup {Plain}
  /\ creating \subseteq Calls
  /\ asked \in 0 .. MaxCalls

Declined == [plan |-> "none", recipe |-> "declined"]
Suggested == result \in Picks

-----------------------------------------------------------------------------
(* Pages come and go *)

Blank == /\ asking' = FALSE /\ result' = Nothing /\ problem' = "none"
         /\ inline' = FALSE
         /\ pick' = Nothing /\ eula' = FALSE /\ ticked' = Plain

\* The component that made the calls is gone.
Dropped(calls) == {[c EXCEPT !.here = FALSE] : c \in calls}

\* Everything on the page is new; callbacks passed with a call are dropped with
\* the component, those of the hook itself are not.
Go(p) ==
  /\ place' = p /\ Blank
  /\ hidden' = off
  /\ opening' = {"gone" : x \in opening}
  /\ creating' = Dropped(creating)

Leave == /\ \E p \in {"home", "new", "else"} : Go(p)
         /\ UNCHANGED <<off, asked>>

-----------------------------------------------------------------------------
(* The search box and the concierge *)

Ask == asked < MaxCalls /\ asked' = asked + 1

\* A text with a secret in it is not sent.  On the dashboard the card goes with
\* the result it was made of, also while it creates.
Submitted ==
  /\ result' = Nothing /\ eula' = (eula /\ place = "new")
  /\ \/ asking' = TRUE /\ problem' = "none"
     \/ problem' = "final" /\ UNCHANGED asking

Submit ==
  /\ place \in {"home", "new"} /\ ~asking /\ ~hidden /\ Ask
  /\ place = "home" => inline
  /\ place = "new" => \A c \in creating : ~c.here
  /\ Submitted
  /\ creating' = IF place = "home" THEN Dropped(creating) ELSE creating
  /\ UNCHANGED <<place, off, hidden, inline, opening, pick, ticked>>

Retry ==
  /\ problem = "retry" /\ ~asking /\ ~hidden /\ Ask
  /\ \A c \in creating : ~c.here
  /\ asking' = TRUE /\ problem' = "none"
  /\ UNCHANGED <<place, result, off, hidden, inline, opening, formVars, creating>>

\* A new result is a new card: its key counts the answers.
Answered ==
  /\ asking /\ asking' = FALSE
  /\ eula' = (eula /\ place = "new")
  /\ \/ result' \in Picks \cup {Declined} /\ UNCHANGED <<problem, off, hidden>>
     \/ problem' \in {"retry", "final"} /\ UNCHANGED <<result, off, hidden>>
     \/ off' = TRUE /\ hidden' = TRUE /\ UNCHANGED <<result, problem>>
  /\ UNCHANGED <<place, inline, opening, pick, ticked, creating, asked>>

StartOver ==
  /\ result # Nothing /\ ~asking
  /\ place = "home" => \A c \in creating : ~c.here
  /\ result' = Nothing /\ problem' = "none"
  /\ eula' = (eula /\ place = "new")
  /\ UNCHANGED <<place, asking, off, hidden, inline, opening, pick, ticked, creating,
                 asked>>

\* The search box opens a conversation first.
OpenChat ==
  /\ place = "home" /\ ~asking /\ ~inline /\ "here" \notin opening /\ Ask
  /\ opening' = opening \cup {"here"}
  /\ UNCHANGED <<place, asking, result, problem, off, hidden, inline, formVars, creating>>

\* onSuccess belongs to the hook: it leads to the chat from any page.
ChatOpened ==
  /\ \E o \in opening : opening' = {"gone" : x \in opening \ {o}}
  /\ place' = "chat" /\ Blank /\ hidden' = off
  /\ creating' = Dropped(creating)
  /\ UNCHANGED <<off, asked>>

\* Without a chat the text goes to the concierge; other errors are shown.
ChatFailed ==
  /\ \E o \in opening :
       /\ opening' = opening \ {o}
       /\ \/ UNCHANGED <<asking, problem, result, inline, eula>>
          \/ /\ o = "here" /\ inline' = TRUE
             /\ IF hidden THEN result' = Nothing /\ UNCHANGED <<asking, problem, eula>>
                          ELSE Submitted
  /\ UNCHANGED <<place, off, hidden, pick, ticked, creating, asked>>

-----------------------------------------------------------------------------
(* The form and the card *)

\* What the card on the dashboard or the form on its own page would send.
Drafted == IF place = "home" THEN (IF Suggested THEN result ELSE Nothing) ELSE pick

Idle == \A c \in creating : ~c.here

\* Seeded fault: an accepted license stays accepted.
MutUseThis ==
  /\ place = "new" /\ Suggested /\ Idle
  /\ pick' = result
  /\ UNCHANGED <<place, helperVars, creating, asked, eula, ticked>>

\* applySetup.
UseThis ==
  /\ place = "new" /\ Suggested /\ Idle
  /\ pick' = result /\ eula' = FALSE
  /\ UNCHANGED <<place, helperVars, creating, asked, ticked>>

PickPlan == /\ place = "new" /\ Idle
            /\ \E p \in Plans : pick' = [pick EXCEPT !.plan = p]
            /\ UNCHANGED <<place, helperVars, creating, asked, eula, ticked>>

PlainInstead == /\ place = "new" /\ Idle /\ pick.recipe # Plain
                /\ pick' = [pick EXCEPT !.recipe = Plain] /\ eula' = FALSE
                /\ UNCHANGED <<place, helperVars, creating, asked, ticked>>

Tick == /\ place \in {"home", "new"} /\ Idle /\ Drafted.recipe \in Licensed
        /\ eula' = ~eula
        /\ ticked' = IF eula THEN Plain ELSE Drafted.recipe
        /\ UNCHANGED <<place, helperVars, creating, asked, pick>>

\* The name and the key are valid, and nothing the API would refuse is missing.
Complete(d) == /\ d.plan # "none"
               /\ d.recipe \in VmOnly => d.plan = "vm"
               /\ d.recipe \in Licensed => eula

Create ==
  /\ place \in {"home", "new"} /\ Idle /\ Complete(Drafted) /\ Ask
  /\ creating' = creating \cup {[what |-> Drafted, ticked |-> ticked, here |-> TRUE]}
  /\ UNCHANGED <<place, helperVars, formVars>>

\* The page of the new request is opened by a callback of the call: only from
\* the form that made it.
Created ==
  /\ \E c \in creating :
       IF c.here THEN /\ place' = "progress" /\ Blank /\ hidden' = off
                      /\ opening' = {"gone" : x \in opening}
                      /\ creating' = Dropped(creating \ {c})
                 ELSE /\ creating' = creating \ {c}
                      /\ UNCHANGED <<place, asking, result, problem, hidden, inline,
                                     opening, formVars>>
  /\ UNCHANGED <<off, asked>>

\* Refused, or the answer was lost and nobody can tell.
CreateFails ==
  /\ \E c \in creating : creating' = creating \ {c}
  /\ UNCHANGED <<place, helperVars, formVars, asked>>

FormsMount ==
  /\ place \in {"home", "new"}
  /\ asking = FALSE /\ result = Nothing /\ problem = "none" /\ inline = FALSE
  /\ off = FALSE /\ hidden = FALSE /\ opening = {}
  /\ pick = Nothing /\ eula = FALSE /\ ticked = Plain
  /\ creating = {} /\ asked = 0

FormsNext == \/ Leave \/ Submit \/ Retry \/ Answered \/ StartOver
             \/ OpenChat \/ ChatOpened \/ ChatFailed
             \/ UseThis \/ PickPlan \/ PlainInstead \/ Tick
             \/ Create \/ Created \/ CreateFails

-----------------------------------------------------------------------------
(* Properties *)

\* No request with licensed software is sent unless the user has accepted the
\* license of this very software, however often picks, answers, pages and
\* plain Ubuntu have replaced each other in between (applySetup, ConfirmCard).
AcceptedWhatIsSent ==
  \A c \in creating : c.what.recipe \in Licensed => c.ticked = c.what.recipe
=============================================================================
