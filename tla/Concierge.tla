------------------------------- MODULE Concierge -------------------------------
(***************************************************************************)
(* The concierge: a text goes to a model that answers fixed questions, at  *)
(* most once more in translation, and rules turn the answers into a plan   *)
(* and software, or into a no.  What it suggests is created by another     *)
(* call, with checks of its own (validateServerSetup).                     *)
(*                                                                         *)
(* Probabilities are on one side of their threshold; the answers are the   *)
(* model's and may be any.  Sizes are GB of memory and disk.               *)
(***************************************************************************)
EXTENDS Naturals, Sequences, FiniteSets

CONSTANTS
  Games, Docker,     \* software the rules can pick
  NeedsVm,           \* that cannot run in a container
  ComingSoon,        \* that cannot be installed yet
  DailyCap           \* suggestions a user gets in a day

ASSUME ConciergeAssumption ==
  /\ Games # {} /\ Docker \notin Games /\ DailyCap \in Nat
  /\ NeedsVm \cup ComingSoon \subseteq Games \cup {Docker}

VARIABLES
  tier,      \* of the user, as the session resolved it
  step,      \* where the suggestion is
  reply,     \* the answers to the questions
  outcome,   \* what the caller gets
  agentRun,  \* its row in agent_runs
  used       \* rows of today

suggestVars == <<tier, step, reply, outcome, agentRun, used>>

-----------------------------------------------------------------------------
(* The plan table *)

Shape(cpu, memory, disk) ==
  [cpu |-> cpu, memory |-> memory, disk |-> disk, technicalOnly |-> TRUE, available |-> TRUE,
   vm |-> TRUE, desktop |-> FALSE, gpu |-> FALSE]

PlanTable == <<
  [Shape(2, 2, 20) EXCEPT !.technicalOnly = FALSE, !.vm = FALSE],  \* container-small
  [Shape(4, 4, 40) EXCEPT !.vm = FALSE, !.gpu = TRUE],             \* container-gpu
  Shape(4, 4, 40),                                                 \* vm-medium
  Shape(8, 8, 80),                                                 \* vm-large
  [Shape(2, 2, 20) EXCEPT !.desktop = TRUE],                       \* desktop-ubuntu
  [Shape(4, 4, 40) EXCEPT !.desktop = TRUE, !.available = FALSE]>> \* desktop-omarchy

AllPlans == DOMAIN PlanTable
NoPlan == 0

AtLeast(p, q) == /\ PlanTable[p].cpu >= PlanTable[q].cpu
                 /\ PlanTable[p].memory >= PlanTable[q].memory
                 /\ PlanTable[p].disk >= PlanTable[q].disk

\* By CPU, memory, disk; ties keep catalog order.  In the table memory and
\* disk grow with the CPU.
Smallest(S) == CHOOSE p \in S : \A q \in S :
                 \/ PlanTable[p].cpu < PlanTable[q].cpu
                 \/ PlanTable[p].cpu = PlanTable[q].cpu /\ p <= q

EligiblePlans(t) == {p \in AllPlans : /\ PlanTable[p].available /\ ~PlanTable[p].gpu
                                      /\ PlanTable[p].technicalOnly => t = "technical"}

Runs(p, recipe) == recipe \in NeedsVm => PlanTable[p].vm

\* validateServerSetup and recipeRequestProblem, for a user who accepts the
\* license.  Software that is coming soon is asked for as plain Ubuntu.
Accepted(p, recipe, t) ==
  /\ p \in AllPlans
  /\ PlanTable[p].technicalOnly => t = "technical"
  /\ PlanTable[p].available
  /\ recipe \in Games \cup {Docker} /\ recipe \notin ComingSoon => Runs(p, recipe)

-----------------------------------------------------------------------------
(* Questions and rules *)

Offered == {"game", "service", "desktop", "learn"}

\* Answers as the rules tell them apart: the plan that is sure, or none given;
\* a game that is likely.
Replies == {a \in [use : Offered \cup {"not_offered"}, sure : BOOLEAN, likely : Offered,
                   plan : {NoPlan} \cup AllPlans, planSure : BOOLEAN,
                   game : Games, gameSure : BOOLEAN, gui : BOOLEAN, containers : BOOLEAN,
                   abuse : {"none", "review", "refuse"}, scraping : BOOLEAN,
                   english : BOOLEAN] :
              /\ a.use # "not_offered" \/ a.sure => a.likely = "game"
              /\ ~a.planSure => a.plan = NoPlan}

UseCase(a) == IF a.use = "not_offered" /\ ~a.sure THEN a.likely ELSE a.use

NeedsTranslation(a) == /\ UseCase(a) # "not_offered"
                       /\ ~a.sure \/ (UseCase(a) = "game" /\ ~a.gameSure)

Software(a) == CASE UseCase(a) = "game"                     -> a.game
                 [] UseCase(a) = "service" /\ a.containers  -> Docker
                 [] OTHER                                   -> "none"

Fits(p, a) == /\ IF UseCase(a) = "desktop" THEN PlanTable[p].desktop
                                           ELSE a.gui \/ ~PlanTable[p].desktop
              /\ Runs(p, Software(a))

No(reason) == [is |-> reason, plan |-> NoPlan, recipe |-> "none", warned |-> FALSE]

\* Seeded fault: a plan that does not fit makes room for the smallest that does.
MutEnough(from, S) == S

\* The plans a sure one that does not fit may be replaced by.
Enough(from, S) == {p \in S : AtLeast(p, from)}

\* The plan, or NoPlan.
Sized(a, t, S) ==
  LET sure == UseCase(a) # "learn" /\ a.planSure
  IN  IF ~sure THEN Smallest(S)
      ELSE IF Fits(a.plan, a) THEN a.plan
      ELSE IF Enough(a.plan, S) = {} THEN NoPlan ELSE Smallest(Enough(a.plan, S))

\* decideSuggestion.
Decision(a, t) ==
  LET candidates == {p \in EligiblePlans(t) : Fits(p, a)}
      plan == Sized(a, t, candidates)
  IN  CASE a.abuse = "refuse"             -> No("refused")
        [] UseCase(a) = "not_offered"     -> No("unsupported")
        [] candidates = {}                -> IF \E p \in AllPlans : PlanTable[p].available /\ Fits(p, a)
                                               THEN No("locked") ELSE No("too_large")
        [] a.planSure /\ a.plan = NoPlan  -> No("too_large")
        [] OTHER                          ->
             IF plan = NoPlan THEN No("too_large")
             ELSE [is |-> "suggested", plan |-> plan, recipe |-> Software(a),
                   warned |-> a.abuse = "review" \/ a.scraping]

-----------------------------------------------------------------------------
(* One suggestion after the other *)

Unasked == [abuse |-> "none", scraping |-> FALSE]
Then(s) == step' = s

\* The cap counts runs of every status, under the lock of the user's row.
AdmitSuggestion ==
  /\ step = "over" /\ used < DailyCap
  /\ used' = used + 1 /\ agentRun' = "running"
  /\ tier' \in {"technical", "nontechnical"}
  /\ reply' = Unasked /\ outcome' = No("none") /\ Then("first")

\* Answers to the questions of this tier; any other plan is a bad response.
Answers(t) == {a \in Replies : a.plan \in {NoPlan} \cup EligiblePlans(t)}

\* Refusals are not translated away.
AskFirst ==
  /\ step = "first"
  /\ \E a \in Answers(tier) :
       IF a.abuse # "refuse" /\ ~a.english /\ NeedsTranslation(a)
         THEN Then("translate") /\ reply' = [abuse |-> a.abuse, scraping |-> a.scraping]
         ELSE Then("decide") /\ reply' = a
  /\ UNCHANGED <<tier, outcome, agentRun, used>>

Translate == /\ step = "translate" /\ Then("second")
             /\ UNCHANGED <<tier, reply, outcome, agentRun, used>>

\* What is against the policy counts from both.
AskSecond ==
  /\ step = "second"
  /\ \E a \in Answers(tier) :
       reply' = [a EXCEPT !.abuse = IF @ = "none" THEN reply.abuse ELSE @,
                          !.scraping = @ \/ reply.scraping]
  /\ Then("decide")
  /\ UNCHANGED <<tier, outcome, agentRun, used>>

\* The suggestion is the caller's only when its run is settled.
Decide ==
  /\ step = "decide" /\ Then("over")
  /\ outcome' = Decision(reply, tier) /\ agentRun' = "succeeded"
  /\ UNCHANGED <<tier, reply, used>>

\* A call or the deadline failed; the run is failed, as far as the database is
\* there.
UpstreamFails ==
  /\ step \in {"first", "translate", "second"} /\ Then("over")
  /\ agentRun' \in {"running", "failed"}
  /\ UNCHANGED <<tier, reply, outcome, used>>

\* The run could not be settled, or the process died: it stays as it is.
StaysRunning == /\ step # "over" /\ Then("over")
                /\ UNCHANGED <<tier, reply, outcome, agentRun, used>>

SuggestMount == /\ tier = "technical" /\ step = "over" /\ reply = Unasked
                /\ outcome = No("none") /\ agentRun = "none" /\ used = 0

SuggestNext == \/ AdmitSuggestion \/ AskFirst \/ Translate \/ AskSecond
               \/ Decide \/ UpstreamFails \/ StaysRunning

-----------------------------------------------------------------------------
(* Properties *)

\* Whatever the model answered in one or two passes, what is suggested can be
\* created by this user as it is (Suggestion: "A complete, createable
\* configuration"), and a size the model was sure of is not undercut to make
\* room for software or a desktop (decideSuggestion: "A confident plan that
\* needs normalizing is never shrunk").
SuggestionsHold == outcome.is = "suggested" =>
  /\ Accepted(outcome.plan, outcome.recipe, tier)
  /\ UseCase(reply) # "learn" /\ reply.planSure => AtLeast(outcome.plan, reply.plan)
=============================================================================
