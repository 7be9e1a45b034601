----------------------------- MODULE SiteGenerate -----------------------------
(***************************************************************************)
(* generateSite (packages/sites/src/generate/generate.ts): one call plans  *)
(* the pages, a few workers fill them, and each piece that fails is asked  *)
(* for once more from a stronger model.  Several generations run at the    *)
(* same time.  The client they call is a parameter of what composes this   *)
(* module: Ask hands a call to it, Return takes its answer.                *)
(*                                                                         *)
(* Briefs, prompts and pages are left out: a piece of content passes its   *)
(* checks or not.                                                          *)
(***************************************************************************)
EXTENDS Naturals, FiniteSets

CONSTANTS
  Jobs,      \* how many generations there are
  Pages,     \* pages of a site
  Workers    \* GenerateOptions.concurrency

ASSUME GenerateAssumption ==
  Jobs \in Nat /\ Pages \in Nat \ {0} /\ Workers \in Nat \ {0}

VARIABLES
  phase,     \* of a generation
  stage,     \* of a piece: 0 is the plan, 1 .. Pages are the pages
  call,      \* what the client does for a piece; Ask sets it, Return clears it
  made       \* generations whose result is ok

siteVars == <<phase, stage, call, made>>

Pieces == (1 .. Jobs) \X (0 .. Pages)
Open   == {"first", "retry"}

SiteTypeOK(Calls) ==
  /\ phase \in [1 .. Jobs -> {"off", "plan", "pages", "over"}]
  /\ stage \in [Pieces -> {"todo", "first", "retry", "ok", "failed"}]
  /\ call \in [Pieces -> {"none", "ask"} \cup Calls]
  /\ \A k \in Pieces : call[k] # "none" <=> stage[k] \in Open
  /\ made \subseteq 1 .. Jobs

SiteInit ==
  /\ phase = [j \in 1 .. Jobs |-> "off"]
  /\ stage = [k \in Pieces |-> "todo"]
  /\ call = [k \in Pieces |-> "none"]
  /\ made = {}

-----------------------------------------------------------------------------
PiecesOf(j)  == {k \in Pieces : k[1] = j}
PagesOf(j)   == {k \in PiecesOf(j) : k[2] # 0}
AtWork(j)    == {k \in PiecesOf(j) : stage[k] \in Open}
PageFailed(j) == \E k \in PagesOf(j) : stage[k] = "failed"

Ask(k, s) == /\ stage' = [stage EXCEPT ![k] = s]
             /\ call' = [call EXCEPT ![k] = "ask"]

\* A brief that no content could satisfy fails before the first call.
Generate(j) ==
  /\ phase[j] = "off"
  /\ \/ /\ phase' = [phase EXCEPT ![j] = "plan"]
        /\ Ask(<<j, 0>>, "first")
     \/ /\ phase' = [phase EXCEPT ![j] = "over"]
        /\ UNCHANGED <<stage, call>>
  /\ UNCHANGED made

\* Where a generation stands when a piece has ended: with a plan the pages
\* begin, unless its tagline does not pass.
After(k, good) == IF k[2] # 0 THEN {phase[k[1]]}
                  ELSE IF good THEN {"pages", "over"} ELSE {"over"}

\* The client has answered; what failed is escalated once.
Return(k, good) ==
  /\ stage[k] \in Open
  /\ \/ /\ ~good /\ stage[k] = "first"
        /\ Ask(k, "retry")
        /\ UNCHANGED phase
     \/ /\ good \/ stage[k] = "retry"
        /\ stage' = [stage EXCEPT ![k] = IF good THEN "ok" ELSE "failed"]
        /\ call' = [call EXCEPT ![k] = "none"]
        /\ \E p \in After(k, good) : phase' = [phase EXCEPT ![k[1]] = p]
  /\ UNCHANGED made

\* A free worker takes the next page, unless one has failed.
Fill(k) ==
  LET j == k[1] IN
  /\ phase[j] = "pages" /\ k \in PagesOf(j)
  /\ stage[k] = "todo"
  /\ \A m \in PagesOf(j) : m[2] < k[2] => stage[m] # "todo"
  /\ ~PageFailed(j)
  /\ Cardinality(AtWork(j)) < Workers
  /\ Ask(k, "first")
  /\ UNCHANGED <<phase, made>>

\* Seeded fault: a failed page ends the generation at once.
MutRested(j) == \/ PageFailed(j)
                \/ \A k \in PagesOf(j) : stage[k] = "ok"

\* Promise.all: every worker has left its loop.
Rested(j) == /\ AtWork(j) = {}
             /\ PageFailed(j) \/ \A k \in PagesOf(j) : stage[k] = "ok"

\* The whole site is checked once more.
Filled(j) ==
  /\ phase[j] = "pages" /\ Rested(j)
  /\ phase' = [phase EXCEPT ![j] = "over"]
  /\ made' \in IF PageFailed(j) THEN {made} ELSE {made, made \cup {j}}
  /\ UNCHANGED <<stage, call>>

SiteStep(j) == Filled(j) \/ \E k \in PagesOf(j) : Fill(k)
=============================================================================
