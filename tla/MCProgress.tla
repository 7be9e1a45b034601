------------------------------ MODULE MCProgress ------------------------------
(***************************************************************************)
(* What has to go on by itself: the turns of the agent chat, the worker    *)
(* loops that rest until they are poked, and a deploy of the stack.  They  *)
(* share no state: a behaviour is about one of them, the others keep their *)
(* first state, and each brings its own fairness.                          *)
(*                                                                         *)
(* Chat: one user, two turns in one conversation and a third in another.   *)
(* Loops: three over machine_execs that poke each other, or one over       *)
(* provision_jobs.  Deploy: build 3 changes the Traefik labels; a stack    *)
(* that was never started gets one deploy less than one that runs.         *)
(***************************************************************************)
EXTENDS AgentChat, Wakeup, Rollout

VARIABLE about  \* what this behaviour is about
progressVars == <<about, chatVars, wakeVars, vars>>

ProgressInit ==
  /\ about \in {"chat", "loops", "deploy"}
  /\ ChatInit
  /\ WakeInit /\ (about # "loops" => Serial)
  /\ Init /\ (about # "deploy" => cold)

ProgressNext ==
  \/ about = "chat" /\ ChatNext /\ UNCHANGED <<about, wakeVars, vars>>
  \/ about = "loops" /\ WakeNext /\ UNCHANGED <<about, chatVars, vars>>
  \/ /\ about = "deploy" /\ Next /\ (cold => deploys' < MaxDeploys)
     /\ UNCHANGED <<about, chatVars, wakeVars>>

\* FairChatSpec and FairSpec; NotificationsSuffice states what it needs.
ProgressSpec ==
  /\ ProgressInit /\ [][ProgressNext]_progressVars
  /\ \A t \in Turns : WF_chatVars(about = "chat" /\ Progress(t))
  /\ \A c \in Conversations : /\ WF_chatVars(about = "chat" /\ FallSilent(c))
                              /\ WF_chatVars(about = "chat" /\ Recover(c))
  /\ WF_vars(about = "deploy" /\ ContainerStep)
  /\ WF_vars(about = "deploy" /\ ScriptStep)

CONSTANTS alice, chat, other, t1, t2, t3, job, e1, e2, e3

OneOwner == [c \in Conversations |-> alice]
TwoChats == [t \in Turns |-> IF t = t3 THEN other ELSE chat]
MCLabels == [b \in Builds |-> IF b = 3 THEN "new" ELSE "old"]
=============================================================================
