------------------------------ MODULE AgentChat ------------------------------
(***************************************************************************)
(* Turns of the agent chat (apps/api/src/domain/agent-chat.ts).  A turn is *)
(* admitted in one transaction, talks to the provider for up to a minute   *)
(* without any lock, and then settles its agent_runs row and frees the     *)
(* conversation in two statements.  Its process may die anywhere; a read   *)
(* of the conversation recovers a turn that has been silent for 75 seconds.*)
(*                                                                         *)
(* What is said is left out: a message counts as an answer or not.         *)
(***************************************************************************)
EXTENDS Naturals, FiniteSets

CONSTANTS
  Conversations, ChatUsers, OwnerOf,
  Turns, ConversationOf,   \* attempts to take a turn
  DailyCap,     \* AGENT_CHAT_DAILY_TURNS
  MaxNotices,   \* bound: notices about the servers of a conversation
  MaxDays,      \* bound: midnights that pass
  MaxStalls,    \* bound: turns that wait so long that they seem dead
  MaxDbErrors   \* bound: statements that fail

ASSUME ChatAssumption ==
  /\ OwnerOf \in [Conversations -> ChatUsers]
  /\ ConversationOf \in [Turns -> Conversations]
  /\ IsFiniteSet(Turns)
  /\ DailyCap \in Nat /\ MaxNotices \in Nat /\ MaxDays \in Nat
  /\ MaxStalls \in Nat /\ MaxDbErrors \in Nat

VARIABLES
  status,      \* agent_conversations.status, "none" before it is created
  silent,      \* updated_at is more than 75 seconds ago
  unanswered,  \* the last user message has no assistant message after it
  run,         \* agent_runs.status of a turn, "none" before admission
  today,       \* turns that started in this UTC day
  turn,        \* the next statement of a turn's handler
  succeeded,   \* its local variable of that name
  notices, days, stalls, dbErrors

conversationVars == <<status, silent, unanswered>>
turnVars == <<turn, succeeded>>
boundVars == <<notices, days, stalls>>
chatVars == <<conversationVars, run, today, turnVars, boundVars, dbErrors>>

ChatTypeOK ==
  /\ status \in [Conversations -> {"none", "pending", "running", "idle"}]
  /\ silent \subseteq Conversations /\ unanswered \subseteq Conversations
  /\ run \in [Turns -> {"none", "running", "succeeded", "failed"}]
  /\ today \subseteq Turns /\ succeeded \subseteq Turns
  /\ turn \in [Turns -> {"start", "ask", "sorry", "settle", "free", "over", "dead"}]
  /\ notices \in Nat /\ days \in Nat /\ stalls \in Nat /\ dbErrors \in Nat

ChatInit ==
  /\ status = [c \in Conversations |-> "none"]
  /\ silent = {} /\ unanswered = {}
  /\ run = [t \in Turns |-> "none"]
  /\ today = {} /\ succeeded = {}
  /\ turn = [t \in Turns |-> "start"]
  /\ notices = 0 /\ days = 0 /\ stalls = 0 /\ dbErrors = 0

TurnsOf(c) == {t \in Turns : ConversationOf[t] = c}
Live(t)    == turn[t] \in {"ask", "sorry", "settle", "free"}
GoOn(t, p) == turn' = [turn EXCEPT ![t] = p]

\* appendMessagesInTx also moves updated_at.
Say(c) == silent' = silent \ {c} /\ unanswered' = unanswered \ {c}

Fails == dbErrors < MaxDbErrors /\ dbErrors' = dbErrors + 1

-----------------------------------------------------------------------------
(* Admission *)

\* createConversation: a first message that holds a secret is answered at once.
Create(c) ==
  /\ status[c] = "none"
  /\ \/ /\ status' = [status EXCEPT ![c] = "pending"]
        /\ unanswered' = unanswered \cup {c}
     \/ /\ status' = [status EXCEPT ![c] = "idle"]
        /\ UNCHANGED unanswered
  /\ UNCHANGED <<silent, run, today, turnVars, boundVars, dbErrors>>

\* Seeded fault: only turns that are still running count.
MutUsed(u) == Cardinality({t \in today : /\ OwnerOf[ConversationOf[t]] = u
                                         /\ run[t] = "running"})

\* Runs of every status count, those of other conversations too.
Used(u) == Cardinality({t \in today : OwnerOf[ConversationOf[t]] = u})

\* Seeded fault: a running conversation takes another turn.
MutAvailable(c) == status[c] # "none"

Available(c) == status[c] \in {"pending", "idle"}

\* The transaction of agentTurn, under the locks of the user and the
\* conversation.  A turn without text is for the pending first message.
Admit(t) ==
  LET c == ConversationOf[t] IN
  /\ turn[t] = "start" /\ Available(c)
  /\ Used(OwnerOf[c]) < DailyCap
  /\ \/ status[c] = "pending" /\ UNCHANGED unanswered
     \/ unanswered' = unanswered \cup {c}
  /\ status' = [status EXCEPT ![c] = "running"]
  /\ silent' = silent \ {c}
  /\ run' = [run EXCEPT ![t] = "running"]
  /\ today' = today \cup {t}
  /\ GoOn(t, "ask")
  /\ UNCHANGED <<succeeded, boundVars, dbErrors>>

\* A message with a secret in it is answered without a turn.
Refuse(c) ==
  /\ Available(c)
  /\ Say(c)
  /\ UNCHANGED <<status, run, today, turnVars, boundVars, dbErrors>>

-----------------------------------------------------------------------------
(* A turn under way *)

\* A tool call is answered and stored, and the turn asks again: all that is
\* seen of it here is that updated_at moves.
UseTool(t) ==
  /\ turn[t] = "ask" /\ ConversationOf[t] \in silent
  /\ silent' = silent \ {ConversationOf[t]}
  /\ UNCHANGED <<status, unanswered, run, today, turnVars, boundVars, dbErrors>>

\* The reply is stored, or the fixed answer to a reply that held a secret.
Reply(t) ==
  /\ turn[t] = "ask"
  /\ Say(ConversationOf[t])
  /\ succeeded' \in {succeeded, succeeded \cup {t}}
  /\ GoOn(t, "settle")
  /\ UNCHANGED <<status, run, today, boundVars, dbErrors>>

\* The provider, the deadline, the tool budget or a statement failed.
Stumble(t) ==
  /\ turn[t] = "ask"
  /\ GoOn(t, "sorry")
  /\ UNCHANGED <<conversationVars, run, today, succeeded, boundVars, dbErrors>>

\* The catch block stores an apology; when that fails, finally still runs.
Apologise(t) ==
  /\ turn[t] = "sorry"
  /\ \/ Say(ConversationOf[t]) /\ UNCHANGED dbErrors
     \/ Fails /\ UNCHANGED <<silent, unanswered>>
  /\ GoOn(t, "settle")
  /\ UNCHANGED <<status, run, today, succeeded, boundVars>>

\* Seeded faults: the run is settled whatever it has become; a failed turn is
\* not settled.
MutFinishable(t) == TRUE
MutOutcome(t) == IF t \in succeeded THEN "succeeded" ELSE "running"

Finishable(t) == run[t] = "running"
Outcome(t)    == IF t \in succeeded THEN "succeeded" ELSE "failed"

\* finishAgentRun throws when the run is not running any more, and then the
\* statement after it is not reached.
Settle(t) ==
  /\ turn[t] = "settle"
  /\ \/ /\ Finishable(t)
        /\ run' = [run EXCEPT ![t] = Outcome(t)]
        /\ GoOn(t, "free")
        /\ UNCHANGED dbErrors
     \/ /\ ~Finishable(t)
        /\ GoOn(t, "over")
        /\ UNCHANGED <<run, dbErrors>>
     \/ /\ Fails
        /\ GoOn(t, "over")
        /\ UNCHANGED run
  /\ UNCHANGED <<conversationVars, today, succeeded, boundVars>>

\* The conversation is set idle without a look at its status.
SetIdle(t) ==
  LET c == ConversationOf[t] IN
  /\ turn[t] = "free"
  /\ \/ /\ status' = [status EXCEPT ![c] = "idle"]
        /\ silent' = silent \ {c}
        /\ UNCHANGED dbErrors
     \/ /\ Fails
        /\ UNCHANGED <<status, silent>>
  /\ GoOn(t, "over")
  /\ UNCHANGED <<unanswered, run, today, succeeded, boundVars>>

\* The process of a turn dies.
Die(t) ==
  /\ Live(t)
  /\ GoOn(t, "dead")
  /\ UNCHANGED <<conversationVars, run, today, succeeded, boundVars, dbErrors>>

-----------------------------------------------------------------------------
(* Time and recovery *)

\* 75 seconds without a message.  A live turn is never silent that long, its
\* provider deadline being 60 seconds, unless it stalls; then it stalls in its
\* calls, and not between the two statements that end it.
FallSilent(c) ==
  /\ status[c] = "running" /\ c \notin silent
  /\ \A t \in TurnsOf(c) : Live(t) => turn[t] \in {"ask", "sorry"}
  /\ \/ /\ \A t \in TurnsOf(c) : ~Live(t)
        /\ UNCHANGED stalls
     \/ /\ \E t \in TurnsOf(c) : Live(t)
        /\ stalls < MaxStalls /\ stalls' = stalls + 1
  /\ silent' = silent \cup {c}
  /\ UNCHANGED <<status, unanswered, run, today, turnVars, notices, days, dbErrors>>

\* Seeded faults: the recovery says nothing; it looks for a run to fail.
MutRecoveredTalk(c) == unanswered
MutRecoverable(c) == /\ status[c] = "running" /\ c \in silent
                     /\ \E t \in TurnsOf(c) : run[t] = "running"

Recoverable(c) == status[c] = "running" /\ c \in silent

\* Every running run of a silent conversation started over a minute ago.
RecoveredRuns(c) == [t \in Turns |-> IF ConversationOf[t] = c /\ run[t] = "running"
                                       THEN "failed" ELSE run[t]]
RecoveredTalk(c) == unanswered \ {c}

\* getConversation, the transaction of its first part.
Recover(c) ==
  /\ Recoverable(c)
  /\ unanswered' = RecoveredTalk(c)
  /\ silent' = silent \ {c}
  /\ status' = [status EXCEPT ![c] = "idle"]
  /\ run' = RecoveredRuns(c)
  /\ UNCHANGED <<today, turnVars, boundVars, dbErrors>>

\* A request was linked to the conversation, or its server is ready: once
\* each, an event or a notice is stored, and updated_at moves.
Notice(c) ==
  /\ status[c] # "none" /\ c \in silent
  /\ notices < MaxNotices /\ notices' = notices + 1
  /\ silent' = silent \ {c}
  /\ UNCHANGED <<status, unanswered, run, today, turnVars, days, stalls, dbErrors>>

Midnight ==
  /\ days < MaxDays /\ days' = days + 1
  /\ today' = {}
  /\ UNCHANGED <<conversationVars, run, turnVars, notices, stalls, dbErrors>>

-----------------------------------------------------------------------------
Progress(t) == Reply(t) \/ Stumble(t) \/ Apologise(t) \/ Settle(t) \/ SetIdle(t)

ChatNext == \/ \E c \in Conversations :
                 Create(c) \/ Refuse(c) \/ FallSilent(c) \/ Recover(c) \/ Notice(c)
            \/ \E t \in Turns : Admit(t) \/ UseTool(t) \/ Progress(t) \/ Die(t)
            \/ Midnight

ChatSpec == ChatInit /\ [][ChatNext]_chatVars

\* The event loop goes on with every turn, the provider deadline ends its
\* calls, time passes, and the owner's open page reads the conversation every
\* few seconds.
FairChatSpec ==
  /\ ChatSpec
  /\ \A t \in Turns : WF_chatVars(Progress(t))
  /\ \A c \in Conversations : WF_chatVars(FallSilent(c)) /\ WF_chatVars(Recover(c))

-----------------------------------------------------------------------------
(* Properties *)

\* The faults the properties are about: a turn that seemed dead, or a
\* statement that failed, but not one after the other.
OneKindOfFault == stalls = 0 \/ dbErrors = 0

\* Turns of a conversation come one after the other: it has one running turn at
\* a time (docs/agent-chat.md), and none when it is not running itself, through
\* dead processes, failed statements and recoveries.  A turn that comes back
\* after it was given up does not free a conversation another one is working
\* on (finishAgentRun fails first), and two handlers meet in one only if a
\* live turn seemed dead (agentTurn, getConversation).
TurnsAreSerial ==
  \A c \in Conversations :
    /\ OneKindOfFault =>
         LET atWork == {t \in TurnsOf(c) : run[t] = "running"}
         IN Cardinality(atWork) <= (IF status[c] = "running" THEN 1 ELSE 0)
    /\ stalls = 0 => Cardinality({t \in TurnsOf(c) : Live(t)}) <= 1

\* No user message is left without an answer, an apology or the notice that
\* the turn was interrupted, unless the statement that stores it failed
\* (catch block of agentTurn, getConversation).
EveryMessageAnswered ==
  dbErrors = 0 => \A c \in unanswered : status[c] \in {"pending", "running"}

\* A user never takes more turns a day than the cap, over all conversations,
\* however the turns ended ("concurrent requests cannot exceed the cap").
DailyCapHolds ==
  \A u \in ChatUsers :
    Cardinality({t \in today : OwnerOf[ConversationOf[t]] = u}) <= DailyCap

\* A conversation does not stay busy: its turn ends, or is recovered.
TurnsEnd == \A c \in Conversations : status[c] = "running" ~> status[c] # "running"
=============================================================================
