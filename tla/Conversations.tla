--------------------------- MODULE Conversations ---------------------------
(***************************************************************************)
(* The Telegram bot in one private chat: the plan made for every message,  *)
(* the free replies, the structured collector, the handoffs it opens and   *)
(* the owner who decides them meanwhile.                                   *)
(*                                                                         *)
(* The bot handles one update at a time, but each await of a handler is a  *)
(* step of its own: the process may die between two of them, and Telegram  *)
(* delivers again what was never acknowledged.  What a handler throws is   *)
(* caught by bot.catch: the update counts as handled.                      *)
(***************************************************************************)
EXTENDS Integers, Sequences

CONSTANTS
  Representatives,  \* representatives the chat may be switched to
  Default,          \* the representative of DEMO_REP_SLUG
  Messages,         \* updates the audience may send
  ActionGate,       \* [Representatives -> [Actions -> GateModes]]
  FreeReplyLimit,   \* [Representatives -> Nat]
  QuestionCount,    \* questions of a collector: five in the code
  MaxMessages,      \* bound: updates sent
  MaxFaults,        \* bound: crashes, and calls that throw
  MaxDecisions,     \* bound: decisions of the owner
  Nothing           \* null

Intents ==
  {"faq", "collaboration", "pricing", "materials", "scheduling", "handoff", "refund",
   "discount", "candidate", "media", "support", "restricted", "unknown"}
GateModes == {"allow", "ask_first", "deny"}

IntentToAction ==
  [i \in Intents |->
     CASE i \in {"faq", "unknown"} -> "answer_faq"
       [] i \in {"collaboration", "candidate", "media"} -> "collect_lead"
       [] i \in {"handoff", "support"} -> "request_handoff"
       [] i = "pricing" -> "collect_quote_request"
       [] i = "scheduling" -> "collect_scheduling_request"
       [] i = "materials" -> "deliver_material"
       [] i = "refund" -> "issue_refund"
       [] i = "discount" -> "offer_discount"
       [] i = "restricted" -> "access_private_files"]
Actions == {IntentToAction[i] : i \in Intents}

\* An update: a text the classifier finds an intent in, "cancel", a compute
\* request, a deep link to a representative or a payment for one.
Kinds == Intents \cup {"cancel", "compute", "start", "paid"}
Message == [kind : Kinds, to : Representatives \cup {Nothing}]

\* An answer, and the message and the life of the process it was read in.
Answer == [message : Nat, life : Nat]
\* StructuredCollectorState: stepIndex is the number of answers.
Collector == [intent : Intents, answers : Seq(Answer)]
Conversation ==
  [freeRepliesUsed : Nat, unlocked : BOOLEAN, state : {"ACTIVE", "COLLECTING"},
   collector : Collector \cup {Nothing}]

ASSUME ConversationsAssumption ==
  /\ Default \in Representatives
  /\ Nothing \notin Representatives \cup Conversation
  /\ Messages \subseteq Message
  /\ \A m \in Messages : m.kind \in {"start", "paid"} <=> m.to # Nothing
  /\ ActionGate \in [Representatives -> [Actions -> GateModes]]
  /\ FreeReplyLimit \in [Representatives -> Nat]
  /\ QuestionCount \in Nat \ {0}
  /\ MaxMessages \in Nat /\ MaxFaults \in Nat /\ MaxDecisions \in Nat

VARIABLES
  sent,          \* updates the audience sent, in order
  acknowledged,  \* updates Telegram will not deliver again
  fetched,       \* updates the bot has been given
  position,      \* the update the bot handles next, or is handling
  active,        \* ChatSession: the representative of the chat
  conversation,  \* [Representatives -> Conversation]
  handoffs,      \* HandoffRequest rows, in the order they were created
  intakes,       \* IntakeSubmission rows of completed collectors
  bot,           \* what the running handler remembers
  faults,        \* crashes and thrown calls so far
  life,          \* crashes so far
  decisions,     \* decisions of the owner so far
  freeAnswers    \* history: answers sent while nothing was paid

telegram == <<sent, acknowledged, fetched, position>>
counters == <<faults, life, decisions>>
vars == <<telegram, active, conversation, handoffs, intakes, bot, counters, freeAnswers>>

Intake == [representative : Representatives, collector : Collector]

\* OPEN stands for REVIEWING too, RESOLVED for accepted, declined and closed: no
\* step tells them apart.
HandoffStatus == {"OPEN", "RESOLVED"}
\* followUp is its workflow run; reopened tells that the owner took back a decision.
Handoff ==
  [representative : Representatives, reason : Intents, status : HandoffStatus,
   followUp : {"NONE", "QUEUED", "DONE", "CANCELED"}, reopened : BOOLEAN]

NextSteps == {"deny", "ask_owner", "handoff", "offer_paid_unlock", "collect_intake", "answer"}
\* What the handler does: the plan's next step, a step of a collector, or
\* another update's handler.
Plans ==
  NextSteps \cup {"start_collector", "cancel_collector", "advance_collector",
                  "submit_collector", "compute", "start", "paid"}
Stages == {"idle", "write", "reply", "record", "stopped"}
Idle == [stage |-> "idle", representative |-> Default, plan |-> "deny", intent |-> "unknown",
         context |-> Nothing]
Handler ==
  [stage : Stages, representative : Representatives, plan : Plans, intent : Intents,
   context : Conversation \cup {Nothing}]

TypeOK ==
  /\ sent \in Seq(Messages)
  /\ acknowledged \in 0..fetched
  /\ fetched \in 0..Len(sent)
  /\ position \in 1..(fetched + 1)
  /\ bot.stage \notin {"idle", "stopped"} => position <= fetched
  /\ active \in Representatives
  /\ conversation \in [Representatives -> Conversation]
  /\ handoffs \in Seq(Handoff)
  /\ intakes \in Seq(Intake)
  /\ bot \in Handler
  /\ faults \in Nat /\ life \in 0..faults /\ decisions \in Nat
  /\ freeAnswers \in [Representatives -> Nat]

NewConversation ==
  [freeRepliesUsed |-> 0, unlocked |-> FALSE, state |-> "ACTIVE", collector |-> Nothing]

Init ==
  /\ sent = <<>> /\ acknowledged = 0 /\ fetched = 0 /\ position = 1
  /\ active = Default
  /\ conversation = [r \in Representatives |-> NewConversation]
  /\ handoffs = <<>> /\ intakes = <<>>
  /\ bot = Idle
  /\ faults = 0 /\ life = 0 /\ decisions = 0
  /\ freeAnswers = [r \in Representatives |-> 0]

-----------------------------------------------------------------------------
(* The plan.                                                               *)

\* createConversationPlan, for the usage the conversation had when it was read.
NextStep(r, intent, usage) ==
  LET mode == ActionGate[r][IntentToAction[intent]]
  IN  IF mode = "deny" \/ intent = "restricted" THEN "deny"
      ELSE IF mode = "ask_first" THEN "ask_owner"
      ELSE IF intent \in {"handoff", "support"} THEN "handoff"
      ELSE IF usage.freeRepliesUsed >= FreeReplyLimit[r] /\ ~usage.unlocked
           THEN "offer_paid_unlock"
      ELSE IF intent \in {"collaboration", "pricing", "scheduling", "refund", "discount",
                          "candidate", "media"} THEN "collect_intake"
      ELSE "answer"

Collected == {"pricing", "collaboration", "scheduling"}

\* "cancel" is a word of no intent.
IntentOf(m) == IF m.kind \in Intents THEN m.kind ELSE "unknown"

\* The fields a collector asks for, whether it is of a quote or of a meeting, and
\* whether one is left to ask when so many were answered.
Questions == 1..QuestionCount
HasQuestion(answered) == answered + 1 \in Questions

\* message:text, until the plan is known.  Without a context there is neither
\* usage nor collector, and nothing is written.
PlanFor(m, r, context) ==
  LET usage == IF context = Nothing THEN NewConversation ELSE context
      next == NextStep(r, IntentOf(m), usage)
  IN  IF m.kind = "compute" /\ context # Nothing THEN "compute"
      ELSE IF usage.collector # Nothing
      THEN IF m.kind = "cancel" THEN "cancel_collector"
           ELSE IF HasQuestion(Len(usage.collector.answers) + 1)
           THEN "advance_collector" ELSE "submit_collector"
      ELSE IF context # Nothing /\ next = "collect_intake" /\ IntentOf(m) \in Collected
      THEN "start_collector"
      ELSE next

\* Plans whose handler changes a row before it replies.
Writes == {"start_collector", "cancel_collector", "advance_collector", "submit_collector",
           "ask_owner", "handoff"}
\* Replies recordOutboundReply counts, unless something was paid.
Counted == Plans \ {"offer_paid_unlock", "compute", "start", "paid"}
\* Replies the free window is meant to bound.
Limited == {"answer", "collect_intake", "start_collector"}

-----------------------------------------------------------------------------
(* Telegram, and the process.                                              *)

\* The bot has handled all it was given.
IsBetweenBatches == bot.stage = "idle" /\ position = fetched + 1

\* The audience writes, follows deep links and pays.  What is sent while the bot
\* is busy waits for its next poll, and shows nowhere before.
Send ==
  /\ IsBetweenBatches
  /\ Len(sent) < MaxMessages
  /\ \E m \in Messages : sent' = Append(sent, m)
  /\ UNCHANGED <<acknowledged, fetched, position, active, conversation, handoffs, intakes,
                 bot, counters, freeAnswers>>

\* getUpdates: asking for the next batch acknowledges the one just handled.
Poll ==
  /\ IsBetweenBatches
  /\ fetched < Len(sent) \/ acknowledged < fetched
  /\ acknowledged' = fetched /\ fetched' = Len(sent)
  /\ UNCHANGED <<sent, position, active, conversation, handoffs, intakes, bot, counters,
                 freeAnswers>>

\* The process dies and is started again.
Crash ==
  /\ faults < MaxFaults
  /\ bot' = Idle
  /\ fetched' = acknowledged /\ position' = acknowledged + 1
  /\ faults' = faults + 1 /\ life' = life + 1
  /\ UNCHANGED <<sent, acknowledged, active, conversation, handoffs, intakes, decisions,
                 freeAnswers>>

-----------------------------------------------------------------------------
(* A handler's steps.                                                      *)

Begin(r, plan, intent, context) ==
  bot' = [stage |-> IF plan \in {"start", "paid"} \/ (plan \in Writes /\ context # Nothing)
                    THEN "write" ELSE "reply",
          representative |-> r, plan |-> plan, intent |-> intent, context |-> context]

\* resolveRepresentativeSlugForChat and getConversationContext, then the plan: when
\* the first read fails the default representative answers, with the conversation
\* it has; when the second fails there is no context.
Read ==
  /\ bot.stage = "idle" /\ position <= fetched
  /\ LET m == sent[position]
     IN  IF m.kind \in {"start", "paid"}
         THEN /\ Begin(m.to, m.kind, "unknown", Nothing)
              /\ UNCHANGED faults
         ELSE \E noSlug, noContext \in {0, 1} :
                LET r == IF noSlug = 1 THEN Default ELSE active
                    context == IF noContext = 1 THEN Nothing ELSE conversation[r]
                IN  /\ faults' = faults + noSlug + noContext
                    /\ faults' > faults => faults' <= MaxFaults
                    /\ Begin(r, PlanFor(m, r, context), IntentOf(m), context)
  /\ UNCHANGED <<telegram, active, conversation, handoffs, intakes, life, decisions,
                 freeAnswers>>

Goto(stage) == bot' = [bot EXCEPT !.stage = stage]

\* What the running handler makes of the conversation it read.
WithCollector(c, collector) ==
  [freeRepliesUsed |-> c.freeRepliesUsed, unlocked |-> c.unlocked,
   state |-> IF collector = Nothing THEN "ACTIVE" ELSE "COLLECTING",
   collector |-> collector]
SetCollector(collector) ==
  conversation' =
    [conversation EXCEPT ![bot.representative] = WithCollector(@, collector)]

\* beginStructuredCollector.
NewCollector(intent) == [intent |-> intent, answers |-> <<>>]

\* Mutant: the newest answer is put first.
Advanced_NewestFirst ==
  [intent |-> bot.context.collector.intent,
   answers |-> <<[message |-> position, life |-> life]>> \o bot.context.collector.answers]

Advanced ==
  [intent |-> bot.context.collector.intent,
   answers |-> Append(bot.context.collector.answers,
                      [message |-> position, life |-> life])]

StartCollector ==
  /\ bot.stage = "write" /\ bot.plan = "start_collector"
  /\ SetCollector(NewCollector(bot.intent))
  /\ Goto("reply")
  /\ UNCHANGED <<telegram, active, handoffs, intakes, counters, freeAnswers>>

CancelCollector ==
  /\ bot.stage = "write" /\ bot.plan = "cancel_collector"
  /\ SetCollector(Nothing)
  /\ Goto("reply")
  /\ UNCHANGED <<telegram, active, handoffs, intakes, counters, freeAnswers>>

AdvanceCollector ==
  /\ bot.stage = "write" /\ bot.plan = "advance_collector"
  /\ SetCollector(Advanced)
  /\ Goto("reply")
  /\ UNCHANGED <<telegram, active, handoffs, intakes, counters, freeAnswers>>

\* The handoffs the owner has still to decide, and a new one with its timer.
AwaitingHandoffs(r, intent) ==
  {h \in 1..Len(handoffs) : /\ handoffs[h].representative = r
                            /\ handoffs[h].reason = intent
                            /\ handoffs[h].status = "OPEN"}
NewHandoff(r, intent) ==
  [representative |-> r, reason |-> intent, status |-> "OPEN", followUp |-> "QUEUED",
   reopened |-> FALSE]

\* Mutant: every request opens a handoff.
RequestHandoff_Always(r, intent) == handoffs' = Append(handoffs, NewHandoff(r, intent))

\* An awaiting handoff keeps the run it has: dedupeKey is its id.
RequestHandoff(r, intent) ==
  handoffs' = IF AwaitingHandoffs(r, intent) = {}
              THEN Append(handoffs, NewHandoff(r, intent)) ELSE handoffs

CreateHandoff ==
  /\ bot.stage = "write" /\ bot.plan \in {"handoff", "ask_owner"}
  /\ RequestHandoff(bot.representative, bot.intent)
  /\ Goto("reply")
  /\ UNCHANGED <<telegram, active, conversation, intakes, counters, freeAnswers>>

\* The intake, its handoff and the end of collecting are one transaction.
Submit(collector) ==
  /\ intakes' = Append(intakes, [representative |-> bot.representative, collector |-> collector])
  /\ RequestHandoff(bot.representative, collector.intent)
  /\ SetCollector(Nothing)

SubmitCollector ==
  /\ bot.stage = "write" /\ bot.plan = "submit_collector"
  /\ Submit(Advanced)
  /\ Goto("reply")
  /\ UNCHANGED <<telegram, active, counters, freeAnswers>>

\* setActiveRepresentativeForChat.
SwitchTo(representative) == active' = representative

\* /start with a deep link; when the switch fails the default answers.
Start ==
  /\ bot.stage = "write" /\ bot.plan = "start"
  /\ SwitchTo(bot.representative)
  /\ Goto("reply")
  /\ UNCHANGED <<telegram, conversation, handoffs, intakes, counters, freeAnswers>>

\* successful_payment: confirming it unlocks the conversation.
Unlock ==
  /\ bot.stage = "write" /\ bot.plan = "paid"
  /\ conversation' = [conversation EXCEPT ![bot.representative] =
       [freeRepliesUsed |-> @.freeRepliesUsed, unlocked |-> TRUE, state |-> @.state,
        collector |-> @.collector]]
  /\ Goto("reply")
  /\ UNCHANGED <<telegram, active, handoffs, intakes, counters, freeAnswers>>

Write ==
  StartCollector \/ CancelCollector \/ AdvanceCollector \/ CreateHandoff \/ SubmitCollector
    \/ Start \/ Unlock

\* A reply that reached the chat.
IsFreeAnswer ==
  /\ bot.plan \in Limited
  /\ bot.context # Nothing => ~bot.context.unlocked
Delivered ==
  freeAnswers' = IF IsFreeAnswer
                 THEN [freeAnswers EXCEPT ![bot.representative] = @ + 1] ELSE freeAnswers

EndUpdate == bot' = Idle /\ position' = position + 1

Reply ==
  /\ bot.stage = "reply"
  /\ Delivered
  /\ IF bot.context # Nothing /\ bot.plan \in Counted
     THEN Goto("record") /\ UNCHANGED position
     ELSE EndUpdate
  /\ UNCHANGED <<sent, acknowledged, fetched, active, conversation, handoffs, intakes, counters>>

\* Mutant: the window is counted for those who paid.
CountsAsFree_Inverted == bot.context.unlocked

\* recordOutboundReply: counts by the usage that was read with the context.
CountsAsFree == ~bot.context.unlocked
Record ==
  /\ bot.stage = "record"
  /\ conversation' =
       IF CountsAsFree
       THEN [conversation EXCEPT ![bot.representative] =
               [freeRepliesUsed |-> @.freeRepliesUsed + 1, unlocked |-> @.unlocked,
                state |-> @.state, collector |-> @.collector]]
       ELSE conversation
  /\ EndUpdate
  /\ UNCHANGED <<sent, acknowledged, fetched, active, handoffs, intakes, counters, freeAnswers>>

\* Mutant: no bot.catch, and what a handler throws ends the polling.
Throw_Stops ==
  /\ bot.stage \in {"write", "reply", "record"} /\ faults < MaxFaults
  /\ faults' = faults + 1
  /\ Goto("stopped")
  /\ UNCHANGED <<telegram, active, conversation, handoffs, intakes, life, decisions, freeAnswers>>

\* A call throws: bot.catch logs it and the update is done.  A reply may have
\* reached the chat all the same.  /start and a payment answer what they catch.
Throw ==
  /\ bot.stage \in {"write", "reply", "record"} /\ faults < MaxFaults
  /\ faults' = faults + 1
  /\ IF bot.stage = "write" /\ bot.plan \in {"start", "paid"}
     THEN Goto("reply") /\ UNCHANGED position
     ELSE EndUpdate
  /\ (bot.stage = "reply" /\ Delivered) \/ UNCHANGED freeAnswers
  /\ UNCHANGED <<sent, acknowledged, fetched, active, conversation, handoffs, intakes, life,
                 decisions>>

-----------------------------------------------------------------------------
(* The owner, and the runner of the follow-ups.                            *)

\* Mutant: a decision always cancels the timer.
Decided_AlwaysCancels(h, status) ==
  [representative |-> h.representative, reason |-> h.reason, status |-> status,
   followUp |-> IF h.followUp = "QUEUED" THEN "CANCELED" ELSE h.followUp,
   reopened |-> h.reopened \/ (h.status = "RESOLVED" /\ status = "OPEN")]

\* setHandoffRequestStatus: any status, whatever the last one was.
Decided(h, status) ==
  [representative |-> h.representative, reason |-> h.reason, status |-> status,
   followUp |-> IF h.followUp = "QUEUED" /\ status = "RESOLVED"
                THEN "CANCELED" ELSE h.followUp,
   reopened |-> h.reopened \/ (h.status = "RESOLVED" /\ status = "OPEN")]
Decide ==
  /\ decisions < MaxDecisions /\ decisions' = decisions + 1
  /\ \E h \in 1..Len(handoffs), status \in HandoffStatus :
       handoffs' = [handoffs EXCEPT ![h] = Decided(@, status)]
  /\ UNCHANGED <<telegram, active, conversation, intakes, bot, faults, life, freeAnswers>>

FollowUpRan(h) ==
  [representative |-> h.representative, reason |-> h.reason, status |-> h.status,
   followUp |-> "DONE", reopened |-> h.reopened]
FollowUp ==
  /\ \E h \in 1..Len(handoffs) :
       /\ handoffs[h].followUp = "QUEUED"
       /\ handoffs' = [handoffs EXCEPT ![h] = FollowUpRan(@)]
  /\ UNCHANGED <<telegram, active, conversation, intakes, bot, counters, freeAnswers>>

Next ==
  \/ Send \/ Poll \/ Crash \/ Read
  \/ StartCollector \/ CancelCollector \/ AdvanceCollector \/ CreateHandoff
  \/ SubmitCollector \/ Start \/ Unlock
  \/ Reply \/ Record \/ Throw
  \/ Decide \/ FollowUp

Spec == Init /\ [][Next]_vars

\* The bot polls, and a handler that was begun goes on.
FairSpec == Spec /\ WF_vars(Poll \/ Read \/ Write \/ Reply \/ Record)

-----------------------------------------------------------------------------
(* Properties.                                                             *)

\* The free window holds: an answer goes out before it is counted, yet nobody
\* gets more free answers than the contract's limit, but for one more for
\* every crash and every failed call (createConversationPlan against
\* recordOutboundReply).
FreeAnswersBounded ==
  \A r \in Representatives : freeAnswers[r] <= FreeReplyLimit[r] + faults

\* A submitted intake answers its questions in the order they were asked, each
\* by a message of its own: only a crash may make one message answer twice
\* (advanceStructuredCollector, updated before the update is acknowledged).
InOrder(answers) ==
  \A i, j \in 1..Len(answers) :
    i < j /\ answers[i].life = answers[j].life => answers[i].message < answers[j].message
IntakesInOrder ==
  \A i \in 1..Len(intakes) :
    /\ Len(intakes[i].collector.answers) = QuestionCount
    /\ InOrder(intakes[i].collector.answers)

\* The owner never has two handoffs of one conversation and reason to decide,
\* however often messages are delivered, unless the owner reopened one.
OneAwaitingHandoff ==
  \A h, k \in 1..Len(handoffs) :
    /\ handoffs[h].representative = handoffs[k].representative
    /\ handoffs[h].reason = handoffs[k].reason
    /\ handoffs[h].status = "OPEN" /\ handoffs[k].status = "OPEN"
    => h = k \/ handoffs[h].reopened \/ handoffs[k].reopened

\* Whatever awaits the owner has a follow-up that will run, or that has run,
\* unless the owner reopened it (enqueueHandoffFollowUpWorkflowTx).
AwaitingIsFollowedUp ==
  \A h \in 1..Len(handoffs) :
    handoffs[h].status = "OPEN" /\ ~handoffs[h].reopened
      => handoffs[h].followUp \in {"QUEUED", "DONE"}

\* Every update is handled in the end, whatever its handler throws.
EveryUpdateHandled ==
  \A i \in 1..MaxMessages : (Len(sent) >= i) ~> (acknowledged >= i)

=============================================================================
