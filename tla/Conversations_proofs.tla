------------------------ MODULE Conversations_proofs ------------------------
(***************************************************************************)
(* Proofs about Conversations, for any representatives, messages, gates,   *)
(* limits and faults: the free window holds up to the faults, the owner    *)
(* decides one handoff of a reason at a time, what awaits the owner is     *)
(* followed up, and an intake is answered in the order of its questions.   *)
(*                                                                         *)
(* The handoffs' invariants are inductive by themselves.  The window's     *)
(* needs what the handler knows of the conversation it read: the bot is    *)
(* the only one that counts replies, and handles one update at a time.     *)
(***************************************************************************)
EXTENDS Conversations, SequenceTheorems, TLAPS

\* What the running handler knows: nobody else counted since it read, and a plan
\* that gives a free answer was made inside the window.
BotKnows ==
  /\ bot.stage = "write" /\ bot.context = Nothing => bot.plan \in {"start", "paid"}
  /\ bot.stage = "write" /\ bot.plan \in {"advance_collector", "submit_collector"} =>
       bot.context # Nothing /\ bot.context.collector # Nothing
  /\ bot.stage = "record" => bot.context # Nothing
  /\ bot.stage \in {"write", "reply"} /\ bot.context # Nothing =>
       bot.context.freeRepliesUsed = conversation[bot.representative].freeRepliesUsed
  /\ bot.stage \in {"write", "reply"} /\ bot.context # Nothing /\ IsFreeAnswer =>
       bot.context.freeRepliesUsed < FreeReplyLimit[bot.representative]

\* The answer that was given and is not counted yet, and the one that will not
\* be: its conversation could not be read, which took a fault.
Uncounted(r) ==
  IF bot.stage = "record" /\ bot.representative = r /\ IsFreeAnswer THEN 1 ELSE 0
Unread(r) ==
  IF bot.stage = "reply" /\ bot.representative = r /\ bot.plan \in Limited /\ bot.context = Nothing
  THEN 1 ELSE 0

\* Answers are counted, or a fault kept them from being counted.
CountsFor(r) ==
  /\ freeAnswers[r] + Unread(r) <= conversation[r].freeRepliesUsed + Uncounted(r) + faults
  /\ freeAnswers[r] + Unread(r) <= FreeReplyLimit[r] + faults
AnswersAreCounted == \A r \in Representatives : CountsFor(r)

IInv == TypeOK /\ BotKnows /\ AnswersAreCounted /\ OneAwaitingHandoff /\ AwaitingIsFollowedUp

USE ConversationsAssumption

-----------------------------------------------------------------------------
(* The handoffs.                                                           *)

HandoffsKept == OneAwaitingHandoff /\ AwaitingIsFollowedUp

\* What a decision and a follow-up make of a handoff that was OPEN or not.
LEMMA DecidedRow ==
  ASSUME NEW h \in Handoff, NEW status \in HandoffStatus
  PROVE  /\ Decided(h, status) \in Handoff
         /\ Decided(h, status).representative = h.representative
         /\ Decided(h, status).reason = h.reason
         /\ Decided(h, status).status = "OPEN" /\ ~Decided(h, status).reopened =>
              /\ h.status = "OPEN" /\ ~h.reopened
              /\ h.followUp \in {"QUEUED", "DONE"} => Decided(h, status).followUp \in {"QUEUED", "DONE"}
BY DEF Handoff, HandoffStatus, Decided

LEMMA FollowUpRow ==
  ASSUME NEW h \in Handoff
  PROVE  /\ FollowUpRan(h) \in Handoff
         /\ FollowUpRan(h).representative = h.representative
         /\ FollowUpRan(h).reason = h.reason
         /\ FollowUpRan(h).status = h.status /\ FollowUpRan(h).reopened = h.reopened
         /\ FollowUpRan(h).followUp = "DONE"
BY DEF Handoff, FollowUpRan

LEMMA OneRowChanges ==
  ASSUME handoffs \in Seq(Handoff), HandoffsKept, NEW i \in 1..Len(handoffs), NEW row \in Handoff,
         handoffs' = [handoffs EXCEPT ![i] = row],
         row.representative = handoffs[i].representative, row.reason = handoffs[i].reason,
         row.status = "OPEN" /\ ~row.reopened =>
           handoffs[i].status = "OPEN" /\ ~handoffs[i].reopened /\ row.followUp \in {"QUEUED", "DONE"}
  PROVE  handoffs' \in Seq(Handoff) /\ HandoffsKept'
<1>1. /\ handoffs' \in Seq(Handoff) /\ Len(handoffs') = Len(handoffs)
      /\ \A h \in 1..Len(handoffs) : handoffs'[h] = IF h = i THEN row ELSE handoffs[h]
  BY ExceptSeq
<1>2. AwaitingIsFollowedUp'
  BY <1>1 DEF AwaitingIsFollowedUp, HandoffsKept
<1>3. OneAwaitingHandoff'
  BY <1>1 DEF OneAwaitingHandoff, HandoffsKept
<1> QED
  BY <1>1, <1>2, <1>3 DEF HandoffsKept

LEMMA OneRowComes ==
  ASSUME handoffs \in Seq(Handoff), HandoffsKept,
         NEW r \in Representatives, NEW intent \in Intents, RequestHandoff(r, intent)
  PROVE  handoffs' \in Seq(Handoff) /\ HandoffsKept'
<1> DEFINE new == NewHandoff(r, intent)
<1>1. CASE AwaitingHandoffs(r, intent) # {}
  BY <1>1 DEF RequestHandoff, HandoffsKept, OneAwaitingHandoff, AwaitingIsFollowedUp
<1>2. CASE AwaitingHandoffs(r, intent) = {}
  <2>1. /\ new \in Handoff /\ new.representative = r /\ new.reason = intent
        /\ new.status = "OPEN" /\ new.followUp = "QUEUED"
    BY DEF NewHandoff, Handoff, HandoffStatus
  <2>2. handoffs' = Append(handoffs, new)
    BY <1>2 DEF RequestHandoff
  <2> HIDE DEF new
  <2>3. /\ handoffs' \in Seq(Handoff) /\ Len(handoffs') = Len(handoffs) + 1
        /\ \A h \in 1..Len(handoffs) : handoffs'[h] = handoffs[h]
        /\ handoffs'[Len(handoffs) + 1] = new /\ Len(handoffs) \in Nat
    BY <2>1, <2>2, AppendProperties
  <2>4. ASSUME NEW h \in 1..Len(handoffs), handoffs[h].representative = r,
               handoffs[h].reason = intent
        PROVE  handoffs[h].status # "OPEN"
    BY <1>2, <2>4 DEF AwaitingHandoffs
  <2>5. AwaitingIsFollowedUp'
    <3> SUFFICES ASSUME NEW h \in 1..Len(handoffs'),
                        handoffs'[h].status = "OPEN" /\ ~handoffs'[h].reopened
                 PROVE  handoffs'[h].followUp \in {"QUEUED", "DONE"}
      BY DEF AwaitingIsFollowedUp
    <3>1. CASE h \in 1..Len(handoffs)
      BY <2>3, <3>1 DEF AwaitingIsFollowedUp, HandoffsKept
    <3>2. CASE h = Len(handoffs) + 1
      BY <2>1, <2>3, <3>2
    <3> QED
      BY <2>3, <3>1, <3>2
  <2>6. OneAwaitingHandoff'
    <3> SUFFICES ASSUME NEW h \in 1..Len(handoffs'), NEW k \in 1..Len(handoffs'),
                        handoffs'[h].representative = handoffs'[k].representative,
                        handoffs'[h].reason = handoffs'[k].reason,
                        handoffs'[h].status = "OPEN", handoffs'[k].status = "OPEN"
                 PROVE  h = k \/ handoffs'[h].reopened \/ handoffs'[k].reopened
      BY DEF OneAwaitingHandoff
    <3>1. CASE h \in 1..Len(handoffs) /\ k \in 1..Len(handoffs)
      BY <2>3, <3>1 DEF OneAwaitingHandoff, HandoffsKept
    <3>2. CASE h = Len(handoffs) + 1 /\ k \in 1..Len(handoffs)
      BY <2>1, <2>3, <2>4, <3>2
    <3>3. CASE k = Len(handoffs) + 1 /\ h \in 1..Len(handoffs)
      BY <2>1, <2>3, <2>4, <3>3
    <3> QED
      BY <2>3, <3>1, <3>2, <3>3
  <2> QED
    BY <2>3, <2>5, <2>6 DEF HandoffsKept
<1> QED
  BY <1>1, <1>2

-----------------------------------------------------------------------------
(* The types.                                                              *)

LEMMA Fields ==
  ASSUME TypeOK
  PROVE  /\ bot.representative \in Representatives /\ bot.plan \in Plans /\ bot.intent \in Intents
         /\ bot.stage \in Stages /\ bot.context \in Conversation \cup {Nothing}
         /\ position \in Nat /\ faults \in Nat /\ life \in Nat
         /\ \A r \in Representatives :
              /\ conversation[r] \in Conversation /\ conversation[r].freeRepliesUsed \in Nat
              /\ freeAnswers[r] \in Nat /\ FreeReplyLimit[r] \in Nat
         /\ bot.context # Nothing => bot.context.freeRepliesUsed \in Nat
                                     /\ bot.context.unlocked \in BOOLEAN
<1>1. /\ bot \in Handler /\ position \in Nat /\ faults \in Nat /\ life \in Nat
      /\ conversation \in [Representatives -> Conversation]
      /\ freeAnswers \in [Representatives -> Nat]
  BY DEF TypeOK
<1>2. \A c \in Conversation : c.freeRepliesUsed \in Nat /\ c.unlocked \in BOOLEAN
  BY DEF Conversation
<1>3. /\ bot.representative \in Representatives /\ bot.plan \in Plans /\ bot.intent \in Intents
      /\ bot.stage \in Stages /\ bot.context \in Conversation \cup {Nothing}
  BY <1>1 DEF Handler
<1> QED
  BY <1>1, <1>2, <1>3

LEMMA IdleTyped == Idle \in Handler
BY DEF Idle, Handler, Stages, Plans, NextSteps, Intents

LEMMA NewTyped == NewConversation \in Conversation
BY DEF NewConversation, Conversation

LEMMA InitIInv == Init => IInv
<1> SUFFICES ASSUME Init PROVE IInv
  OBVIOUS
<1>1. TypeOK
  <2>1. <<>> \in Seq(Messages) /\ <<>> \in Seq(Handoff) /\ <<>> \in Seq(Intake) /\ Len(<<>>) = 0
    OBVIOUS
  <2>2. /\ conversation \in [Representatives -> Conversation]
        /\ freeAnswers \in [Representatives -> Nat] /\ bot \in Handler
    BY NewTyped, IdleTyped DEF Init
  <2> QED
    BY <2>1, <2>2 DEF Init, TypeOK, Idle
<1>2. BotKnows
  BY DEF Init, BotKnows, Idle
<1>3. AnswersAreCounted
  <2> SUFFICES ASSUME NEW r \in Representatives PROVE CountsFor(r)
    BY DEF AnswersAreCounted
  <2>1. /\ freeAnswers[r] = 0 /\ conversation[r].freeRepliesUsed = 0 /\ faults = 0
        /\ Unread(r) = 0 /\ Uncounted(r) = 0 /\ FreeReplyLimit[r] \in Nat
    BY DEF Init, NewConversation, Unread, Uncounted, Idle
  <2> QED
    BY <2>1 DEF CountsFor
<1>4. OneAwaitingHandoff /\ AwaitingIsFollowedUp
  BY DEF Init, OneAwaitingHandoff, AwaitingIsFollowedUp
<1> QED
  BY <1>1, <1>2, <1>3, <1>4 DEF IInv

LEMMA PlansTyped ==
  ASSUME NEW m, NEW r, NEW context
  PROVE  PlanFor(m, r, context) \in Plans \ {"start", "paid"}
BY DEF PlanFor, NextStep, Plans, NextSteps

\* A plan that gives a free answer was made inside the window; one that writes
\* found a context, and one that advances a collector found it there.
LEMMA PlansKnow ==
  ASSUME NEW m, NEW r \in Representatives, NEW context \in Conversation, context # Nothing
  PROVE  /\ PlanFor(m, r, context) \in {"advance_collector", "submit_collector"} =>
              context.collector # Nothing
         /\ PlanFor(m, r, context) \in Limited /\ ~context.unlocked =>
              context.freeRepliesUsed < FreeReplyLimit[r]
<1> DEFINE next == NextStep(r, IntentOf(m), context)
<1>1. context.freeRepliesUsed \in Nat /\ FreeReplyLimit[r] \in Nat
  BY DEF Conversation
<1>2. next \in {"answer", "collect_intake"} /\ ~context.unlocked =>
        context.freeRepliesUsed < FreeReplyLimit[r]
  BY <1>1 DEF NextStep
<1>3. next \in NextSteps
  BY DEF NextStep, NextSteps
<1> HIDE DEF next
<1>4. \/ PlanFor(m, r, context) = "compute"
      \/ /\ context.collector # Nothing
         /\ PlanFor(m, r, context) \in {"cancel_collector", "advance_collector", "submit_collector"}
      \/ PlanFor(m, r, context) = "start_collector" /\ next = "collect_intake"
      \/ PlanFor(m, r, context) = next
  BY DEF PlanFor, next
<1> QED
  BY <1>2, <1>3, <1>4 DEF NextSteps, Limited

-----------------------------------------------------------------------------
(* Telegram, the process, the owner and the follow-ups.                    *)

\* A step that answers and counts nothing and leaves the handler alone, or idle.
LEMMA QuietCounts ==
  ASSUME IInv, UNCHANGED <<conversation, freeAnswers>>, faults' \in {faults, faults + 1},
         bot' = bot \/ (bot' = Idle /\ faults' = faults + 1)
  PROVE  BotKnows' /\ AnswersAreCounted'
<1>1. CASE bot' = bot
  <2>1. BotKnows'
    BY <1>1 DEF IInv, BotKnows, IsFreeAnswer
  <2>2. AnswersAreCounted'
    <3> SUFFICES ASSUME NEW r \in Representatives PROVE CountsFor(r)'
      BY DEF AnswersAreCounted
    <3>1. CountsFor(r) /\ faults \in Nat /\ freeAnswers[r] \in Nat /\ FreeReplyLimit[r] \in Nat
          /\ conversation[r].freeRepliesUsed \in Nat
      BY Fields DEF IInv, AnswersAreCounted
    <3>2. Unread(r)' = Unread(r) /\ Uncounted(r)' = Uncounted(r)
          /\ Unread(r) \in {0, 1} /\ Uncounted(r) \in {0, 1}
      BY <1>1 DEF Unread, Uncounted, IsFreeAnswer
    <3> HIDE DEF Unread, Uncounted
    <3> QED
      BY <3>1, <3>2 DEF CountsFor
  <2> QED
    BY <2>1, <2>2
<1>2. CASE bot' = Idle /\ faults' = faults + 1
  <2>1. BotKnows'
    BY <1>2 DEF BotKnows, Idle
  <2>2. AnswersAreCounted'
    <3> SUFFICES ASSUME NEW r \in Representatives PROVE CountsFor(r)'
      BY DEF AnswersAreCounted
    <3>1. CountsFor(r) /\ faults \in Nat /\ freeAnswers[r] \in Nat /\ FreeReplyLimit[r] \in Nat
          /\ conversation[r].freeRepliesUsed \in Nat
      BY Fields DEF IInv, AnswersAreCounted
    <3>2. Unread(r)' = 0 /\ Uncounted(r)' = 0
          /\ Unread(r) \in {0, 1} /\ Uncounted(r) \in {0, 1}
      BY <1>2 DEF Unread, Uncounted, Idle
    <3> QED
      BY <1>2, <3>1, <3>2 DEF CountsFor
  <2> QED
    BY <2>1, <2>2
<1> QED
  BY <1>1, <1>2

LEMMA OutsideStep == ASSUME IInv, Send \/ Poll \/ Crash \/ Decide \/ FollowUp PROVE IInv'
<1>1. CASE Send \/ Poll \/ Crash
  <2>1. UNCHANGED <<conversation, freeAnswers, handoffs>> /\ faults \in Nat
    BY <1>1 DEF Send, Poll, Crash, IInv, TypeOK
  <2>2. faults' \in {faults, faults + 1} /\ (bot' = bot \/ (bot' = Idle /\ faults' = faults + 1))
    BY <1>1 DEF Send, Poll, Crash, counters
  <2>3. BotKnows' /\ AnswersAreCounted'
    BY <2>1, <2>2, QuietCounts
  <2>4. OneAwaitingHandoff' /\ AwaitingIsFollowedUp'
    BY <2>1 DEF IInv, OneAwaitingHandoff, AwaitingIsFollowedUp
  <2>5. TypeOK'
    <3>1. CASE Send
      <4>1. PICK m \in Messages : sent' = Append(sent, m)
        BY <3>1 DEF Send
      <4>2. sent' \in Seq(Messages) /\ Len(sent') = Len(sent) + 1 /\ Len(sent) \in Nat
        BY <4>1, AppendProperties DEF IInv, TypeOK
      <4> QED
        BY <3>1, <4>2 DEF Send, counters, IInv, TypeOK
    <3>2. CASE Poll
      BY <3>2 DEF Poll, counters, IsBetweenBatches, IInv, TypeOK
    <3>3. CASE Crash
      BY <3>3, IdleTyped DEF Crash, Idle, IInv, TypeOK
    <3> QED
      BY <1>1, <3>1, <3>2, <3>3
  <2> QED
    BY <2>3, <2>4, <2>5 DEF IInv
<1>2. ASSUME NEW i \in 1..Len(handoffs), NEW row \in Handoff,
             handoffs' = [handoffs EXCEPT ![i] = row],
             row.representative = handoffs[i].representative, row.reason = handoffs[i].reason,
             row.status = "OPEN" /\ ~row.reopened =>
               handoffs[i].status = "OPEN" /\ ~handoffs[i].reopened /\ row.followUp \in {"QUEUED", "DONE"},
             UNCHANGED <<telegram, active, conversation, intakes, bot, faults, life, freeAnswers>>,
             decisions' \in Nat
      PROVE  IInv'
  <2>1. handoffs' \in Seq(Handoff) /\ HandoffsKept'
    BY <1>2, OneRowChanges DEF IInv, TypeOK, HandoffsKept
  <2>2. BotKnows' /\ AnswersAreCounted'
    BY <1>2, QuietCounts
  <2>3. TypeOK'
    BY <1>2, <2>1 DEF telegram, IInv, TypeOK
  <2> QED
    BY <2>1, <2>2, <2>3 DEF IInv, HandoffsKept
<1>3. CASE Decide
  <2>1. PICK i \in 1..Len(handoffs), status \in HandoffStatus :
          handoffs' = [handoffs EXCEPT ![i] = Decided(handoffs[i], status)]
    BY <1>3 DEF Decide
  <2>2. handoffs[i] \in Handoff
    BY ElementOfSeq DEF IInv, TypeOK
  <2>3. handoffs[i].status = "OPEN" /\ ~handoffs[i].reopened =>
          handoffs[i].followUp \in {"QUEUED", "DONE"}
    BY DEF IInv, AwaitingIsFollowedUp
  <2> DEFINE row == Decided(handoffs[i], status)
  <2>4. /\ row \in Handoff
        /\ row.representative = handoffs[i].representative /\ row.reason = handoffs[i].reason
        /\ row.status = "OPEN" /\ ~row.reopened =>
             handoffs[i].status = "OPEN" /\ ~handoffs[i].reopened /\ row.followUp \in {"QUEUED", "DONE"}
    BY <2>2, <2>3, DecidedRow
  <2>5. /\ UNCHANGED <<telegram, active, conversation, intakes, bot, faults, life, freeAnswers>>
        /\ decisions' \in Nat
    BY <1>3 DEF Decide, IInv, TypeOK
  <2>6. handoffs' = [handoffs EXCEPT ![i] = row]
    BY <2>1
  <2> HIDE DEF row
  <2> QED
    BY <1>2, <2>4, <2>5, <2>6
<1>4. CASE FollowUp
  <2>1. PICK i \in 1..Len(handoffs) :
          /\ handoffs[i].followUp = "QUEUED"
          /\ handoffs' = [handoffs EXCEPT ![i] = FollowUpRan(handoffs[i])]
    BY <1>4 DEF FollowUp
  <2>2. handoffs[i] \in Handoff
    BY ElementOfSeq DEF IInv, TypeOK
  <2> DEFINE row == FollowUpRan(handoffs[i])
  <2>3. /\ row \in Handoff
        /\ row.representative = handoffs[i].representative /\ row.reason = handoffs[i].reason
        /\ row.status = "OPEN" /\ ~row.reopened =>
             handoffs[i].status = "OPEN" /\ ~handoffs[i].reopened /\ row.followUp \in {"QUEUED", "DONE"}
    BY <2>2, FollowUpRow
  <2>4. /\ UNCHANGED <<telegram, active, conversation, intakes, bot, faults, life, freeAnswers>>
        /\ decisions' \in Nat
    BY <1>4 DEF FollowUp, counters, IInv, TypeOK
  <2>5. handoffs' = [handoffs EXCEPT ![i] = row]
    BY <2>1
  <2> HIDE DEF row
  <2> QED
    BY <1>2, <2>3, <2>4, <2>5
<1> QED
  BY <1>1, <1>3, <1>4

-----------------------------------------------------------------------------
(* The handler.                                                            *)

LEMMA ReadStep == ASSUME IInv, Read PROVE IInv'
<1>1. /\ UNCHANGED <<telegram, active, conversation, handoffs, intakes, life, decisions, freeAnswers>>
      /\ bot.stage = "idle" /\ position <= fetched
  BY DEF Read
<1>2. PICK m \in Messages : m = sent[position]
  <2>1. position \in 1..Len(sent) /\ sent \in Seq(Messages)
    BY <1>1 DEF IInv, TypeOK
  <2> QED
    BY <2>1, ElementOfSeq
<1>3. m \in Message /\ IntentOf(m) \in Intents /\ "unknown" \in Intents
  BY DEF IntentOf, Intents
<1>4. PICK r \in Representatives, plan \in Plans, intent \in Intents,
           context \in Conversation \cup {Nothing} :
        /\ Begin(r, plan, intent, context)
        /\ \/ faults' = faults /\ plan \in {"start", "paid"} /\ context = Nothing
           \/ /\ faults' \in {faults, faults + 1} /\ context = conversation[r]
              /\ plan = PlanFor(m, r, context) /\ plan \notin {"start", "paid"}
           \/ /\ faults' \in {faults + 1, faults + 2}
              /\ plan \notin {"start", "paid"} /\ context = Nothing
  <2>1. CASE m.kind \in {"start", "paid"}
    <3>1. m.to \in Representatives /\ m.kind \in Plans
      BY <1>3, <2>1 DEF Message, Plans
    <3>2. Begin(m.to, m.kind, "unknown", Nothing) /\ faults' = faults
      BY <1>2, <2>1 DEF Read
    <3> QED
      BY <1>3, <2>1, <3>1, <3>2
  <2>2. CASE m.kind \notin {"start", "paid"}
    <3>1. PICK noSlug \in {0, 1}, noContext \in {0, 1} :
            LET r == IF noSlug = 1 THEN Default ELSE active
                context == IF noContext = 1 THEN Nothing ELSE conversation[r]
            IN  /\ faults' = faults + noSlug + noContext
                /\ Begin(r, PlanFor(m, r, context), IntentOf(m), context)
      BY <1>2, <2>2 DEF Read
    <3> DEFINE slug == IF noSlug = 1 THEN Default ELSE active
               read == IF noContext = 1 THEN Nothing ELSE conversation[slug]
    <3>2. slug \in Representatives /\ read \in Conversation \cup {Nothing}
      BY Fields, ConversationsAssumption DEF IInv, TypeOK
    <3>3. PlanFor(m, slug, read) \in Plans \ {"start", "paid"}
      BY <3>2, PlansTyped
    <3>4. /\ faults \in Nat
          /\ noContext = 0 => faults' \in {faults, faults + 1} /\ read = conversation[slug]
          /\ noContext = 1 => faults' \in {faults + 1, faults + 2} /\ read = Nothing
      BY <3>1 DEF IInv, TypeOK
    <3>5. Begin(slug, PlanFor(m, slug, read), IntentOf(m), read)
      BY <3>1
    <3> HIDE DEF slug, read
    <3> QED
      BY <1>3, <3>2, <3>3, <3>4, <3>5
  <2> QED
    BY <2>1, <2>2
<1>5. /\ bot'.representative = r /\ bot'.plan = plan /\ bot'.intent = intent
      /\ bot'.context = context
      /\ bot'.stage = IF plan \in {"start", "paid"} \/ (plan \in Writes /\ context # Nothing)
                      THEN "write" ELSE "reply"
      /\ bot' \in Handler
  BY <1>4 DEF Begin, Handler, Stages
<1>6. TypeOK'
  BY <1>1, <1>4, <1>5, SMTT(30) DEF telegram, IInv, TypeOK
<1>7. BotKnows'
  <2>1. context # Nothing => context = conversation[r] /\ plan = PlanFor(m, r, context)
    BY <1>4
  <2>2. context # Nothing /\ plan \in {"advance_collector", "submit_collector"} =>
          context.collector # Nothing
    BY <2>1, PlansKnow
  <2>3. context # Nothing /\ plan \in Limited /\ ~context.unlocked =>
          context.freeRepliesUsed < FreeReplyLimit[r]
    BY <2>1, PlansKnow
  <2>4. plan \in {"advance_collector", "submit_collector"} /\ bot'.stage = "write" => context # Nothing
    BY <1>5
  <2> QED
    BY <1>1, <1>5, <2>1, <2>2, <2>3, <2>4 DEF BotKnows, IsFreeAnswer
<1>8. AnswersAreCounted'
  <2> SUFFICES ASSUME NEW q \in Representatives PROVE CountsFor(q)'
    BY DEF AnswersAreCounted
  <2>1. /\ CountsFor(q) /\ faults \in Nat /\ freeAnswers[q] \in Nat /\ FreeReplyLimit[q] \in Nat
        /\ conversation[q].freeRepliesUsed \in Nat
    BY Fields DEF IInv, AnswersAreCounted
  <2>2. Unread(q) = 0 /\ Uncounted(q) = 0 /\ Uncounted(q)' = 0
    BY <1>1, <1>5 DEF Unread, Uncounted
  <2>3. /\ Unread(q)' \in {0, 1}
        /\ Unread(q)' = 1 => faults' >= faults + 1
        /\ faults' \in Nat /\ faults' >= faults
    <3>1. conversation[r] # Nothing
      BY Fields DEF IInv
    <3>2. Unread(q)' = 1 => plan \in Limited /\ context = Nothing
      BY <1>5 DEF Unread
    <3>3. Unread(q)' \in {0, 1}
      BY DEF Unread
    <3> QED
      BY <1>4, <2>1, <3>1, <3>2, <3>3 DEF Limited
  <2> HIDE DEF Unread, Uncounted
  <2> QED
    BY <1>1, <2>1, <2>2, <2>3 DEF CountsFor
<1>9. OneAwaitingHandoff' /\ AwaitingIsFollowedUp'
  BY <1>1 DEF IInv, OneAwaitingHandoff, AwaitingIsFollowedUp
<1> QED
  BY <1>6, <1>7, <1>8, <1>9 DEF IInv

\* A handler that writes changes no count; it goes on to its reply.
LEMMA WriteCounts ==
  ASSUME IInv, bot.stage = "write", Goto("reply"), UNCHANGED <<freeAnswers, faults>>,
         \A r \in Representatives :
           conversation'[r].freeRepliesUsed = conversation[r].freeRepliesUsed
  PROVE  bot' \in Handler /\ BotKnows' /\ AnswersAreCounted'
<1>1. /\ bot'.stage = "reply" /\ bot'.plan = bot.plan /\ bot'.context = bot.context
      /\ bot'.representative = bot.representative /\ bot' \in Handler
  BY DEF Goto, IInv, TypeOK, Handler, Stages
<1>2. BotKnows'
  BY <1>1, Fields DEF IInv, BotKnows, IsFreeAnswer
<1>3. AnswersAreCounted'
  <2> SUFFICES ASSUME NEW r \in Representatives PROVE CountsFor(r)'
    BY DEF AnswersAreCounted
  <2>1. Unread(r) = 0 /\ Uncounted(r) = 0 /\ Uncounted(r)' = 0 /\ Unread(r)' = 0
    BY <1>1 DEF Unread, Uncounted, IInv, BotKnows, Limited
  <2> QED
    BY <2>1 DEF CountsFor, IInv, AnswersAreCounted
<1> QED
  BY <1>1, <1>2, <1>3

LEMMA CollectorRow ==
  ASSUME NEW c \in Conversation, NEW collector \in Collector \cup {Nothing}
  PROVE  /\ WithCollector(c, collector) \in Conversation
         /\ WithCollector(c, collector).freeRepliesUsed = c.freeRepliesUsed
BY DEF WithCollector, Conversation

LEMMA CollectorSet ==
  ASSUME IInv, NEW collector \in Collector \cup {Nothing}, SetCollector(collector)
  PROVE  /\ conversation' \in [Representatives -> Conversation]
         /\ \A r \in Representatives :
              conversation'[r].freeRepliesUsed = conversation[r].freeRepliesUsed
<1> DEFINE q == bot.representative
           row == WithCollector(conversation[q], collector)
<1>1. /\ conversation \in [Representatives -> Conversation] /\ q \in Representatives
      /\ conversation[q] \in Conversation
  BY Fields DEF IInv, TypeOK
<1>2. row \in Conversation /\ row.freeRepliesUsed = conversation[q].freeRepliesUsed
  BY <1>1, CollectorRow
<1>3. conversation' = [conversation EXCEPT ![q] = row]
  BY DEF SetCollector
<1> HIDE DEF row, q
<1> QED
  BY <1>1, <1>2, <1>3

LEMMA AdvancedTyped ==
  ASSUME IInv, bot.stage = "write", bot.plan \in {"advance_collector", "submit_collector"}
  PROVE  Advanced \in Collector /\ bot.context.collector \in Collector
<1> DEFINE old == bot.context.collector
           answer == [message |-> position, life |-> life]
<1>1. old \in Collector
  <2>1. bot.context \in Conversation /\ old # Nothing
    BY Fields DEF IInv, BotKnows
  <2> QED
    BY <2>1 DEF Conversation
<1>2. old.intent \in Intents /\ old.answers \in Seq(Answer) /\ answer \in Answer
  BY <1>1, Fields DEF Collector, Answer, IInv
<1>3. Append(old.answers, answer) \in Seq(Answer)
  BY <1>2, AppendProperties
<1> QED
  BY <1>1, <1>2, <1>3 DEF Advanced, Collector

LEMMA WriteStep == ASSUME IInv, Write PROVE IInv'
<1>1. bot.stage = "write" /\ Goto("reply") /\ UNCHANGED <<telegram, counters, freeAnswers>>
  BY DEF Write, StartCollector, CancelCollector, AdvanceCollector, CreateHandoff, SubmitCollector,
         Start, Unlock
<1>2. /\ conversation' \in [Representatives -> Conversation]
      /\ \A r \in Representatives :
           conversation'[r].freeRepliesUsed = conversation[r].freeRepliesUsed
  <2>1. CASE UNCHANGED conversation
    BY <2>1 DEF IInv, TypeOK
  <2>2. CASE \E collector \in Collector \cup {Nothing} : SetCollector(collector)
    BY <2>2, CollectorSet
  <2>3. CASE StartCollector
    <3>1. NewCollector(bot.intent) \in Collector
      BY Fields DEF NewCollector, Collector, IInv
    <3> QED
      BY <2>2, <2>3, <3>1 DEF StartCollector
  <2>4. CASE AdvanceCollector \/ SubmitCollector \/ CancelCollector
    BY <2>2, <2>4, AdvancedTyped DEF AdvanceCollector, SubmitCollector, Submit, CancelCollector
  <2>5. CASE Unlock
    <3> DEFINE q == bot.representative
               row == [freeRepliesUsed |-> conversation[q].freeRepliesUsed, unlocked |-> TRUE,
                       state |-> conversation[q].state, collector |-> conversation[q].collector]
    <3>1. /\ conversation \in [Representatives -> Conversation] /\ q \in Representatives
          /\ conversation[q] \in Conversation
      BY Fields DEF IInv, TypeOK
    <3>2. row \in Conversation /\ row.freeRepliesUsed = conversation[q].freeRepliesUsed
      BY <3>1 DEF Conversation
    <3>3. conversation' = [conversation EXCEPT ![q] = row]
      BY <2>5 DEF Unlock
    <3> HIDE DEF row, q
    <3> QED
      BY <3>1, <3>2, <3>3
  <2> QED
    BY <2>1, <2>3, <2>4, <2>5 DEF Write, CreateHandoff, Start
<1>3. bot' \in Handler /\ BotKnows' /\ AnswersAreCounted'
  BY <1>1, <1>2, WriteCounts DEF counters
<1>4. handoffs' \in Seq(Handoff) /\ HandoffsKept'
  <2>1. CASE UNCHANGED handoffs
    BY <2>1 DEF IInv, TypeOK, HandoffsKept, OneAwaitingHandoff, AwaitingIsFollowedUp
  <2>2. CASE \E r \in Representatives, intent \in Intents : RequestHandoff(r, intent)
    BY <2>2, OneRowComes DEF IInv, TypeOK, HandoffsKept
  <2>3. CASE CreateHandoff
    BY <2>2, <2>3, Fields DEF CreateHandoff, IInv
  <2>4. CASE SubmitCollector
    <3>1. bot.context.collector.intent \in Intents
      BY <2>4, <1>1, AdvancedTyped DEF SubmitCollector, Submit, Collector
    <3> QED
      BY <2>2, <2>4, <3>1, Fields DEF SubmitCollector, Submit, Advanced, IInv
  <2> QED
    BY <2>1, <2>3, <2>4 DEF Write, StartCollector, CancelCollector, AdvanceCollector, Start, Unlock
<1>5. intakes' \in Seq(Intake) /\ active' \in Representatives
  <2>1. CASE SubmitCollector
    <3> DEFINE intake == [representative |-> bot.representative, collector |-> Advanced]
    <3>1. intake \in Intake
      BY <1>1, <2>1, AdvancedTyped, Fields DEF SubmitCollector, Submit, Intake, IInv
    <3>2. intakes' = Append(intakes, intake) /\ active' = active
      BY <2>1 DEF SubmitCollector, Submit
    <3> HIDE DEF intake
    <3> QED
      BY <3>1, <3>2, AppendProperties DEF IInv, TypeOK
  <2>2. CASE ~SubmitCollector
    BY <2>2, Fields DEF Write, StartCollector, CancelCollector, AdvanceCollector, CreateHandoff,
       Start, SwitchTo, Unlock, IInv, TypeOK
  <2> QED
    BY <2>1, <2>2
<1>6. TypeOK'
  <2>1. bot'.stage = "reply"
    BY <1>1 DEF Goto, IInv, TypeOK, Handler
  <2> QED
    BY <1>1, <1>2, <1>3, <1>4, <1>5, <2>1 DEF telegram, counters, IInv, TypeOK
<1> QED
  BY <1>3, <1>4, <1>6 DEF IInv, HandoffsKept

\* A handler that ended, or that goes on to count its reply.
LEMMA EndedTyped ==
  ASSUME IInv, bot.stage \in {"write", "reply", "record"}, EndUpdate
  PROVE  /\ bot' \in Handler /\ bot'.stage = "idle" /\ position' \in 1..(fetched + 1)
         /\ BotKnows' /\ \A r \in Representatives : Unread(r)' = 0 /\ Uncounted(r)' = 0
<1>1. bot' = Idle /\ position' = position + 1 /\ bot'.stage = "idle"
  BY DEF EndUpdate, Idle
<1>2. position' \in 1..(fetched + 1)
  BY <1>1 DEF IInv, TypeOK
<1> QED
  BY <1>1, <1>2, IdleTyped DEF BotKnows, Unread, Uncounted

\* What is pending of one representative, before the reply is sent or counted.
LEMMA Pending ==
  ASSUME IInv, NEW r \in Representatives
  PROVE  /\ CountsFor(r) /\ faults \in Nat /\ freeAnswers[r] \in Nat /\ FreeReplyLimit[r] \in Nat
         /\ conversation[r].freeRepliesUsed \in Nat
         /\ Unread(r) \in {0, 1} /\ Uncounted(r) \in {0, 1}
<1>1. Unread(r) \in {0, 1} /\ Uncounted(r) \in {0, 1}
  BY DEF Unread, Uncounted
<1> QED
  BY <1>1, Fields DEF IInv, AnswersAreCounted

\* A reply adds an answer of the running handler's representative at most; what
\* it was not read for is no longer pending, and what it was read for fits.
LEMMA DeliveredCounts ==
  ASSUME IInv, bot.stage = "reply", Delivered, NEW r \in Representatives
  PROVE  /\ freeAnswers' \in [Representatives -> Nat]
         /\ freeAnswers'[r] \in {freeAnswers[r], freeAnswers[r] + 1}
         /\ Uncounted(r) = 0
         /\ freeAnswers'[r] = freeAnswers[r] + 1 =>
              /\ bot.representative = r /\ IsFreeAnswer
              /\ Unread(r) = 1 \/ (/\ bot.context # Nothing
                                   /\ conversation[r].freeRepliesUsed < FreeReplyLimit[r])
<1>1. /\ freeAnswers \in [Representatives -> Nat] /\ bot.representative \in Representatives
      /\ freeAnswers[r] \in Nat
  BY Fields DEF IInv, TypeOK
<1>2. /\ freeAnswers' \in [Representatives -> Nat]
      /\ freeAnswers'[r] \in {freeAnswers[r], freeAnswers[r] + 1}
      /\ freeAnswers'[r] = freeAnswers[r] + 1 => bot.representative = r /\ IsFreeAnswer
  <2>1. CASE IsFreeAnswer
    BY <1>1, <2>1 DEF Delivered
  <2>2. CASE ~IsFreeAnswer
    BY <1>1, <2>2 DEF Delivered
  <2> QED
    BY <2>1, <2>2
<1>3. Uncounted(r) = 0
  BY DEF Uncounted
<1>4. ASSUME bot.representative = r, IsFreeAnswer
      PROVE  Unread(r) = 1 \/ (/\ bot.context # Nothing
                               /\ conversation[r].freeRepliesUsed < FreeReplyLimit[r])
  <2>1. CASE bot.context = Nothing
    BY <1>4, <2>1 DEF Unread, IsFreeAnswer
  <2>2. CASE bot.context # Nothing
    BY <1>4, <2>2 DEF IInv, BotKnows
  <2> QED
    BY <2>1, <2>2
<1> QED
  BY <1>2, <1>3, <1>4

LEMMA ReplyStep == ASSUME IInv, Reply PROVE IInv'
<1>1. /\ bot.stage = "reply" /\ Delivered
      /\ UNCHANGED <<sent, acknowledged, fetched, active, conversation, handoffs, intakes, counters>>
  BY DEF Reply
<1>2. freeAnswers' \in [Representatives -> Nat]
  BY <1>1, DeliveredCounts DEF IInv, TypeOK
<1>3. CASE bot.context # Nothing /\ bot.plan \in Counted
  <2>1. /\ bot'.stage = "record" /\ bot'.plan = bot.plan /\ bot'.context = bot.context
        /\ bot'.representative = bot.representative /\ bot' \in Handler /\ position' = position
    BY <1>3 DEF Reply, Goto, IInv, TypeOK, Handler, Stages
  <2>2. BotKnows'
    BY <1>3, <2>1 DEF BotKnows
  <2>3. AnswersAreCounted'
    <3> SUFFICES ASSUME NEW r \in Representatives PROVE CountsFor(r)'
      BY DEF AnswersAreCounted
    <3>1. Unread(r)' = 0 /\ Uncounted(r)' \in {0, 1} /\ (bot.context # Nothing => Unread(r) = 0)
      BY <2>1 DEF Unread, Uncounted
    <3>2. bot.representative = r /\ IsFreeAnswer => Uncounted(r)' = 1
      BY <2>1 DEF Uncounted, IsFreeAnswer
    <3> HIDE DEF Unread, Uncounted
    <3> QED
      BY <1>1, <1>3, <3>1, <3>2, Pending, DeliveredCounts DEF CountsFor, counters
  <2>4. TypeOK'
    BY <1>1, <1>2, <2>1 DEF counters, IInv, TypeOK
  <2> QED
    BY <1>1, <2>2, <2>3, <2>4 DEF IInv, OneAwaitingHandoff, AwaitingIsFollowedUp
<1>4. CASE ~(bot.context # Nothing /\ bot.plan \in Counted)
  <2>1. EndUpdate
    BY <1>4 DEF Reply
  <2>2. /\ bot' \in Handler /\ bot'.stage = "idle" /\ position' \in 1..(fetched + 1)
        /\ BotKnows' /\ \A r \in Representatives : Unread(r)' = 0 /\ Uncounted(r)' = 0
    BY <1>1, <2>1, EndedTyped
  <2>3. AnswersAreCounted'
    <3> SUFFICES ASSUME NEW r \in Representatives PROVE CountsFor(r)'
      BY DEF AnswersAreCounted
    <3>1. IsFreeAnswer => bot.context = Nothing
      BY <1>4, Fields DEF IInv, IsFreeAnswer, Limited, Counted
    <3>2. Unread(r)' = 0 /\ Uncounted(r)' = 0
      BY <2>2
    <3> HIDE DEF Unread, Uncounted
    <3> QED
      BY <1>1, <3>1, <3>2, Pending, DeliveredCounts DEF CountsFor, counters
  <2>4. TypeOK'
    BY <1>1, <1>2, <2>2 DEF counters, IInv, TypeOK
  <2> QED
    BY <1>1, <2>2, <2>3, <2>4 DEF IInv, OneAwaitingHandoff, AwaitingIsFollowedUp
<1> QED
  BY <1>3, <1>4

LEMMA RecordStep == ASSUME IInv, Record PROVE IInv'
<1>1. /\ bot.stage = "record" /\ EndUpdate
      /\ UNCHANGED <<sent, acknowledged, fetched, active, handoffs, intakes, counters, freeAnswers>>
  BY DEF Record
<1>2. /\ bot' \in Handler /\ bot'.stage = "idle" /\ position' \in 1..(fetched + 1)
      /\ BotKnows' /\ \A r \in Representatives : Unread(r)' = 0 /\ Uncounted(r)' = 0
  BY <1>1, EndedTyped
<1> DEFINE q == bot.representative
           row == [freeRepliesUsed |-> conversation[q].freeRepliesUsed + 1,
                   unlocked |-> conversation[q].unlocked, state |-> conversation[q].state,
                   collector |-> conversation[q].collector]
<1>3. /\ conversation \in [Representatives -> Conversation] /\ q \in Representatives
      /\ conversation[q] \in Conversation /\ conversation[q].freeRepliesUsed \in Nat
  BY Fields DEF IInv, TypeOK
<1>4. row \in Conversation /\ row.freeRepliesUsed = conversation[q].freeRepliesUsed + 1
  BY <1>3 DEF Conversation
<1>5. conversation' = IF CountsAsFree THEN [conversation EXCEPT ![q] = row] ELSE conversation
  BY DEF Record
<1>6. /\ conversation' \in [Representatives -> Conversation]
      /\ \A r \in Representatives :
           conversation'[r].freeRepliesUsed =
             IF CountsAsFree /\ r = bot.representative
             THEN conversation[r].freeRepliesUsed + 1 ELSE conversation[r].freeRepliesUsed
  <2> HIDE DEF row
  <2>1. CASE CountsAsFree
    BY <1>3, <1>4, <1>5, <2>1
  <2>2. CASE ~CountsAsFree
    BY <1>3, <1>5, <2>2
  <2> QED
    BY <2>1, <2>2
<1>7. AnswersAreCounted'
  <2> SUFFICES ASSUME NEW r \in Representatives PROVE CountsFor(r)'
    BY DEF AnswersAreCounted
  <2>1. Unread(r) = 0
    BY <1>1 DEF Unread
  <2>2. Uncounted(r) = 1 => CountsAsFree /\ r = bot.representative
    BY <1>1 DEF Uncounted, IsFreeAnswer, CountsAsFree, IInv, BotKnows
  <2>3. Unread(r)' = 0 /\ Uncounted(r)' = 0
    BY <1>2
  <2>4. \/ conversation'[r].freeRepliesUsed = conversation[r].freeRepliesUsed + 1
        \/ /\ conversation'[r].freeRepliesUsed = conversation[r].freeRepliesUsed
           /\ Uncounted(r) # 1
    BY <1>6, <2>2
  <2> HIDE DEF Unread, Uncounted, row, q
  <2> QED
    BY <1>1, <2>1, <2>3, <2>4, Pending DEF CountsFor, counters
<1>8. TypeOK'
  BY <1>1, <1>2, <1>6 DEF counters, IInv, TypeOK
<1> QED
  BY <1>1, <1>2, <1>7, <1>8 DEF IInv, OneAwaitingHandoff, AwaitingIsFollowedUp

LEMMA ThrowStep == ASSUME IInv, Throw PROVE IInv'
<1>1. /\ bot.stage \in {"write", "reply", "record"} /\ faults' = faults + 1
      /\ (bot.stage = "reply" /\ Delivered) \/ UNCHANGED freeAnswers
      /\ UNCHANGED <<sent, acknowledged, fetched, active, conversation, handoffs, intakes, life,
                     decisions>>
  BY DEF Throw
<1>2. freeAnswers' \in [Representatives -> Nat]
  <2>1. PICK r : r \in Representatives
    OBVIOUS
  <2> QED
    BY <1>1, <2>1, DeliveredCounts DEF IInv, TypeOK
<1>3. /\ bot' \in Handler /\ position' \in 1..(fetched + 1)
      /\ bot'.stage \notin {"idle", "stopped"} => position' <= fetched
      /\ BotKnows' /\ \A r \in Representatives : Unread(r)' = 0 /\ Uncounted(r)' = 0
  <2>1. CASE EndUpdate
    BY <1>1, <2>1, EndedTyped
  <2>2. CASE bot.stage = "write" /\ bot.plan \in {"start", "paid"} /\ Goto("reply") /\ position' = position
    <3>1. /\ bot'.stage = "reply" /\ bot'.plan = bot.plan /\ bot'.context = bot.context
          /\ bot'.representative = bot.representative /\ bot' \in Handler
      BY <2>2 DEF Goto, IInv, TypeOK, Handler, Stages
    <3>2. BotKnows'
      BY <1>1, <2>2, <3>1 DEF IInv, BotKnows, IsFreeAnswer
    <3> QED
      BY <2>2, <3>1, <3>2 DEF Unread, Uncounted, Limited, IInv, TypeOK
  <2> QED
    BY <2>1, <2>2 DEF Throw
<1>4. AnswersAreCounted'
  <2> SUFFICES ASSUME NEW r \in Representatives PROVE CountsFor(r)'
    BY DEF AnswersAreCounted
  <2>1. Unread(r)' = 0 /\ Uncounted(r)' = 0
    BY <1>3
  <2> HIDE DEF Unread, Uncounted
  <2>2. CASE UNCHANGED freeAnswers
    BY <1>1, <2>1, <2>2, Pending DEF CountsFor
  <2>3. CASE bot.stage = "reply" /\ Delivered
    BY <1>1, <2>1, <2>3, Pending, DeliveredCounts DEF CountsFor
  <2> QED
    BY <1>1, <2>2, <2>3
<1>5. TypeOK'
  BY <1>1, <1>2, <1>3 DEF IInv, TypeOK
<1> QED
  BY <1>1, <1>3, <1>4, <1>5 DEF IInv, OneAwaitingHandoff, AwaitingIsFollowedUp

LEMMA NextIInv == IInv /\ [Next]_vars => IInv'
<1> SUFFICES ASSUME IInv, [Next]_vars PROVE IInv'
  OBVIOUS
<1>1. CASE Send \/ Poll \/ Crash \/ Decide \/ FollowUp
  BY <1>1, OutsideStep
<1>2. CASE Read
  BY <1>2, ReadStep
<1>3. CASE Write
  BY <1>3, WriteStep
<1>4. CASE Reply
  BY <1>4, ReplyStep
<1>5. CASE Record
  BY <1>5, RecordStep
<1>6. CASE Throw
  BY <1>6, ThrowStep
<1>7. CASE UNCHANGED vars
  <2>1. UNCHANGED <<telegram, active, conversation, handoffs, intakes, bot, counters, freeAnswers>>
    BY <1>7 DEF vars
  <2>2. BotKnows' /\ AnswersAreCounted'
    BY <2>1, QuietCounts DEF counters
  <2>3. TypeOK'
    BY <2>1 DEF telegram, counters, IInv, TypeOK
  <2> QED
    BY <2>1, <2>2, <2>3 DEF IInv, OneAwaitingHandoff, AwaitingIsFollowedUp
<1> QED
  BY <1>1, <1>2, <1>3, <1>4, <1>5, <1>6, <1>7 DEF Next, Write

LEMMA InvariantHolds == Spec => []IInv
  BY InitIInv, NextIInv, PTL DEF Spec

-----------------------------------------------------------------------------

\* The rows and the running handler have the shape the code gives them: a
\* handler is at work on an update the bot was given, and Telegram has been
\* asked for no more than was sent.
THEOREM TypeCorrect == Spec => []TypeOK
  BY InvariantHolds, PTL DEF IInv

LEMMA WindowBound == IInv => FreeAnswersBounded
<1> SUFFICES ASSUME IInv, NEW r \in Representatives
             PROVE  freeAnswers[r] <= FreeReplyLimit[r] + faults
  BY DEF FreeAnswersBounded
<1> QED
  BY Pending DEF CountsFor

\* Nobody gets more free answers than the contract's limit but for one per
\* fault, though each is sent before it is counted and counted from a usage
\* that was read before it was planned (createConversationPlan,
\* recordOutboundReply).
THEOREM FreeWindowHolds == Spec => []FreeAnswersBounded
  BY InvariantHolds, WindowBound, PTL

\* The owner never has two handoffs of one conversation and reason to decide
\* unless one was reopened, however messages are delivered again and whatever
\* handler dies (maybeCreateHandoffRequest, setHandoffRequestStatus).
THEOREM OneHandoffAwaits == Spec => []OneAwaitingHandoff
  BY InvariantHolds, PTL DEF IInv

\* What awaits the owner and was never reopened has a follow-up that will run or
\* has run: only the decision that ends the waiting cancels it.
THEOREM EveryHandoffIsFollowedUp == Spec => []AwaitingIsFollowedUp
  BY InvariantHolds, PTL DEF IInv

-----------------------------------------------------------------------------
(* The collectors.                                                         *)

\* Answers in order, none of them read in a later life or from a later message
\* than the running one; the running message has answered once its handler has
\* written.
Settled(answers) ==
  /\ InOrder(answers)
  /\ \A i \in 1..Len(answers) :
       /\ answers[i].life <= life
       /\ answers[i].life = life =>
            /\ answers[i].message <= position
            /\ answers[i].message = position => bot.stage \in {"reply", "record"}

\* A collector that is kept has questions left.
CollectorsSettled ==
  \A r \in Representatives :
    conversation[r].collector # Nothing =>
      /\ Len(conversation[r].collector.answers) < QuestionCount
      /\ Settled(conversation[r].collector.answers)

\* A handler that advances or submits holds the collector the conversation
\* still has, and does what its next answer calls for.
PlanFits ==
  bot.stage = "write" /\ bot.plan \in {"advance_collector", "submit_collector"} =>
    LET collector == conversation[bot.representative].collector
    IN  /\ collector # Nothing /\ bot.context.collector = collector
        /\ bot.plan = "advance_collector" => Len(collector.answers) + 1 < QuestionCount
        /\ bot.plan = "submit_collector" => Len(collector.answers) + 1 = QuestionCount

OrderInv == CollectorsSettled /\ PlanFits /\ IntakesInOrder

\* Time goes on for answers that are kept: within the handler, to the next
\* message, or into the next life.
LEMMA StaySettled ==
  ASSUME IInv, NEW answers \in Seq(Answer), Settled(answers),
         \/ /\ position' = position /\ life' = life
            /\ bot.stage \in {"reply", "record"} => bot'.stage \in {"reply", "record"}
         \/ position' = position + 1 /\ life' = life
         \/ life' = life + 1
  PROVE  Settled(answers)'
<1>1. position \in Nat /\ life \in Nat
  BY Fields DEF IInv
<1>2. \A i \in 1..Len(answers) : answers[i] \in Answer
  BY ElementOfSeq
<1>3. \A i \in 1..Len(answers) : answers[i].message \in Nat /\ answers[i].life \in Nat
  BY <1>2 DEF Answer
<1> QED
  BY <1>1, <1>3 DEF Settled, InOrder

\* A step that leaves every collector and the intakes alone.
LEMMA QuietOrder ==
  ASSUME IInv, OrderInv, intakes' = intakes,
         \A r \in Representatives : conversation'[r].collector = conversation[r].collector,
         \/ /\ position' = position /\ life' = life
            /\ bot.stage \in {"reply", "record"} => bot'.stage \in {"reply", "record"}
         \/ position' = position + 1 /\ life' = life
         \/ life' = life + 1,
         bot' = bot \/ bot'.stage # "write"
  PROVE  OrderInv'
<1>1. CollectorsSettled'
  <2> SUFFICES ASSUME NEW r \in Representatives, conversation'[r].collector # Nothing
               PROVE  /\ Len(conversation'[r].collector.answers) < QuestionCount
                      /\ Settled(conversation[r].collector.answers)'
    BY DEF CollectorsSettled
  <2>1. conversation[r].collector # Nothing /\ conversation[r] \in Conversation
    BY Fields DEF IInv
  <2>2. PICK answers \in Seq(Answer) : answers = conversation[r].collector.answers
    BY <2>1 DEF Conversation, Collector
  <2>3. Settled(answers) /\ Len(answers) < QuestionCount
    BY <2>1, <2>2 DEF OrderInv, CollectorsSettled
  <2>4. Settled(answers)'
    BY <2>3, StaySettled
  <2>5. conversation'[r].collector.answers = answers
    BY <2>2
  <2> QED
    BY <2>3, <2>4, <2>5 DEF Settled
<1>2. PlanFits'
  BY Fields DEF IInv, OrderInv, PlanFits
<1>3. IntakesInOrder'
  BY SMTT(30) DEF OrderInv, IntakesInOrder, InOrder
<1> QED
  BY <1>1, <1>2, <1>3 DEF OrderInv

LEMMA PlansFit ==
  ASSUME NEW m, NEW r, NEW context \in Conversation, context # Nothing,
         context.collector # Nothing => Len(context.collector.answers) < QuestionCount,
         PlanFor(m, r, context) \in {"advance_collector", "submit_collector"}
  PROVE  /\ context.collector # Nothing
         /\ PlanFor(m, r, context) = "advance_collector" =>
              Len(context.collector.answers) + 1 < QuestionCount
         /\ PlanFor(m, r, context) = "submit_collector" =>
              Len(context.collector.answers) + 1 = QuestionCount
<1> DEFINE next == NextStep(r, IntentOf(m), context)
<1>1. next \in NextSteps
  BY DEF NextStep, NextSteps
<1> HIDE DEF next
<1>2. /\ context.collector # Nothing
      /\ PlanFor(m, r, context) = (IF HasQuestion(Len(context.collector.answers) + 1)
                                   THEN "advance_collector" ELSE "submit_collector")
  BY <1>1 DEF PlanFor, next, NextSteps
<1>3. Len(context.collector.answers) \in Nat
  BY <1>2 DEF Conversation, Collector
<1> QED
  BY <1>2, <1>3 DEF HasQuestion, Questions

LEMMA ReadOrder == ASSUME IInv, OrderInv, Read PROVE OrderInv'
<1>1. /\ UNCHANGED <<telegram, active, conversation, intakes, life>> /\ bot.stage = "idle"
  BY DEF Read
<1>2. CollectorsSettled' /\ IntakesInOrder'
  <2>1. ASSUME NEW answers, Settled(answers) PROVE Settled(answers)'
    BY <1>1, <2>1 DEF Settled, InOrder, telegram
  <2>2. IntakesInOrder'
    BY <1>1 DEF OrderInv, IntakesInOrder, InOrder
  <2>3. CollectorsSettled'
    <3> SUFFICES ASSUME NEW r \in Representatives, conversation[r].collector # Nothing
                 PROVE  /\ Len(conversation[r].collector.answers) < QuestionCount
                        /\ Settled(conversation[r].collector.answers)'
      BY <1>1 DEF CollectorsSettled
    <3>1. PICK answers : answers = conversation[r].collector.answers
      OBVIOUS
    <3>2. Len(answers) < QuestionCount /\ Settled(answers)
      BY <3>1 DEF OrderInv, CollectorsSettled
    <3>3. Settled(answers)' /\ answers = conversation'[r].collector.answers
      BY <1>1, <2>1, <3>1, <3>2
    <3> QED
      BY <3>1, <3>2, <3>3 DEF Settled, InOrder
  <2> QED
    BY <2>2, <2>3
<1>3. PlanFits'
  <2> SUFFICES ASSUME bot'.stage = "write",
                      bot'.plan \in {"advance_collector", "submit_collector"}
               PROVE  LET collector == conversation[bot'.representative].collector
                      IN  /\ collector # Nothing /\ bot'.context.collector = collector
                          /\ bot'.plan = "advance_collector" =>
                               Len(collector.answers) + 1 < QuestionCount
                          /\ bot'.plan = "submit_collector" =>
                               Len(collector.answers) + 1 = QuestionCount
    BY <1>1 DEF PlanFits
  <2> DEFINE m == sent[position]
  <2>1. PICK r \in {active, Default} :
            \/ m.kind \in {"start", "paid"} /\ Begin(m.to, m.kind, "unknown", Nothing)
            \/ Begin(r, PlanFor(m, r, conversation[r]), IntentOf(m), conversation[r])
            \/ Begin(r, PlanFor(m, r, Nothing), IntentOf(m), Nothing)
    <3>2. CASE m.kind \in {"start", "paid"}
      BY <3>2 DEF Read
    <3>3. CASE m.kind \notin {"start", "paid"}
      <4>1. PICK noSlug \in {0, 1}, noContext \in {0, 1} :
              LET r == IF noSlug = 1 THEN Default ELSE active
                  context == IF noContext = 1 THEN Nothing ELSE conversation[r]
              IN  Begin(r, PlanFor(m, r, context), IntentOf(m), context)
        BY <3>3 DEF Read
      <4> DEFINE r == IF noSlug = 1 THEN Default ELSE active
      <4>2. \/ Begin(r, PlanFor(m, r, conversation[r]), IntentOf(m), conversation[r])
            \/ Begin(r, PlanFor(m, r, Nothing), IntentOf(m), Nothing)
        BY <4>1
      <4>3. r \in {active, Default}
        OBVIOUS
      <4> HIDE DEF r
      <4> QED
        BY <4>2, <4>3
    <3> QED
      BY <3>2, <3>3
  <2> HIDE DEF m
  <2> DEFINE context == conversation[r]
             plan == PlanFor(m, r, context)
  <2>2. /\ bot'.representative = r /\ bot'.context = context /\ bot'.plan = plan
    <3>1. PlanFor(m, r, Nothing) \in Plans \ {"start", "paid"}
      BY PlansTyped
    <3>2. CASE Begin(r, PlanFor(m, r, Nothing), IntentOf(m), Nothing)
      BY <3>1, <3>2 DEF Begin
    <3> QED
      BY <2>1, <3>2 DEF Begin
  <2>3. context \in Conversation /\ context # Nothing /\ r \in Representatives
    BY Fields, ConversationsAssumption DEF IInv, TypeOK
  <2>4. context.collector # Nothing => Len(context.collector.answers) < QuestionCount
    BY <2>3 DEF OrderInv, CollectorsSettled
  <2>5. /\ context.collector # Nothing
        /\ plan = "advance_collector" => Len(context.collector.answers) + 1 < QuestionCount
        /\ plan = "submit_collector" => Len(context.collector.answers) + 1 = QuestionCount
    BY <2>2, <2>3, <2>4, PlansFit
  <2> HIDE DEF plan
  <2> QED
    BY <2>2, <2>5
<1> QED
  BY <1>2, <1>3 DEF OrderInv

\* The running message's answer comes last and settles when it is written.
LEMMA AdvancedSettles ==
  ASSUME IInv, OrderInv, bot.stage = "write",
         bot.plan \in {"advance_collector", "submit_collector"},
         bot'.stage = "reply", position' = position, life' = life
  PROVE  \E answers \in Seq(Answer) :
           /\ answers = Advanced.answers /\ InOrder(answers) /\ Settled(answers)'
           /\ bot.plan = "advance_collector" => Len(answers) < QuestionCount
           /\ bot.plan = "submit_collector" => Len(answers) = QuestionCount
<1>1. PICK collector \in Collector : collector = bot.context.collector
  BY AdvancedTyped
<1>2. position \in Nat /\ life \in Nat
  BY Fields DEF IInv
<1>3. PICK answer \in Answer : answer = [message |-> position, life |-> life]
  BY <1>2 DEF Answer
<1> DEFINE old == collector.answers
           answers == Append(old, answer)
<1>4. answers = Advanced.answers /\ answer.message = position /\ answer.life = life
  BY <1>1, <1>3 DEF Advanced
<1>5. /\ Settled(old) /\ old \in Seq(Answer)
      /\ bot.plan = "advance_collector" => Len(old) + 1 < QuestionCount
      /\ bot.plan = "submit_collector" => Len(old) + 1 = QuestionCount
  BY <1>1, Fields DEF IInv, OrderInv, PlanFits, CollectorsSettled, Collector
<1>6. /\ answers \in Seq(Answer) /\ Len(answers) = Len(old) + 1 /\ Len(old) \in Nat
      /\ answers[Len(old) + 1] = answer
      /\ \A i \in 1..Len(old) : answers[i] = old[i] /\ old[i] \in Answer
  BY <1>5, AppendProperties, ElementOfSeq
<1> HIDE DEF answers, old
<1>7. \A i \in 1..Len(old) :
        /\ answers[i].life <= life
        /\ answers[i].life = life => answers[i].message < position
        /\ answers[i].life \in Nat /\ answers[i].message \in Nat
  <2> SUFFICES ASSUME NEW i \in 1..Len(old)
               PROVE  /\ old[i].life <= life
                      /\ old[i].life = life => old[i].message < position
                      /\ old[i].life \in Nat /\ old[i].message \in Nat
    BY <1>6
  <2>1. old[i].life \in Nat /\ old[i].message \in Nat
    BY <1>6 DEF Answer
  <2>2. /\ old[i].life <= life
        /\ old[i].life = life =>
             old[i].message <= position /\ (old[i].message = position => bot.stage \in {"reply", "record"})
    BY <1>5 DEF Settled
  <2> QED
    BY <1>2, <2>1, <2>2
<1>8. InOrder(answers)
  <2> SUFFICES ASSUME NEW i \in 1..Len(answers), NEW j \in 1..Len(answers), i < j,
                      answers[i].life = answers[j].life
               PROVE  answers[i].message < answers[j].message
    BY DEF InOrder
  <2>1. i \in 1..Len(old) /\ (j \in 1..Len(old) \/ j = Len(old) + 1)
    <3>1. PICK n \in Nat : n = Len(old) /\ Len(answers) = n + 1
      BY <1>6
    <3>2. i \in 1..(n + 1) /\ j \in 1..(n + 1) /\ i < j
      BY <3>1
    <3>3. i \in 1..n /\ (j \in 1..n \/ j = n + 1)
      BY <3>2
    <3> QED
      BY <3>1, <3>3
  <2>2. CASE j \in 1..Len(old)
    BY <1>5, <1>6, <2>1, <2>2 DEF Settled, InOrder
  <2>3. CASE j = Len(old) + 1
    BY <1>4, <1>6, <1>7, <2>1, <2>3
  <2> QED
    BY <2>1, <2>2, <2>3
<1>9. ASSUME NEW i \in 1..Len(answers)
      PROVE  answers[i].life <= life /\ (answers[i].life = life => answers[i].message <= position)
  <2>1. CASE i \in 1..Len(old)
    BY <1>2, <1>7, <2>1
  <2>2. CASE i = Len(old) + 1
    BY <1>2, <1>4, <1>6, <2>2
  <2> QED
    BY <1>6, <2>1, <2>2
<1>10. Settled(answers)'
  BY <1>8, <1>9 DEF Settled, InOrder
<1> QED
  BY <1>4, <1>5, <1>6, <1>8, <1>10

\* A step that gives the handler's conversation another collector, or none.
LEMMA SetOrder ==
  ASSUME IInv, OrderInv, bot'.stage = "reply", UNCHANGED <<position, life>>,
         bot.stage = "write",
         NEW collector \in Collector \cup {Nothing}, SetCollector(collector),
         collector # Nothing =>
           Len(collector.answers) < QuestionCount /\ Settled(collector.answers)'
  PROVE  CollectorsSettled' /\ PlanFits'
<1> DEFINE q == bot.representative
           row == WithCollector(conversation[q], collector)
<1>1. /\ conversation \in [Representatives -> Conversation] /\ q \in Representatives
      /\ conversation' = [conversation EXCEPT ![q] = row] /\ row.collector = collector
  BY Fields DEF IInv, TypeOK, SetCollector, WithCollector
<1> HIDE DEF row
<1>2. ASSUME NEW r \in Representatives, conversation'[r].collector # Nothing
      PROVE  /\ Len(conversation'[r].collector.answers) < QuestionCount
             /\ Settled(conversation[r].collector.answers)'
  <2>1. CASE r = q
    <3>1. conversation'[r].collector = collector
      BY <1>1, <2>1
    <3> QED
      BY <1>2, <3>1 DEF Settled
  <2>2. CASE r # q
    <3>1. conversation'[r] = conversation[r]
      BY <1>1, <2>2
    <3>2. PICK answers \in Seq(Answer) : answers = conversation[r].collector.answers
      BY <1>1, <1>2, <3>1 DEF Conversation, Collector
    <3>3. Settled(answers) /\ Len(answers) < QuestionCount
      BY <1>2, <3>1, <3>2 DEF OrderInv, CollectorsSettled
    <3>4. Settled(answers)'
      BY <3>3, StaySettled
    <3> QED
      BY <3>1, <3>2, <3>3, <3>4 DEF Settled
  <2> QED
    BY <2>1, <2>2
<1>3. CollectorsSettled'
  BY <1>2 DEF CollectorsSettled
<1> QED
  BY <1>3 DEF PlanFits

LEMMA WriteOrder == ASSUME IInv, OrderInv, Write PROVE OrderInv'
<1>1. /\ bot.stage = "write" /\ bot'.stage = "reply" /\ UNCHANGED <<position, life>>
  BY DEF Write, StartCollector, CancelCollector, AdvanceCollector, CreateHandoff, SubmitCollector,
         Start, Unlock, Goto, telegram, counters, IInv, TypeOK, Handler
<1>2. CASE CreateHandoff \/ Start \/ Unlock
  <2>1. /\ intakes' = intakes
        /\ \A r \in Representatives : conversation'[r].collector = conversation[r].collector
    <3>1. CASE CreateHandoff \/ Start
      BY <3>1 DEF CreateHandoff, Start
    <3>2. CASE Unlock
      <4> DEFINE q == bot.representative
                 row == [freeRepliesUsed |-> conversation[q].freeRepliesUsed, unlocked |-> TRUE,
                         state |-> conversation[q].state, collector |-> conversation[q].collector]
      <4>1. /\ conversation \in [Representatives -> Conversation] /\ q \in Representatives
            /\ row.collector = conversation[q].collector
        BY Fields DEF IInv, TypeOK
      <4>2. conversation' = [conversation EXCEPT ![q] = row] /\ intakes' = intakes
        BY <3>2 DEF Unlock
      <4> HIDE DEF row, q
      <4> QED
        BY <4>1, <4>2
    <3> QED
      BY <1>2, <3>1, <3>2
  <2> QED
    BY <1>1, <2>1, QuietOrder
<1>3. CASE StartCollector \/ CancelCollector
  <2>1. PICK collector \in Collector \cup {Nothing} :
          /\ SetCollector(collector)
          /\ collector # Nothing => collector.answers = <<>>
    <3>1. NewCollector(bot.intent) \in Collector /\ NewCollector(bot.intent).answers = <<>>
      BY Fields DEF NewCollector, Collector, IInv
    <3> QED
      BY <1>3, <3>1 DEF StartCollector, CancelCollector
  <2>2. collector # Nothing =>
          Len(collector.answers) < QuestionCount /\ Settled(collector.answers)'
    BY <2>1 DEF Settled, InOrder
  <2>3. CollectorsSettled' /\ PlanFits'
    BY <1>1, <2>1, <2>2, SetOrder
  <2>4. IntakesInOrder'
    BY <1>3 DEF StartCollector, CancelCollector, OrderInv, IntakesInOrder, InOrder
  <2> QED
    BY <2>3, <2>4 DEF OrderInv
<1>4. CASE AdvanceCollector
  <2>1. bot.plan = "advance_collector" /\ SetCollector(Advanced) /\ intakes' = intakes
    BY <1>4 DEF AdvanceCollector
  <2>2. PICK answers \in Seq(Answer) :
          /\ answers = Advanced.answers /\ Len(answers) < QuestionCount /\ Settled(answers)'
    BY <1>1, <2>1, AdvancedSettles
  <2>3. PICK collector \in Collector : collector = Advanced
    BY <1>1, <2>1, AdvancedTyped
  <2>4. CollectorsSettled' /\ PlanFits'
    BY <1>1, <2>1, <2>2, <2>3, SetOrder
  <2>5. IntakesInOrder'
    BY <2>1 DEF OrderInv, IntakesInOrder, InOrder
  <2> QED
    BY <2>4, <2>5 DEF OrderInv
<1>5. CASE SubmitCollector
  <2>1. bot.plan = "submit_collector" /\ SetCollector(Nothing)
    BY <1>5 DEF SubmitCollector, Submit
  <2>2. CollectorsSettled' /\ PlanFits'
    BY <1>1, <2>1, SetOrder
  <2>3. PICK answers \in Seq(Answer) :
          answers = Advanced.answers /\ InOrder(answers) /\ Len(answers) = QuestionCount
    BY <1>1, <2>1, AdvancedSettles
  <2>4. PICK intake \in Intake : /\ intakes' = Append(intakes, intake)
                                 /\ intake.collector.answers = answers
    <3>1. [representative |-> bot.representative, collector |-> Advanced] \in Intake
      BY <1>1, <2>1, AdvancedTyped, Fields DEF Intake, IInv
    <3> QED
      BY <1>5, <2>3, <3>1 DEF SubmitCollector, Submit
  <2>5. /\ Len(intakes') = Len(intakes) + 1 /\ intakes'[Len(intakes) + 1] = intake
        /\ \A i \in 1..Len(intakes) : intakes'[i] = intakes[i]
    BY <2>4, AppendProperties DEF IInv, TypeOK
  <2>6. IntakesInOrder'
    <3> SUFFICES ASSUME NEW i \in 1..Len(intakes')
                 PROVE  /\ Len(intakes'[i].collector.answers) = QuestionCount
                        /\ InOrder(intakes'[i].collector.answers)
      BY DEF IntakesInOrder, InOrder
    <3>1. CASE i \in 1..Len(intakes)
      BY <2>5, <3>1 DEF OrderInv, IntakesInOrder
    <3>2. CASE i = Len(intakes) + 1
      BY <2>3, <2>4, <2>5, <3>2
    <3>3. Len(intakes) \in Nat
      BY DEF IInv, TypeOK
    <3> QED
      BY <2>5, <3>1, <3>2, <3>3
  <2> QED
    BY <2>2, <2>6 DEF OrderInv
<1> QED
  BY <1>2, <1>3, <1>4, <1>5 DEF Write

LEMMA OtherOrder ==
  ASSUME IInv, OrderInv,
         Send \/ Poll \/ Crash \/ Decide \/ FollowUp \/ Reply \/ Record \/ Throw \/ UNCHANGED vars
  PROVE  OrderInv'
<1>1. intakes' = intakes
  BY DEF Send, Poll, Crash, Decide, FollowUp, Reply, Record, Throw, vars
<1>2. \A r \in Representatives : conversation'[r].collector = conversation[r].collector
  <2>1. CASE Record
    BY <2>1, Fields DEF Record, IInv, TypeOK
  <2>2. CASE ~Record
    BY <2>2 DEF Send, Poll, Crash, Decide, FollowUp, Reply, Throw, vars
  <2> QED
    BY <2>1, <2>2
<1>3. /\ \/ /\ position' = position /\ life' = life
            /\ bot.stage \in {"reply", "record"} => bot'.stage \in {"reply", "record"}
         \/ position' = position + 1 /\ life' = life
         \/ life' = life + 1
      /\ bot' = bot \/ bot'.stage # "write"
  <2>1. bot \in Handler
    BY DEF IInv, TypeOK
  <2> QED
    BY <2>1 DEF Send, Poll, Crash, Decide, FollowUp, Reply, Record, Throw, EndUpdate, Goto, Idle,
                Handler, telegram, counters, vars
<1> QED
  BY <1>1, <1>2, <1>3, QuietOrder

LEMMA OrderHolds == Spec => []OrderInv
<1>1. Init => OrderInv
  BY DEF Init, Idle, NewConversation, OrderInv, CollectorsSettled, PlanFits, IntakesInOrder
<1>2. IInv /\ OrderInv /\ [Next]_vars => OrderInv'
  BY ReadOrder, WriteOrder, OtherOrder DEF Next, Write
<1> QED
  BY <1>1, <1>2, InvariantHolds, PTL DEF Spec

\* A submitted intake answers every question, each by a message of its own and
\* in the order they were asked, unless a crash lies between two answers: what
\* the handler advances is what the conversation still has, and an update that
\* is delivered again meets the next question.
THEOREM IntakesAnswerInOrder == Spec => []IntakesInOrder
  BY OrderHolds, PTL DEF OrderInv
=============================================================================
