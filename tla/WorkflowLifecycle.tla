------------------------- MODULE WorkflowLifecycle -------------------------
(***************************************************************************)
(* What the durable-workflow machinery promises, without its mechanism: a  *)
(* run is queued, active, then ends once; an owner's resolution cancels it *)
(* for good, even when the timer ended it first; and an intent written for *)
(* Temporal (a START with the run, a CANCEL with its cancellation) is owed *)
(* until Temporal has it, and never forgotten.  WorkflowOutbox implements  *)
(* this with an outbox, leases, retries and processes that crash.          *)
(***************************************************************************)
EXTENDS WorkflowTypes

CONSTANT Runs

VARIABLES
  status,     \* [Runs -> WorkflowStatus or "ABSENT"]
  owed        \* intents Temporal has still to receive

lifecycleVars == <<status, owed>>
Intents == Runs \X WorkflowCommandType

LifecycleTypeOK ==
  /\ status \in [Runs -> WorkflowStatus \cup {"ABSENT"}]
  /\ owed \subseteq Intents

Init == status = [r \in Runs |-> "ABSENT"] /\ owed = {}

Enqueue(r) ==
  /\ status[r] = "ABSENT"
  /\ status' = [status EXCEPT ![r] = "QUEUED"]
  /\ owed' = owed \cup {<<r, "START">>}

\* Temporal has the run; its START is still owed until it is acknowledged.
Activate(r) ==
  /\ status[r] = "QUEUED"
  /\ <<r, "START">> \in owed
  /\ status' = [status EXCEPT ![r] = "RUNNING"]
  /\ UNCHANGED owed

Complete(r) ==
  /\ status[r] \in ActiveStatus
  /\ status' = [status EXCEPT ![r] = "COMPLETED"]
  /\ UNCHANGED owed

\* A resolution may come second to the timer: COMPLETED then becomes CANCELED.
Cancel(r) ==
  /\ status[r] \in {"QUEUED", "RUNNING", "COMPLETED"}
  /\ status' = [status EXCEPT ![r] = "CANCELED"]
  /\ owed' = owed \cup {<<r, "CANCEL">>}

\* Nothing is acknowledged before it took effect.
Acknowledge(i) ==
  /\ i \in owed
  /\ i[2] = "START" => status[i[1]] # "QUEUED"
  /\ owed' = owed \ {i}
  /\ UNCHANGED status

Next ==
  \/ \E r \in Runs : Enqueue(r) \/ Activate(r) \/ Complete(r) \/ Cancel(r)
  \/ \E i \in Intents : Acknowledge(i)

\* Every intent reaches Temporal.
NothingOwedForever == \A i \in Intents : i \in owed ~> i \notin owed

Spec == Init /\ [][Next]_lifecycleVars /\ NothingOwedForever
SafeSpec == Init /\ [][Next]_lifecycleVars
=============================================================================
