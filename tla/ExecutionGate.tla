---------------------------- MODULE ExecutionGate ----------------------------
(***************************************************************************)
(* What the compute broker promises about a tool execution, without the    *)
(* session, its lease, the statements in between and the failures.         *)
(*                                                                         *)
(* What the policy allows is cleared for the request that asked.  What it  *)
(* refuses is held for good.  What it is not sure of is held and put       *)
(* before the owner.  A request that takes it up while it is undecided may *)
(* refuse it, or clear itself to run it; nobody takes it up once one of    *)
(* them, or time, has decided it.  A cleared request starts the execution, *)
(* carries its command out once and ends it, or lets go of it on the way.  *)
(* Two requests that took it up together may both do so.                   *)
(***************************************************************************)
EXTENDS Naturals

CONSTANTS Executions, Requests

VARIABLES
  status,     \* [Executions -> ToolExecution status or "ABSENT"]
  asked,      \* the executions put before the owner
  decided,    \* those of them nobody takes up any more
  stage,      \* [Executions -> [Requests -> what the request is about to do with it]]
  carried     \* [Executions -> [Requests -> Nat]], how often each carried it out

gateVars == <<status, asked, decided, stage, carried>>

Init ==
  /\ status = [e \in Executions |-> "ABSENT"]
  /\ asked = {}
  /\ decided = {}
  /\ stage = [e \in Executions |-> [r \in Requests |-> "none"]]
  /\ carried = [e \in Executions |-> [r \in Requests |-> 0]]

Becomes(e, s) == status' = [status EXCEPT ![e] = s]
GoesTo(e, r, s) == stage' = [stage EXCEPT ![e][r] = s]
Untouched(e) == status[e] = "ABSENT" /\ \A r \in Requests : stage[e][r] = "none"

Clear(e, r) ==
  /\ Untouched(e)
  /\ GoesTo(e, r, "cleared")
  /\ UNCHANGED <<status, asked, decided, carried>>

Hold(e) ==
  /\ Untouched(e)
  /\ Becomes(e, "BLOCKED")
  /\ UNCHANGED <<asked, decided, stage, carried>>

Ask(e) ==
  /\ status[e] = "BLOCKED"
  /\ e \notin asked
  /\ asked' = asked \cup {e}
  /\ UNCHANGED <<status, decided, stage, carried>>

TakeUp(e, r) ==
  /\ e \in asked \ decided
  /\ stage[e][r] = "none"
  /\ GoesTo(e, r, "holds")
  /\ UNCHANGED <<status, asked, decided, carried>>

Grant(e, r) ==
  /\ stage[e][r] = "holds"
  /\ GoesTo(e, r, "cleared")
  /\ decided' = decided \cup {e}
  /\ UNCHANGED <<status, asked, carried>>

Refuse(e, r) ==
  /\ stage[e][r] = "holds"
  /\ GoesTo(e, r, "none")
  /\ decided' = decided \cup {e}
  /\ Becomes(e, "CANCELED")
  /\ UNCHANGED <<asked, carried>>

\* Time decides, and calls off what is still held.
CallOff(e) ==
  /\ e \in asked
  /\ decided' = decided \cup {e}
  /\ Becomes(e, IF status[e] = "BLOCKED" THEN "CANCELED" ELSE status[e])
  /\ UNCHANGED <<asked, stage, carried>>

Start(e, r) ==
  /\ stage[e][r] = "cleared"
  /\ GoesTo(e, r, "started")
  /\ Becomes(e, "RUNNING")
  /\ UNCHANGED <<asked, decided, carried>>

CarryOut(e, r) ==
  /\ stage[e][r] = "started"
  /\ GoesTo(e, r, "carried")
  /\ carried' = [carried EXCEPT ![e][r] = @ + 1]
  /\ UNCHANGED <<status, asked, decided>>

End(e, r) ==
  /\ stage[e][r] = "carried"
  /\ GoesTo(e, r, "none")
  /\ \E s \in {"SUCCEEDED", "FAILED"} : Becomes(e, s)
  /\ UNCHANGED <<asked, decided, carried>>

LetGo(e, r) ==
  /\ stage[e][r] # "none"
  /\ GoesTo(e, r, "none")
  /\ UNCHANGED <<status, asked, decided, carried>>

Next ==
  \E e \in Executions :
    \/ Hold(e) \/ Ask(e) \/ CallOff(e)
    \/ \E r \in Requests :
         \/ Clear(e, r) \/ TakeUp(e, r) \/ Grant(e, r) \/ Refuse(e, r)
         \/ Start(e, r) \/ CarryOut(e, r) \/ End(e, r) \/ LetGo(e, r)

Spec == Init /\ [][Next]_gateVars
=============================================================================
