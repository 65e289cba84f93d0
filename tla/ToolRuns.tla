------------------------------- MODULE ToolRuns -------------------------------
(* What the compute broker does with an allowed tool request, await by await:   *)
(* runAllowedExecution runs a command in the session's container, a browser in  *)
(* it, a native computer-use loop over that browser, or a tool of a remote MCP  *)
(* server; stores what came out; records where the browser is now; and charges  *)
(* the run.  The broker serves the requests of one session concurrently, any    *)
(* statement may throw, the process may stop, and the session may be terminated *)
(* under its runs.  Requests and approvals are ToolRequests' and ComputeBroker's*)
(* subject, the session's statuses and lease ComputeBroker's, the credits that  *)
(* pay for a charge Billing's.                                                  *)
EXTENDS Integers, Sequences, FiniteSets

CONSTANTS Runs,        \* the executions of the session
          MaxRetries,  \* of the MCP binding
          MaxSteps,    \* of a native loop
          MaxFaults,   \* bound on thrown statements and crashes
          None         \* null

ASSUME BoundsAssumption == /\ MaxRetries \in Nat /\ MaxSteps \in Nat \ {0}
                           /\ MaxFaults \in Nat

VARIABLES run,         \* the broker's requests: locals of runAllowedExecution
          status,      \* ToolExecution.status
          artifacts,   \* Artifact rows
          objects,     \* objects in the store
          bucket,      \* artifacts.ts: bucketReadyPromise
          browser,     \* the session's BrowserSession row
          navigations, \* BrowserNavigation rows, oldest first
          ledger,      \* LedgerEntry rows of each execution
          failures,    \* RepresentativeMcpBinding.consecutiveFailures
          toolCalls,   \* how often the remote tool ran, by run
          session,     \* ComputeSession.endedAt and the request that sets it
          late,        \* history: the runs under way when the session ended
          mixed,       \* history: recordings overlapped or were cut short
          faults
vars == <<run, status, artifacts, objects, bucket, browser, navigations, ledger,
          failures, toolCalls, session, late, mixed, faults>>
records == <<browser, navigations, late, mixed>>
storage == <<artifacts, objects, bucket>>
remote == <<failures, toolCalls>>
-------------------------------------------------------------------------------
Kinds == {"exec", "browser", "native", "mcp"}
ArtifactKinds == {"STDOUT", "STDERR", "JSON", "SCREENSHOT", "TRACE"}
Artifact == [run: Runs, kind: ArtifactKinds]

(* What a column of type text holds: the address a run was asked for, the page  *)
(* it landed on, or the task a native run was given.                            *)
Address(r) == [of |-> r, is |-> "address"]
Page(r) == [of |-> r, is |-> "page"]
Task(r) == [of |-> r, is |-> "task"]
Text == [of: Runs, is: {"address", "page", "task"}]

(* The browser session as recordBrowserNavigation reads it before the upsert.   *)
Seen == [status: {"ACTIVE", "FAILED", "CLOSED"}, url: {None} \cup Text]

(* The places of runAllowedExecution between two awaits.                        *)
Places == {"idle", "lease", "touch", "command", "seed", "ask", "act", "resolve",
           "call", "succeed", "fail", "put", "row", "finish", "look", "session", "navigation", "bill",
           "done", "lost"}
BeforeTry == {"lease", "touch"}
InTry == {"command", "resolve", "seed", "ask", "act", "put", "row"}
McpTry == {"call", "succeed"}
AfterTry == {"finish", "look", "session", "navigation", "bill"}
Recording == {"session", "navigation"}

Providers == {"openai", "anthropic"}

(* listed: the artifacts of the runtime result; seen: the browser session read  *)
(* before the upsert; stepsTaken: provider answers, charged per step; provider  *)
(* and mutates: who leads a native loop, and what its request allowed.          *)
Process == [at: Places, kind: Kinds, exit: {0, 1}, captured: BOOLEAN,
            answered: BOOLEAN, plan: Seq(ArtifactKinds),
            provider: {None} \cup Providers, mutates: BOOLEAN,
            listed: SUBSET ArtifactKinds, attempt: Nat, stepsTaken: Nat,
            seen: {None} \cup Seen,
            threw: BOOLEAN]
Idle == [at |-> "idle", kind |-> "exec", exit |-> 1, captured |-> FALSE,
         answered |-> FALSE, plan |-> <<>>, listed |-> {}, attempt |-> 0,
         provider |-> None, mutates |-> FALSE,
         stepsTaken |-> 0, seen |-> None, threw |-> FALSE]

(* A request that is over has no locals any more; whether its runtime threw and *)
(* what kind it was are kept for the properties.                                *)
Over(p, place) == [Idle EXCEPT !.at = place, !.kind = p.kind, !.threw = p.threw]

Browser == [status: {"ACTIVE", "FAILED", "CLOSED"}, url: {None} \cup Text,
            open: BOOLEAN, last: Runs]
Navigation == [run: Runs, requested: Text, final: {None} \cup Text,
               succeeded: BOOLEAN, screenshot: BOOLEAN]
Charge == [storage: Nat, provider: Nat, mcp: {0, 1}]

(* null is no text, no row and nothing that was read from one.                  *)
ASSUME NullAssumption == /\ None \notin Text /\ None \notin Seen
                         /\ None \notin Browser /\ None \notin Charge

Terminations == {"open", "reading", "closing", "closed", "interrupted"}

Init ==
    /\ run = [r \in Runs |-> Idle]
    /\ status = [r \in Runs |-> "NONE"]
    /\ artifacts = {} /\ objects = {} /\ bucket = "unknown"
    /\ browser = None /\ navigations = <<>>
    /\ ledger = [r \in Runs |-> None]
    /\ failures = 0 /\ toolCalls = [r \in Runs |-> 0]
    /\ session = [ended |-> FALSE, termination |-> "open", seen |-> "ACTIVE"]
    /\ late = {} /\ mixed = FALSE /\ faults = 0
-------------------------------------------------------------------------------
(* runAllowedExecution, up to the try: loadSessionPolicyContext has refused an   *)
(* ended session, the lease is ensured, the row becomes RUNNING, then the       *)
(* session.  A termination in between is not noticed: a lease that was released *)
(* is taken anew.                                                               *)
Begin(r) ==
    /\ run[r].at = "idle" /\ ~session.ended
    /\ \E k \in Kinds : run' = [run EXCEPT ![r] = [Idle EXCEPT !.at = "lease", !.kind = k]]
    /\ UNCHANGED <<status, storage, records, ledger, remote, session, faults>>

Lease(r) ==
    /\ run[r].at = "lease"
    /\ status' = [status EXCEPT ![r] = "RUNNING"]
    /\ run' = [run EXCEPT ![r].at = "touch"]
    /\ UNCHANGED <<storage, records, ledger, remote, session, faults>>

FirstPlace(k) == CASE k = "mcp" -> "resolve" [] k = "native" -> "seed" [] OTHER -> "command"

TouchSession(r) ==
    /\ run[r].at = "touch"
    /\ run' = [run EXCEPT ![r].at = FirstPlace(run[r].kind)]
    /\ UNCHANGED <<status, storage, records, ledger, remote, session, faults>>

(* The catch of the runtime: whatever the try stored or spent, its result lists *)
(* no artifact, no capture and no cost.                                         *)
Caught(p) == [Over(p, "finish") EXCEPT !.threw = TRUE]

\* Mutant: every artifact starts the list anew
Stores_Anew(p, plan) == [p EXCEPT !.plan = plan, !.listed = {},
                                  !.at = IF plan = <<>> THEN "finish" ELSE "put"]

(* What is to be stored, in the order of the persist functions.                 *)
Stores(p, plan) == [p EXCEPT !.plan = plan,
                             !.at = IF plan = <<>> THEN "finish" ELSE "put"]

(* runContainerExecution: a command's output; a page the browser captured; or   *)
(* the output of a browser that printed no capture.  A container that refuses,  *)
(* times out or is gone fails with what it wrote; after a termination that is   *)
(* the container of the lease it released, or the one of a lease taken since.   *)
Streams == {<<>>, <<"STDOUT">>, <<"STDERR">>, <<"STDOUT", "STDERR">>}
Captures == {<<"JSON", "SCREENSHOT">>, <<"JSON", "SCREENSHOT", "STDERR">>}
Printed(k) == IF k = "browser" THEN Streams \cup Captures ELSE Streams

RunCommand(r) ==
    /\ run[r].at = "command"
    /\ \E exit \in {0, 1}, plan \in Printed(run[r].kind) :
          /\ run' = [run EXCEPT ![r] = [Stores(@, plan) EXCEPT
                        !.exit = exit, !.captured = plan \in Captures]]
    /\ UNCHANGED <<status, storage, records, ledger, remote, session, faults>>
-------------------------------------------------------------------------------
(* What a response asks the browser to do, as the normalizers read it: names    *)
(* they do not know, and moves, drags and texts without their arguments, are    *)
(* dropped.                                                                     *)
ActionTypes == {"click", "double_click", "drag", "keypress", "move", "screenshot",
                "scroll", "type", "wait"}
Mutating == {"click", "double_click", "drag", "keypress", "type"}
OpenAiReadings == {{}} \cup {{a} : a \in ActionTypes}
AnthropicNames == [screenshot |-> "screenshot", mouse_move |-> "move",
                   left_click |-> "click", right_click |-> "click",
                   middle_click |-> "click", double_click |-> "double_click",
                   left_click_drag |-> "drag", key |-> "keypress",
                   keypress |-> "keypress", type |-> "type", scroll |-> "scroll",
                   wait |-> "wait"]
AnthropicReadings == {{}} \cup {{AnthropicNames[n]} : n \in DOMAIN AnthropicNames}

(* runNativeBrowserExecution.  The seed is the screenshot of the latest         *)
(* navigation and the session's current address; without one, or when the       *)
(* provider asked for, or any, is not ready, the run throws.                    *)
LatestHasScreenshot ==
    browser # None /\ navigations # <<>> /\ navigations[Len(navigations)].screenshot
ReadyProviders == {None} \cup Providers

\* Mutant: a run without a seed waits for one
Seed_Waits(r) ==
    /\ run[r].at = "seed" /\ LatestHasScreenshot
    /\ run' = [run EXCEPT ![r] = [@ EXCEPT !.at = "ask", !.provider = "openai"]]
    /\ UNCHANGED <<status, storage, records, ledger, remote, session, faults>>

Seed(r) ==
    /\ run[r].at = "seed"
    /\ \E provider \in ReadyProviders, mutates \in BOOLEAN :
          run' = [run EXCEPT ![r] =
                    IF LatestHasScreenshot /\ provider # None
                    THEN [@ EXCEPT !.at = "ask", !.provider = provider, !.mutates = mutates]
                    ELSE Caught(@)]
    /\ UNCHANGED <<status, storage, records, ledger, remote, session, faults>>

(* The end of the loop: a final text or a capture makes it a success.           *)
Wrapped(p) ==
    Stores([p EXCEPT !.exit = IF p.answered \/ p.captured THEN 0 ELSE 1,
                     !.provider = None, !.mutates = FALSE],
           (IF p.captured THEN <<"JSON", "SCREENSHOT">> ELSE <<>>) \o <<"TRACE">>)
Looped(p) == IF p.stepsTaken < MaxSteps THEN [p EXCEPT !.at = "ask"] ELSE Wrapped(p)

(* The answer is accumulated first; without a computer call it is the final     *)
(* text.  A batch that mutates where that was not allowed throws; of a call no  *)
(* action could be read from, Anthropic's loop throws and OpenAI's acts on none.*)
Answered(p) == Wrapped([p EXCEPT !.answered = TRUE])
Acts(p, batch) == IF batch \cap Mutating # {} /\ ~p.mutates
                  THEN Caught(p) ELSE [p EXCEPT !.at = "act"]

AskOpenAi(r) ==
    /\ run[r].at = "ask" /\ run[r].provider = "openai"
    /\ LET asked == [run[r] EXCEPT !.stepsTaken = @ + 1] IN
       \/ run' = [run EXCEPT ![r] = Answered(asked)]
       \/ \E batch \in OpenAiReadings : run' = [run EXCEPT ![r] = Acts(asked, batch)]
    /\ UNCHANGED <<status, storage, records, ledger, remote, session, faults>>

AskAnthropic(r) ==
    /\ run[r].at = "ask" /\ run[r].provider = "anthropic"
    /\ LET asked == [run[r] EXCEPT !.stepsTaken = @ + 1] IN
       \/ run' = [run EXCEPT ![r] = Answered(asked)]
       \/ \E batch \in AnthropicReadings :
             run' = [run EXCEPT ![r] = IF batch = {} THEN Caught(asked)
                                       ELSE Acts(asked, batch)]
    /\ UNCHANGED <<status, storage, records, ledger, remote, session, faults>>

(* executeActionBatch: the page after the batch, or no capture, which throws.   *)
Act(r) ==
    /\ run[r].at = "act"
    /\ \/ run' = [run EXCEPT ![r] = Looped([@ EXCEPT !.captured = TRUE])]
       \/ run' = [run EXCEPT ![r] = Caught(@)]
    /\ UNCHANGED <<status, storage, records, ledger, remote, session, faults>>
-------------------------------------------------------------------------------

(* loadRepresentativeMcpBinding and resolveMcpToolName: a binding that is not   *)
(* the representative's, is disabled or does not allow the tool is refused      *)
(* before it is called, and no failure of it is counted.                        *)
ResolveBinding(r) ==
    /\ run[r].at = "resolve"
    /\ \/ run' = [run EXCEPT ![r].at = "call"]
       \/ run' = [run EXCEPT ![r] = Caught(@)]
    /\ UNCHANGED <<status, storage, records, ledger, remote, session, faults>>

(* callRemoteMcpTool: an answer; a refusal of the server; or a failure of the   *)
(* transport, after which, where it is worth a retry, the call is repeated,     *)
(* although the tool may have run.                                              *)
Failures == {"timeout", "unauthorized", "endpoint_not_found", "server_unavailable",
             "transport_connection_failed"}
Retryable(failure) == failure \notin {"unauthorized", "endpoint_not_found"}
Retried(p) == [p EXCEPT !.at = IF p.attempt > MaxRetries THEN "fail" ELSE "call"]

Call(r) ==
    /\ run[r].at = "call"
    /\ \E ran \in BOOLEAN, outcome \in {"answer", "refusal"} \cup Failures :
          /\ outcome = "answer" => ran
          /\ LET called == [run[r] EXCEPT !.attempt = @ + 1] IN
             run' = [run EXCEPT ![r] =
                       CASE outcome = "answer" -> [called EXCEPT !.at = "succeed"]
                         [] outcome \in Failures /\ Retryable(outcome) -> Retried(called)
                         [] OTHER -> [called EXCEPT !.at = "fail"]]
          /\ toolCalls' = IF ran /\ toolCalls[r] <= MaxRetries + 1
                          THEN [toolCalls EXCEPT ![r] = @ + 1] ELSE toolCalls
    /\ UNCHANGED <<status, storage, records, ledger, failures, session, faults>>

RecordSuccess(r) ==
    /\ run[r].at = "succeed"
    /\ failures' = 0
    /\ run' = [run EXCEPT ![r] = [Stores(@, <<"JSON">>) EXCEPT !.exit = 0]]
    /\ UNCHANGED <<status, storage, records, ledger, toolCalls, session, faults>>

RecordFailure(r) ==
    /\ run[r].at = "fail"
    /\ failures' = failures + 1
    /\ run' = [run EXCEPT ![r] = Caught(@)]
    /\ UNCHANGED <<status, storage, records, ledger, toolCalls, session, faults>>
-------------------------------------------------------------------------------
(* persistBufferArtifact: the bucket, the object, then the row.  The promise of *)
(* the bucket is kept for the life of the process, rejected or not.             *)
Put(r) ==
    /\ run[r].at = "put"
    /\ IF bucket = "broken"
       THEN /\ run' = [run EXCEPT ![r] = Caught(@)]
            /\ UNCHANGED <<bucket, objects>>
       ELSE /\ bucket' = "ready"
            /\ objects' = objects \cup {[run |-> r, kind |-> Head(run[r].plan)]}
            /\ run' = [run EXCEPT ![r].at = "row"]
    /\ UNCHANGED <<status, artifacts, records, ledger, remote, session, faults>>

CreateRow(r) ==
    /\ run[r].at = "row"
    /\ artifacts' = artifacts \cup {[run |-> r, kind |-> Head(run[r].plan)]}
    /\ LET listing == [run[r] EXCEPT !.listed = @ \cup {Head(run[r].plan)}] IN
       run' = [run EXCEPT ![r] = Stores(listing, Tail(listing.plan))]
    /\ UNCHANGED <<status, objects, bucket, records, ledger, remote, session, faults>>

Finish(r) ==
    /\ run[r].at = "finish"
    /\ status' = [status EXCEPT ![r] = IF run[r].exit = 0 THEN "SUCCEEDED" ELSE "FAILED"]
    /\ run' = [run EXCEPT ![r].at = IF run[r].kind \in {"browser", "native"}
                                    THEN "look" ELSE "bill"]
    /\ UNCHANGED <<storage, records, ledger, remote, session, faults>>
-------------------------------------------------------------------------------
(* recordBrowserNavigation: the session is read, derived and written, then the  *)
(* navigation.  A native request carries no address: its task stands in for it. *)
Requested(r) == IF run[r].kind = "native" THEN Task(r) ELSE Address(r)
Final(r) == IF run[r].captured THEN Page(r) ELSE None

Look(r) ==
    /\ run[r].at = "look"
    /\ run' = [run EXCEPT ![r] =
                 [@ EXCEPT !.at = "session",
                           !.seen = IF browser = None THEN None
                                    ELSE [status |-> browser.status, url |-> browser.url]]]
    /\ mixed' = (mixed \/ \E other \in Runs : run[other].at \in Recording)
    /\ UNCHANGED <<status, storage, browser, navigations, ledger, remote, session,
                   late, faults>>

\* Mutant: a failed navigation forgets where the browser is
Derived_Forgets(r) ==
    [status |-> IF run[r].exit = 0 THEN "ACTIVE" ELSE "FAILED",
     url |-> IF run[r].captured THEN Page(r)
             ELSE IF run[r].exit = 0 THEN Requested(r) ELSE None]

(* deriveBrowserSessionPersistence                                              *)
Derived(r) ==
    [status |-> IF run[r].exit = 0 THEN "ACTIVE" ELSE "FAILED",
     url |-> IF run[r].captured THEN Page(r)
             ELSE IF run[r].exit = 0 THEN Requested(r)
             ELSE IF run[r].seen = None THEN None ELSE run[r].seen.url]

UpsertSession(r) ==
    /\ run[r].at = "session"
    /\ browser' = [status |-> Derived(r).status, url |-> Derived(r).url,
                   open |-> TRUE, last |-> r]
    /\ run' = [run EXCEPT ![r] = [@ EXCEPT !.at = "navigation", !.seen = None]]
    /\ UNCHANGED <<status, storage, navigations, ledger, remote, session, late,
                   mixed, faults>>

UpsertNavigation(r) ==
    /\ run[r].at = "navigation"
    /\ navigations' = Append(navigations,
          [run |-> r, requested |-> Requested(r), final |-> Final(r),
           succeeded |-> run[r].exit = 0, screenshot |-> run[r].captured])
    /\ run' = [run EXCEPT ![r].at = "bill"]
    /\ UNCHANGED <<status, storage, browser, ledger, remote, session, late, mixed, faults>>

(* applyExecutionBilling, of what the runtime result lists.                     *)
Bill(r) ==
    /\ run[r].at = "bill"
    /\ ledger' = [ledger EXCEPT ![r] =
          [storage |-> Cardinality(run[r].listed), provider |-> run[r].stepsTaken,
           mcp |-> IF run[r].kind = "mcp" /\ run[r].exit = 0 THEN 1 ELSE 0]]
    /\ run' = [run EXCEPT ![r] = Over(@, "done")]
    /\ UNCHANGED <<status, storage, records, remote, session, faults>>
-------------------------------------------------------------------------------
(* terminateComputeSession: the lease is released and the session ended, then   *)
(* closeBrowserSessionForComputeSession reads the browser session and closes it.*)
EndSession ==
    /\ session.termination \in {"open", "interrupted"}
    /\ session' = [session EXCEPT !.ended = TRUE, !.termination = "reading"]
    /\ late' = IF session.ended THEN late
               ELSE {r \in Runs : run[r].at \notin {"idle", "done", "lost"}}
    /\ UNCHANGED <<run, status, storage, browser, navigations, ledger, remote, mixed, faults>>

ReadBrowser ==
    /\ session.termination = "reading"
    /\ session' = IF browser = None THEN [session EXCEPT !.termination = "closed"]
                  ELSE [session EXCEPT !.termination = "closing", !.seen = browser.status]
    /\ UNCHANGED <<run, status, storage, records, ledger, remote, faults>>

\* Mutant: a failed browser session is left as it is
CloseBrowser_KeepsFailed ==
    /\ session.termination = "closing"
    /\ browser' = IF session.seen = "FAILED" THEN browser
                  ELSE [browser EXCEPT !.status = "CLOSED", !.open = FALSE]
    /\ session' = [session EXCEPT !.termination = "closed"]
    /\ UNCHANGED <<run, status, storage, navigations, ledger, remote, late, mixed, faults>>

CloseBrowser ==
    /\ session.termination = "closing"
    /\ browser' = [browser EXCEPT
          !.status = IF session.seen = "FAILED" THEN "FAILED" ELSE "CLOSED", !.open = FALSE]
    /\ session' = [session EXCEPT !.termination = "closed"]
    /\ UNCHANGED <<run, status, storage, navigations, ledger, remote, late, mixed, faults>>
-------------------------------------------------------------------------------
(* A statement throws.  In the try it is caught; the MCP calls first record     *)
(* the failure; anywhere else the request fails and its row stays as it is.     *)
(* The first check of the bucket may be what fails.                             *)
Throw(r) ==
    /\ faults < MaxFaults /\ faults' = faults + 1
    /\ \/ /\ run[r].at \in InTry \cup {"fail"}
          /\ run' = [run EXCEPT ![r] = Caught(@)]
       \/ /\ run[r].at \in McpTry
          /\ run' = [run EXCEPT ![r].at = "fail"]
       \/ /\ run[r].at \in BeforeTry \cup AfterTry
          /\ run' = [run EXCEPT ![r] = Over(@, "lost")]
    /\ bucket' \in IF run[r].at = "put" /\ bucket = "unknown"
                   THEN {"unknown", "broken"} ELSE {bucket}
    /\ mixed' = (mixed \/ run[r].at = "navigation")
    /\ UNCHANGED <<status, artifacts, objects, browser, navigations, ledger, remote,
                   session, late>>

(* The broker's process stops and is started again: requests are gone.          *)
Crash ==
    /\ faults < MaxFaults /\ faults' = faults + 1
    /\ run' = [r \in Runs |-> IF run[r].at \in {"idle", "done"} THEN run[r]
                              ELSE Over(run[r], "lost")]
    /\ bucket' = "unknown"
    /\ session' = IF session.termination \in {"reading", "closing"}
                  THEN [session EXCEPT !.termination = "interrupted"] ELSE session
    /\ mixed' = (mixed \/ \E r \in Runs : run[r].at = "navigation")
    /\ UNCHANGED <<status, artifacts, objects, browser, navigations, ledger, remote, late>>

Work(r) == \/ Lease(r) \/ TouchSession(r) \/ RunCommand(r) \/ Seed(r) \/ AskOpenAi(r)
           \/ AskAnthropic(r) \/ Act(r) \/ ResolveBinding(r) \/ Call(r)
           \/ RecordSuccess(r) \/ RecordFailure(r) \/ Put(r) \/ CreateRow(r)
           \/ Finish(r) \/ Look(r) \/ UpsertSession(r) \/ UpsertNavigation(r) \/ Bill(r)

Next == \/ \E r \in Runs : Begin(r) \/ Work(r) \/ Throw(r)
        \/ EndSession \/ ReadBrowser \/ CloseBrowser \/ Crash

Spec == Init /\ [][Next]_vars

(* Node's event loop resumes every pending request; every await has a timeout.  *)
FairSpec == Spec /\ \A r \in Runs : WF_vars(Work(r))
-------------------------------------------------------------------------------
TypeOK ==
    /\ run \in [Runs -> Process]
    /\ status \in [Runs -> {"NONE", "RUNNING", "SUCCEEDED", "FAILED"}]
    /\ artifacts \subseteq Artifact /\ objects \subseteq Artifact
    /\ bucket \in {"unknown", "ready", "broken"}
    /\ browser \in {None} \cup Browser
    /\ navigations \in Seq(Navigation)
    /\ ledger \in [Runs -> {None} \cup Charge]
    /\ failures \in Nat /\ toolCalls \in [Runs -> Nat]
    /\ session \in [ended: BOOLEAN, termination: Terminations,
                    seen: {"ACTIVE", "FAILED", "CLOSED"}]
    /\ late \subseteq Runs /\ mixed \in BOOLEAN /\ faults \in 0..MaxFaults

(* A run whose runtime did not throw is charged exactly the artifacts it stored *)
(* and the remote call that answered (applyExecutionBilling).                   *)
ChargedForWhatItStored == \A r \in Runs :
    (ledger[r] # None /\ ~run[r].threw) =>
        /\ ledger[r].storage = Cardinality({a \in artifacts : a.run = r})
        /\ (ledger[r].mcp = 1) <=> (run[r].kind = "mcp" /\ toolCalls[r] > 0)

(* Where recordings did not overlap, the browser session is where the last      *)
(* navigation that got anywhere left it, and that run is the one it names.      *)
Landed(n) == n.succeeded \/ n.final # None
Landing(n) == IF n.final # None THEN n.final ELSE n.requested
BrowserIsWhereItWentLast ==
    (~mixed /\ \A r \in Runs : run[r].at \notin Recording) =>
        LET landed == {i \in 1..Len(navigations) : Landed(navigations[i])} IN
        /\ (browser = None) <=> (navigations = <<>>)
        /\ browser # None =>
             /\ browser.last = navigations[Len(navigations)].run
             /\ browser.url = IF landed = {} THEN None
                   ELSE Landing(navigations[CHOOSE i \in landed : \A j \in landed : j <= i])

(* After a termination that was not interrupted, only a run that was already    *)
(* under way when the session ended can leave its browser session open.         *)
OnlyLateRunsReopen ==
    (session.termination = "closed" /\ browser # None /\ browser.open)
        => browser.last \in late

(* No run stays RUNNING, or finished and uncharged, unless a statement outside  *)
(* the try threw or the broker stopped: retries and native loops end.           *)
EveryRunIsCharged == \A r \in Runs :
    (status[r] = "RUNNING") ~> (ledger[r] # None \/ run[r].at = "lost")
===============================================================================
