---------------------------- MODULE TicketWorkflow ----------------------------
(***************************************************************************)
(* MySingHacks/services/agent: a support ticket as a Temporal workflow     *)
(* (temporal/workflows.py) around a graph of activities (graph/workflow.py)*)
(* run by worker processes (worker.py), each with a tool registry of its   *)
(* own (tools/registry.py).  One process is meant to run, but a crash is   *)
(* followed by a new one and a rolling update starts the new one before    *)
(* the old one is gone, so several may poll the queue at the same time.    *)
(*                                                                         *)
(* Temporal keeps the workflow's history: workflow code survives the death *)
(* of a process, what the process holds in memory does not.  A workflow    *)
(* task is one atomic step here: it handles one event (an activity's       *)
(* result, a signal, the deadline) and runs the workflow code until it     *)
(* blocks again, inline nodes included.  Time is counted in hours.         *)
(***************************************************************************)
EXTENDS Naturals, Sequences, FiniteSets

CONSTANTS
  Tickets,              \* workflow ids
  Workers,              \* worker processes that may run at the same time
  Actions,              \* Plan.action: what the model may plan
  RequireApproval,      \* settings.require_approval_for
  MaxReflectionLoops,   \* settings.max_reflection_loops
  Windows,              \* approval_timeout_hours of an execution, 0 to wait indefinitely
  MaxBoots,             \* bound: worker processes started
  MaxInbox,             \* bound: signals a workflow has not handled yet
  None

ASSUME WorkflowAssumption ==
  /\ RequireApproval \subseteq Actions
  /\ MaxReflectionLoops \in Nat
  /\ Windows \subseteq Nat
  /\ IsFiniteSet(Workers)
  /\ MaxBoots \in Nat /\ MaxInbox \in Nat \ {0}
  /\ None \notin Actions \cup Workers \cup {"approve", "reject"}

VARIABLES
  run,         \* [Tickets -> the workflow execution]
  up,          \* the worker processes that run
  registry,    \* [Workers -> ToolRegistry._completed_actions: the tickets acted upon]
  boots        \* how many processes were started

vars == <<run, up, registry, boots>>

MaxAttempts == 3                    \* maximum_attempts of every retry policy
Headroom == 1                       \* the execution timeout's extra hour
Decisions == {"approve", "reject"}

Reasoning == {"classify", "retrieve", "plan", "execute_read_tools", "draft", "reflect"}
Nodes == Reasoning \cup {"none", "sanitize", "approval", "apply_action", "end"}

RunRecord ==
  [hours     : Nat,                       \* _approval_timeout_hours
   node      : Nodes,                     \* where the graph stands
   attempt   : 1 .. MaxAttempts,          \* of the node's activity
   act       : {"scheduled", "running", "acted", "lost"},  \* the attempt at apply_action
   by        : Workers \cup {None},       \* the process that runs it
   straggler : SUBSET Workers,            \* processes still running one given up on
   plan      : Actions \cup {None},
   loops     : 0 .. MaxReflectionLoops + 1,             \* reflection_count
   status    : {"running", "waiting_approval", "completed", "rejected"},  \* _state.status
   decision  : Decisions \cup {None},     \* _decision
   inbox     : Seq(Decisions),            \* signals in the history, not handled
   closed    : {"open", "completed", "failed", "timed_out"},  \* Temporal's own verdict
   age       : Nat,                       \* hours since the start
   paused_at : Nat,
   effects   : Nat]                       \* how often the side effect happened

TypeOK ==
  /\ run \in [Tickets -> RunRecord]
  /\ up \subseteq Workers
  /\ registry \in [Workers -> SUBSET Tickets]
  /\ boots \in 0 .. MaxBoots

NotStarted ==
  [hours |-> 0, node |-> "none", attempt |-> 1,
   act |-> "scheduled", by |-> None, straggler |-> {}, plan |-> None, loops |-> 0, status |-> "running", decision |-> None,
   inbox |-> << >>, closed |-> "open", age |-> 0, paused_at |-> 0, effects |-> 0]

Init ==
  /\ run = [t \in Tickets |-> NotStarted]
  /\ up = {}
  /\ registry = [w \in Workers |-> {}]
  /\ boots = 0

Started(t) == run[t].node # "none"
Open(t)    == Started(t) /\ run[t].closed = "open"
Paused(t)  == Open(t) /\ run[t].node = "approval"

-----------------------------------------------------------------------------
(* Workflow code, as functions of the run's record.                        *)

Schedule(r, node) == [r EXCEPT !.node = node, !.attempt = 1, !.act = "scheduled"]

\* The run returns: to_run_state() projects the graph's terminal status.
Finish(r, status) == [r EXCEPT !.node = "end", !.by = None, !.status = status,
                              !.closed = "completed"]

\* Mutant: the workflow publishes its state only after the wait.
approval_LateState(r) ==
  IF r.plan \in RequireApproval
  THEN [r EXCEPT !.node = "approval", !.paused_at = r.age]
  ELSE Finish(r, "completed")

(* The approval node, first pass: a plan that needs no approval completes, *)
(* any other interrupts the graph and the workflow starts to wait.         *)
approval(r) ==
  IF r.plan \in RequireApproval
  THEN [r EXCEPT !.node = "approval", !.status = "waiting_approval", !.paused_at = r.age]
  ELSE Finish(r, "completed")

after_reflection(r, passed) ==
  IF ~passed /\ r.loops <= MaxReflectionLoops THEN Schedule(r, "draft") ELSE approval(r)

\* Mutant: the edge after the approval ignores the verdict.
resume_Unconditional(r, verdict) == Schedule(r, "apply_action")

\* Mutant: the approval node already reports the outcome of the action.
resume_CompletesFirst(r, verdict) ==
  IF verdict = "approve"
  THEN [Schedule(r, "apply_action") EXCEPT !.status = "completed"]
  ELSE Finish(r, "rejected")

(* The approval node, second pass, and after_approval(): the status stays  *)
(* what it is while the approved action runs.                              *)
resume(r, verdict) ==
  IF verdict = "approve" THEN Schedule(r, "apply_action") ELSE Finish(r, "rejected")

(* submit_decision(), and what the workflow does in the same task once     *)
(* wait_condition holds: outside the pause, and after a first decision, a  *)
(* decision is dropped.                                                    *)
submit_decision(r, decision) ==
  IF r.status # "waiting_approval" \/ r.decision # None
  THEN r
  ELSE resume([r EXCEPT !.decision = decision], decision)

\* Mutant: one attempt too many.
Retry_OffByOne(r) ==
  IF r.attempt <= MaxAttempts
  THEN [r EXCEPT !.attempt = @ + 1, !.act = "scheduled", !.by = None]
  ELSE [r EXCEPT !.node = "end", !.by = None, !.closed = "failed"]

\* An activity attempt failed: the next one, or the workflow fails.
Retry(r) ==
  IF r.attempt < MaxAttempts
  THEN [r EXCEPT !.attempt = @ + 1, !.act = "scheduled", !.by = None]
  ELSE [r EXCEPT !.node = "end", !.by = None, !.closed = "failed"]

-----------------------------------------------------------------------------
Update(t, r) == run' = [run EXCEPT ![t] = r]

(* Temporal starts the execution; the gateway's ExecuteWorkflow, with the  *)
(* approval window as an argument.                                         *)
Start(t) ==
  /\ ~Started(t)
  /\ \E hours \in Windows :
       Update(t, [run[t] EXCEPT !.node = "sanitize", !.hours = hours])
  /\ UNCHANGED <<up, registry, boots>>

\* The first workflow task: sanitize runs inline, classify is scheduled.
Sanitize(t) ==
  /\ up # {} /\ Open(t) /\ run[t].node = "sanitize"
  /\ Update(t, Schedule(run[t], "classify"))
  /\ UNCHANGED <<up, registry, boots>>

After == [classify |-> "retrieve", retrieve |-> "plan", plan |-> "execute_read_tools",
          execute_read_tools |-> "draft", draft |-> "reflect"]

(* An activity of the reasoning part completes and the graph moves on.     *)
NodeCompletes(t) ==
  /\ up # {} /\ Open(t) /\ run[t].node \in Reasoning \ {"plan", "reflect"}
  /\ Update(t, Schedule(run[t], After[run[t].node]))
  /\ UNCHANGED <<up, registry, boots>>

Planned(t) ==
  /\ up # {} /\ Open(t) /\ run[t].node = "plan"
  /\ \E action \in Actions :
       Update(t, Schedule([run[t] EXCEPT !.plan = action], After.plan))
  /\ UNCHANGED <<up, registry, boots>>

\* Mutant: the critiques are not counted.
Reflected_NotCounted(t) ==
  /\ up # {} /\ Open(t) /\ run[t].node = "reflect"
  /\ \E passed \in BOOLEAN : Update(t, after_reflection(run[t], passed))
  /\ UNCHANGED <<up, registry, boots>>

Reflected(t) ==
  /\ up # {} /\ Open(t) /\ run[t].node = "reflect"
  /\ \E passed \in BOOLEAN :
       Update(t, after_reflection([run[t] EXCEPT !.loops = @ + 1], passed))
  /\ UNCHANGED <<up, registry, boots>>

\* An attempt at a reasoning activity raises, times out or dies with its process.
NodeFails(t) ==
  /\ up # {} /\ Open(t) /\ run[t].node \in Reasoning
  /\ Update(t, Retry(run[t]))
  /\ UNCHANGED <<up, registry, boots>>

-----------------------------------------------------------------------------
(* apply_action and ToolRegistry.execute_action.                           *)

ApplyStarts(t) ==
  /\ Open(t) /\ run[t].node = "apply_action" /\ run[t].act = "scheduled"
  /\ \E w \in up : Update(t, [run[t] EXCEPT !.act = "running", !.by = w])
  /\ UNCHANGED <<up, registry, boots>>

\* Mutant: the idempotency key is not looked up.
execute_action_NoKey(t, w, r) ==
  /\ Update(t, [r EXCEPT !.effects = @ + 1])
  /\ registry' = [registry EXCEPT ![w] = @ \cup {t}]
  /\ UNCHANGED <<up, boots>>

\* Mutant: the side effect is reported and never performed.
execute_action_KeyOnly(t, w, r) ==
  /\ Update(t, r)
  /\ registry' = [registry EXCEPT ![w] = @ \cup {t}]
  /\ UNCHANGED <<up, boots>>

(* The side effect, unless this process remembers to have performed it.    *)
execute_action(t, w, r) ==
  /\ Update(t, IF t \in registry[w] THEN r ELSE [r EXCEPT !.effects = @ + 1])
  /\ registry' = [registry EXCEPT ![w] = @ \cup {t}]
  /\ UNCHANGED <<up, boots>>

ApplyExecutes(t) ==
  /\ Open(t) /\ run[t].node = "apply_action" /\ run[t].act = "running"
  /\ run[t].by \in up
  /\ execute_action(t, run[t].by, [run[t] EXCEPT !.act = "acted"])

\* The attempt's result reaches Temporal, and the workflow returns.
ApplyReports(t) ==
  /\ Open(t) /\ run[t].node = "apply_action" /\ run[t].act = "acted"
  /\ run[t].by \in up
  /\ Update(t, Finish(run[t], "completed"))
  /\ UNCHANGED <<up, registry, boots>>

\* Whoever runs the attempt at apply_action goes on, although it was given up.
Abandoned(r) ==
  r.straggler \cup {w \in Workers : r.node = "apply_action" /\ r.act = "running" /\ r.by = w}

\* Mutant: nothing gives up an attempt that died with its process.
ApplyTimesOut_AliveOnly(t) ==
  /\ Open(t) /\ run[t].node = "apply_action" /\ run[t].act \in {"running", "acted"}
  /\ up # {} \/ run[t].attempt < MaxAttempts
  /\ Update(t, Retry([run[t] EXCEPT !.straggler = Abandoned(run[t])]))
  /\ UNCHANGED <<up, registry, boots>>

(* start_to_close_timeout: Temporal gives the attempt up, whatever became  *)
(* of it, and schedules the next one; when it was the last one, workflow   *)
(* code has to hear of it.  One that still runs is not stopped by that.    *)
ApplyTimesOut(t) ==
  /\ Open(t) /\ run[t].node = "apply_action" /\ run[t].act # "scheduled"
  /\ up # {} \/ run[t].attempt < MaxAttempts
  /\ Update(t, Retry([run[t] EXCEPT !.straggler = Abandoned(run[t])]))
  /\ UNCHANGED <<up, registry, boots>>

StragglerExecutes(t) ==
  \E w \in up \cap run[t].straggler :
    execute_action(t, w, [run[t] EXCEPT !.straggler = @ \ {w}])

-----------------------------------------------------------------------------
(* Signals, deadlines, time.                                               *)

\* Temporal accepts a signal for an open execution and keeps its order.
Signal(t, decision) ==
  /\ Open(t)
  /\ Len(run[t].inbox) < MaxInbox
  /\ Update(t, [run[t] EXCEPT !.inbox = Append(@, decision)])
  /\ UNCHANGED <<up, registry, boots>>

HandleSignal(t) ==
  /\ up # {} /\ Open(t) /\ run[t].inbox # << >>
  /\ Update(t, submit_decision([run[t] EXCEPT !.inbox = Tail(@)], Head(run[t].inbox)))
  /\ UNCHANGED <<up, registry, boots>>

(* wait_condition times out: _TIMED_OUT_DECISION rejects in the workflow's *)
(* own name, _decision stays empty.                                        *)
ApprovalDeadline(t) ==
  /\ up # {} /\ Paused(t) /\ run[t].hours # 0
  /\ run[t].age >= run[t].paused_at + run[t].hours
  /\ Update(t, resume(run[t], "reject"))
  /\ UNCHANGED <<up, registry, boots>>

(* WorkflowExecutionTimeout: Temporal closes the execution itself, without *)
(* running any workflow code.                                              *)
ExecutionTimeout(t) ==
  /\ Open(t) /\ run[t].hours # 0
  /\ run[t].age = run[t].hours + Headroom
  /\ Update(t, [run[t] EXCEPT !.closed = "timed_out", !.node = "end", !.by = None,
                              !.straggler = Abandoned(run[t])])
  /\ UNCHANGED <<up, registry, boots>>

HourPasses(t) ==
  /\ Open(t) /\ run[t].hours # 0
  /\ run[t].age < run[t].hours + Headroom
  /\ Update(t, [run[t] EXCEPT !.age = @ + 1])
  /\ UNCHANGED <<up, registry, boots>>

-----------------------------------------------------------------------------
(* A worker process starts, with an empty ToolRegistry: the first one, the *)
(* one after a crash, or the next one of a rolling update while the old    *)
(* one still runs.                                                         *)
Boots(w) ==
  /\ w \notin up /\ boots < MaxBoots
  /\ up' = up \cup {w}
  /\ boots' = boots + 1
  /\ registry' = [registry EXCEPT ![w] = {}]
  /\ UNCHANGED run

(* A process dies: what it held in memory and the attempts it was running  *)
(* are gone.  The bound leaves room for the one that replaces it.          *)
Exits(w) ==
  /\ w \in up /\ boots < MaxBoots
  /\ up' = up \ {w}
  /\ registry' = [registry EXCEPT ![w] = {}]
  /\ run' = [t \in Tickets |->
               [run[t] EXCEPT !.straggler = @ \ {w},
                              !.act = IF run[t].by = w THEN "lost" ELSE @,
                              !.by = IF @ = w THEN None ELSE @]]
  /\ UNCHANGED boots

-----------------------------------------------------------------------------
(* What the worker does once it can; what Temporal does by the clock.      *)
GraphStep(t) ==
  \/ Sanitize(t) \/ NodeCompletes(t) \/ Planned(t) \/ Reflected(t)
  \/ ApplyStarts(t) \/ ApplyExecutes(t) \/ ApplyReports(t)

WorkerStep(t) == GraphStep(t) \/ HandleSignal(t) \/ ApprovalDeadline(t)

ServerStep(t) == ExecutionTimeout(t) \/ HourPasses(t)

Mishap(t) == NodeFails(t) \/ ApplyTimesOut(t) \/ StragglerExecutes(t)

Next ==
  \/ \E t \in Tickets :
       \/ Start(t)
       \/ WorkerStep(t) \/ ServerStep(t) \/ Mishap(t)
       \/ \E decision \in Decisions : Signal(t, decision)
  \/ \E w \in Workers : Boots(w) \/ Exits(w)

Spec == Init /\ [][Next]_vars

(* A worker polls its queues as long as it runs, so neither activities nor *)
(* signals nor timers starve the others; when no process runs one is       *)
(* started (k8s keeps one replica), an attempt that died with its process  *)
(* times out, and the clock does not stop.  Nobody has to send a signal.   *)
Fairness ==
  /\ WF_vars(up = {} /\ \E w \in Workers : Boots(w))
  /\ \A t \in Tickets :
       /\ WF_vars(GraphStep(t))
       /\ WF_vars(HandleSignal(t))
       /\ WF_vars(ApprovalDeadline(t))
       /\ WF_vars(run[t].act = "lost" /\ ApplyTimesOut(t))
       /\ WF_vars(HourPasses(t))
       /\ WF_vars(ExecutionTimeout(t))

FairSpec == Spec /\ Fairness

-----------------------------------------------------------------------------
(* The side effect never happens unless a reviewer's approve was taken     *)
(* during the pause: not before it, not after a rejection or the deadline, *)
(* not by an attempt that outlived its workflow.                           *)
EffectOnlyIfApproved ==
  \A t \in Tickets :
    run[t].effects > 0 => /\ run[t].decision = "approve"
                          /\ run[t].plan \in RequireApproval
                          /\ run[t].status # "rejected"

(* A ticket that says its approved action was submitted did execute it.    *)
CompletedMeansExecuted ==
  \A t \in Tickets :
    run[t].status = "completed" /\ run[t].plan \in RequireApproval => run[t].effects > 0

(* What the registry's key really gives: a process never performs a        *)
(* ticket's action twice, whatever it retries and however many attempts it *)
(* still runs, so there are at most as many executions as processes were   *)
(* started.                                                                *)
OncePerProcess ==
  \A t \in Tickets : run[t].effects <= boots

(* A signal handled now is applied exactly when the workflow really waits: *)
(* the handler's test (status, no decision yet) never takes a decision the *)
(* workflow is not blocked on, nor drops one it is blocked on.             *)
AcceptsExactlyInPause ==
  \A t \in Tickets : Open(t) =>
    (Paused(t) <=> run[t].status = "waiting_approval" /\ run[t].decision = None)

(* Drafting is bounded: at most MaxReflectionLoops redrafts, so at most    *)
(* one critique more than that.                                            *)
RedraftsBounded ==
  \A t \in Tickets :
    /\ run[t].loops <= MaxReflectionLoops + 1
    /\ run[t].node = "draft" => run[t].loops <= MaxReflectionLoops

(* The first decision taken, and a terminal status once reported, are      *)
(* final.                                                                  *)
VerdictIsFinal ==
  [][\A t \in Tickets :
       /\ run[t].decision # None => run'[t].decision = run[t].decision
       /\ run[t].status \in {"completed", "rejected"} => run'[t].status = run[t].status
       /\ run[t].closed # "open" => run'[t].closed = run[t].closed]_vars

(* Every started ticket gets as far as it can without a reviewer: with     *)
(* crashes and failed attempts, and however critical the critique, it is   *)
(* closed or waits for approval in the end.                                *)
ReachesReview == \A t \in Tickets : Started(t) ~> run[t].closed # "open" \/ Paused(t)

(* A decision that was taken is carried through, whatever becomes of the   *)
(* worker meanwhile: the ticket closes, with no execution timeout to help. *)
DecisionIsCarriedOut ==
  \A t \in Tickets : run[t].decision # None ~> run[t].closed # "open"

-----------------------------------------------------------------------------
(* The workflow implements the ticket's lifecycle: what a query reports,   *)
(* the decision taken, and whether the action happened at all.             *)
Lives ==
  [t \in Tickets |-> [status   |-> IF Started(t) THEN run[t].status ELSE "none",
                      decision |-> run[t].decision,
                      acted    |-> run[t].effects > 0,
                      open     |-> Open(t)]]

Lifecycle == INSTANCE TicketLifecycle WITH
  TicketIds <- Tickets, NoDecision <- None, life <- Lives

ImplementsLifecycle == Lifecycle!Spec

-----------------------------------------------------------------------------
(* What the documents say and the code does not do.                        *)

(* "Execute an approved side effect exactly once per ticket and action"    *)
(* (execute_action's docstring, registry.py): retries, crashes and the     *)
(* processes of a rolling update included, never twice.                    *)
ExecutedOnce == \A t \in Tickets : run[t].effects <= 1

(* "The default auto-rejects after 72 hours so no ticket stays open        *)
(* forever" (deployment.md): a ticket that says it waits for approval      *)
(* does not say so for ever.                                               *)
WaitingEnds ==
  \A t \in Tickets :
    run[t].status = "waiting_approval" ~> run[t].status # "waiting_approval"
=============================================================================
