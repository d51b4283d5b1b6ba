------------------------- MODULE TicketWorkflowProofs -------------------------
(***************************************************************************)
(* Proofs about TicketWorkflow: what holds of every ticket, for any number *)
(* of tickets, worker processes, redrafts and hours.                       *)
(*                                                                         *)
(* Every step but the start and the end of a process changes one run and   *)
(* leaves the others alone, so the work is done on records: Step(r, n)     *)
(* says that a run may go from r to n, keeping the invariant of a run,     *)
(* taking nothing back, and making a move of the abstract lifecycle or     *)
(* none.  One lemma lifts it.                                              *)
(***************************************************************************)
EXTENDS TicketWorkflow, FiniteSetTheorems, TLAPS

\* What is true of a run between any two steps.
RunInv(r) ==
  /\ r \in RunRecord
  /\ r.node \in Reasoning \cup {"none", "sanitize"} =>
       r.loops <= MaxReflectionLoops /\ r.status = "running" /\ r.decision = None
  /\ r.node = "end" <=> r.closed # "open"
  /\ r.node \in {"approval", "apply_action"} =>
       r.status = "waiting_approval" /\ r.plan \in RequireApproval
  /\ r.node = "approval" => r.decision = None
  /\ r.node = "apply_action" => r.decision = "approve"
  /\ r.node = "apply_action" /\ r.act = "acted" => r.effects > 0
  /\ r.straggler # {} \/ r.effects > 0 => /\ r.decision = "approve"
                                          /\ r.plan \in RequireApproval
                                          /\ r.status # "rejected"
  /\ r.status = "completed" /\ r.plan \in RequireApproval => r.effects > 0

\* The processes that could still perform the action of a ticket.
Fresh(t) == {w \in up : t \notin registry[w]}

\* Executions so far, and those the running processes may add: one per process started.
Counted(t) ==
  /\ run[t].effects + Cardinality(Fresh(t)) <= boots
  /\ \A w \in Workers : t \in registry[w] => run[t].effects > 0

WorkflowInv ==
  /\ TypeOK
  /\ \A t \in Tickets : RunInv(run[t]) /\ Counted(t)

-----------------------------------------------------------------------------
(* Steps of one run.                                                       *)

\* What the lifecycle sees of a run.
Shown(r)  == IF r.node # "none" THEN r.status ELSE "none"
Acted(r)  == r.effects > 0
IsOpen(r) == r.node # "none" /\ r.closed = "open"
Waits(r)  == IsOpen(r) /\ Shown(r) = "waiting_approval" /\ r.decision = None

View(r) == [status |-> Shown(r), decision |-> r.decision, acted |-> Acted(r), open |-> IsOpen(r)]

\* The moves of TicketLifecycle, read off the run.
Keeps(r, n)  == Shown(n) = Shown(r) /\ n.decision = r.decision
                /\ (Acted(n) <=> Acted(r)) /\ (IsOpen(n) <=> IsOpen(r))
Begins(r, n) == Shown(r) = "none" /\ Shown(n) = "running" /\ n.decision = r.decision
                /\ (Acted(n) <=> Acted(r)) /\ IsOpen(n)
Pauses(r, n) == IsOpen(r) /\ Shown(r) = "running" /\ Shown(n) = "waiting_approval"
                /\ n.decision = r.decision /\ (Acted(n) <=> Acted(r)) /\ IsOpen(n)
Approves(r, n) == Waits(r) /\ n.decision = "approve" /\ Shown(n) = Shown(r)
                  /\ (Acted(n) <=> Acted(r)) /\ IsOpen(n)
Rejects(r, n)  == Waits(r) /\ n.decision = "reject" /\ Shown(n) = "rejected"
                  /\ (Acted(n) <=> Acted(r)) /\ ~IsOpen(n)
Acts(r, n)     == r.decision = "approve" /\ ~Acted(r) /\ Acted(n) /\ Shown(n) = Shown(r)
                  /\ n.decision = r.decision /\ (IsOpen(n) <=> IsOpen(r))
Closes(r, n)   == IsOpen(r) /\ ~IsOpen(n) /\ n.decision = r.decision
                  /\ (Acted(n) <=> Acted(r))
                  /\ \/ Shown(n) = Shown(r)
                     \/ Shown(n) = "completed" /\ Shown(r) = "running"
                     \/ Shown(n) = "completed" /\ r.decision = "approve" /\ Acted(r)
                     \/ Shown(n) = "rejected" /\ Waits(r)

Moves(r, n) == Begins(r, n) \/ Pauses(r, n) \/ Approves(r, n) \/ Rejects(r, n)
               \/ Acts(r, n) \/ Closes(r, n)

Final(r, n) ==
  /\ r.decision # None => n.decision = r.decision
  /\ r.status \in {"completed", "rejected"} => n.status = r.status
  /\ r.closed # "open" => n.closed = r.closed

Step(r, n) == RunInv(n) /\ Final(r, n) /\ (Keeps(r, n) \/ Moves(r, n))

(* A move of the run is a move of the ticket's lifecycle.                  *)
LEMMA ViewType ==
  ASSUME NEW r \in RunRecord
  PROVE  /\ View(r) \in Lifecycle!Ticket
         /\ View(r).status = Shown(r) /\ View(r).decision = r.decision
         /\ (View(r).acted <=> Acted(r)) /\ (View(r).open <=> IsOpen(r))
<1>1. /\ Shown(r) \in {"none", "running", "waiting_approval", "completed", "rejected"}
      /\ r.decision \in Lifecycle!Verdicts \cup {None}
  BY DEF Shown, RunRecord, Lifecycle!Verdicts, Decisions
<1>2. Acted(r) \in BOOLEAN /\ IsOpen(r) \in BOOLEAN
  BY DEF Acted, IsOpen
<1>3. QED
  BY <1>1, <1>2 DEF View, Lifecycle!Ticket

LEMMA LivesAreViews == Lives = [t \in Tickets |-> View(run[t])]
  BY DEF Lives, View, Shown, Acted, IsOpen, Started, Open

LEMMA MovesRefine ==
  ASSUME NEW t \in Tickets, NEW r \in RunRecord, NEW n \in RunRecord, run[t] = r,
         Lives' = [Lives EXCEPT ![t] = View(n)], Moves(r, n)
  PROVE  Lifecycle!Next
<1>. DEFINE v == View(r)  w == View(n)
<1>1. Lives[t] = v /\ Lives' = [Lives EXCEPT ![t] = w]
  BY LivesAreViews
<1>2. /\ v \in Lifecycle!Ticket /\ w \in Lifecycle!Ticket
      /\ v.status = Shown(r) /\ v.decision = r.decision
      /\ (v.acted <=> Acted(r)) /\ (v.open <=> IsOpen(r))
      /\ w.status = Shown(n) /\ w.decision = n.decision
      /\ (w.acted <=> Acted(n)) /\ (w.open <=> IsOpen(n))
  BY ViewType
<1>. HIDE DEF v, w
<1>3. CASE Begins(r, n)
  <2>1. w = [v EXCEPT !.status = "running", !.open = TRUE]
    BY <1>2, <1>3 DEF Begins, Lifecycle!Ticket
  <2>2. Lifecycle!Begin(t)
    BY <1>1, <1>2, <1>3, <2>1 DEF Begins, Lifecycle!Begin, Lifecycle!Becomes
  <2>3. QED BY <2>2 DEF Lifecycle!Next
<1>4. CASE Pauses(r, n)
  <2>1. w = [v EXCEPT !.status = "waiting_approval"]
    BY <1>2, <1>4 DEF Pauses, Lifecycle!Ticket
  <2>2. Lifecycle!Pause(t)
    BY <1>1, <1>2, <1>4, <2>1 DEF Pauses, Lifecycle!Pause, Lifecycle!Becomes
  <2>3. QED BY <2>2 DEF Lifecycle!Next, Lifecycle!Proceed
<1>5. CASE Approves(r, n)
  <2>1. w = [v EXCEPT !.decision = "approve"]
    BY <1>2, <1>5 DEF Approves, Waits, Lifecycle!Ticket
  <2>2. Lifecycle!Take(t, "approve")
    BY <1>1, <1>2, <1>5, <2>1
    DEF Approves, Waits, Lifecycle!Take, Lifecycle!AwaitsDecision, Lifecycle!Becomes
  <2>3. QED BY <2>2 DEF Lifecycle!Next, Lifecycle!Verdicts
<1>6. CASE Rejects(r, n)
  <2>1. w = [v EXCEPT !.decision = "reject", !.status = "rejected", !.open = FALSE]
    BY <1>2, <1>6 DEF Rejects, Waits, Lifecycle!Ticket
  <2>2. Lifecycle!Take(t, "reject")
    BY <1>1, <1>2, <1>6, <2>1
    DEF Rejects, Waits, Lifecycle!Take, Lifecycle!AwaitsDecision, Lifecycle!Becomes
  <2>3. QED BY <2>2 DEF Lifecycle!Next, Lifecycle!Verdicts
<1>7. CASE Acts(r, n)
  <2>1. w = [v EXCEPT !.acted = TRUE]
    BY <1>2, <1>7 DEF Acts, Lifecycle!Ticket
  <2>2. Lifecycle!Act(t)
    BY <1>1, <1>2, <1>7, <2>1 DEF Acts, Lifecycle!Act, Lifecycle!Becomes
  <2>3. QED BY <2>2 DEF Lifecycle!Next, Lifecycle!Proceed
<1>8. CASE Closes(r, n)
  <2>1. w = [v EXCEPT !.status = Shown(n), !.open = FALSE]
    BY <1>2, <1>8 DEF Closes, Lifecycle!Ticket
  <2>2. Lifecycle!Closes(t, Shown(n)) /\ Lives[t].open
    BY <1>1, <1>2, <1>8, <2>1 DEF Closes, Lifecycle!Closes, Lifecycle!Becomes
  <2>3. \/ Lifecycle!GiveUp(t) \/ Lifecycle!CompleteUnreviewed(t)
        \/ Lifecycle!Execute(t) \/ Lifecycle!Expire(t)
    BY <1>1, <1>2, <1>8, <2>2
    DEF Closes, Waits, Lifecycle!GiveUp, Lifecycle!CompleteUnreviewed, Lifecycle!Execute,
        Lifecycle!Expire, Lifecycle!AwaitsDecision
  <2>4. QED BY <2>3 DEF Lifecycle!Next, Lifecycle!Proceed
<1>9. QED
  BY <1>3, <1>4, <1>5, <1>6, <1>7, <1>8 DEF Moves

-----------------------------------------------------------------------------
(* The workflow code.                                                      *)

\* The fields that scheduling an activity, or its next attempt, leaves alone.
Same(r, n) ==
  /\ n.plan = r.plan /\ n.loops = r.loops /\ n.status = r.status
  /\ n.decision = r.decision /\ n.effects = r.effects

LEMMA ScheduleFields ==
  ASSUME NEW r \in RunRecord, NEW node \in Nodes
  PROVE  LET n == Schedule(r, node)
         IN  /\ n \in RunRecord
             /\ n.node = node /\ n.act = "scheduled"
             /\ n.straggler = r.straggler /\ n.closed = r.closed /\ Same(r, n)
<1>1. 1 \in 1 .. MaxAttempts
  BY DEF MaxAttempts
<1>2. Schedule(r, node) \in RunRecord
  BY <1>1 DEF RunRecord, Schedule
<1>3. QED
  BY <1>2 DEF RunRecord, Schedule, Same

LEMMA FinishFields ==
  ASSUME NEW r \in RunRecord, NEW status \in {"completed", "rejected"}
  PROVE  LET n == Finish(r, status)
         IN  /\ n \in RunRecord
             /\ n.node = "end" /\ n.status = status /\ n.closed = "completed"
             /\ n.plan = r.plan /\ n.decision = r.decision /\ n.effects = r.effects
             /\ n.straggler = r.straggler /\ n.act = r.act
  BY DEF RunRecord, Finish, Nodes

(* The graph moves on to another activity of its reasoning part.           *)
LEMMA ReasoningStep ==
  ASSUME NEW r, RunInv(r), r.node \in Reasoning \cup {"sanitize"}, NEW node \in Reasoning
  PROVE  Step(r, Schedule(r, node))
<1>. DEFINE n == Schedule(r, node)
<1>. SUFFICES Step(r, n)
  OBVIOUS
<1>1. /\ n \in RunRecord
      /\ n.node = node /\ n.act = "scheduled"
      /\ n.straggler = r.straggler /\ n.closed = r.closed /\ Same(r, n)
  BY ScheduleFields DEF RunInv, Nodes
<1>. HIDE DEF n
<1>2. QED
  BY <1>1 DEF Step, RunInv, Final, Keeps, Shown, Acted, IsOpen, Same, Reasoning

LEMMA ApprovalStep ==
  ASSUME NEW r, RunInv(r), r.node = "reflect", NEW q \in RunRecord,
         q.node = "reflect", q.closed = r.closed, q.straggler = r.straggler,
         q.plan = r.plan, q.status = r.status, q.decision = r.decision, q.effects = r.effects
  PROVE  Step(r, approval(q))
<1>. DEFINE n == approval(q)
<1>. SUFFICES Step(r, n)
  OBVIOUS
<1>0. /\ r.status = "running" /\ r.decision = None /\ r.closed = "open"
      /\ r.straggler = {} /\ ~(r.effects > 0)
  BY WorkflowAssumption DEF RunInv, Reasoning
<1>1. CASE q.plan \in RequireApproval
  <2>1. n = [q EXCEPT !.node = "approval", !.status = "waiting_approval", !.paused_at = q.age]
    BY <1>1 DEF approval
  <2>2. n \in RunRecord
    BY <2>1 DEF RunRecord, Nodes
  <2>3. /\ n.node = "approval" /\ n.status = "waiting_approval" /\ n.closed = q.closed
        /\ n.straggler = q.straggler /\ n.plan = q.plan /\ n.decision = q.decision
        /\ n.effects = q.effects
    BY <2>1 DEF RunRecord
  <2>. HIDE DEF n
  <2>4. RunInv(n) /\ Final(r, n)
    BY <1>0, <1>1, <2>2, <2>3 DEF RunInv, Final, Reasoning
  <2>5. Pauses(r, n)
    BY <1>0, <2>3 DEF Pauses, Shown, Acted, IsOpen
  <2>6. QED BY <2>4, <2>5 DEF Step, Moves
<1>2. CASE q.plan \notin RequireApproval
  <2>1. n = Finish(q, "completed")
    BY <1>2 DEF approval
  <2>2. /\ n \in RunRecord
        /\ n.node = "end" /\ n.status = "completed" /\ n.closed = "completed"
        /\ n.plan = q.plan /\ n.decision = q.decision /\ n.effects = q.effects
        /\ n.straggler = q.straggler
    BY <2>1, FinishFields
  <2>. HIDE DEF n
  <2>4. RunInv(n) /\ Final(r, n)
    BY <1>0, <1>2, <2>2 DEF RunInv, Final, Reasoning
  <2>5. Closes(r, n)
    BY <1>0, <2>2 DEF Closes, Shown, Acted, IsOpen
  <2>6. QED BY <2>4, <2>5 DEF Step, Moves
<1>3. QED BY <1>1, <1>2

(* What the lifecycle and the verdicts do not see may change on the way.   *)
Alike(r, q) ==
  /\ q.node = r.node /\ q.status = r.status /\ q.decision = r.decision
  /\ q.closed = r.closed /\ q.effects = r.effects

LEMMA StepFromAlike ==
  ASSUME NEW r, NEW q, NEW n, Alike(r, q), Step(q, n)
  PROVE  Step(r, n)
<1>1. /\ Shown(q) = Shown(r) /\ (Acted(q) <=> Acted(r)) /\ (IsOpen(q) <=> IsOpen(r))
      /\ (Waits(q) <=> Waits(r)) /\ q.decision = r.decision
  BY DEF Alike, Shown, Acted, IsOpen, Waits
<1>2. RunInv(n) /\ Final(r, n)
  BY DEF Step, Final, Alike
<1>3. Keeps(q, n) => Keeps(r, n)
  BY <1>1 DEF Keeps
<1>4. Moves(q, n) => Moves(r, n)
  BY <1>1 DEF Moves, Begins, Pauses, Approves, Rejects, Acts, Closes
<1>5. QED BY <1>2, <1>3, <1>4 DEF Step

LEMMA StepToAlike ==
  ASSUME NEW r, NEW n, Alike(r, n), RunInv(n)
  PROVE  Step(r, n)
  BY DEF Step, Final, Keeps, Alike, Shown, Acted, IsOpen

(* An activity is tried again, or the run fails.                           *)
LEMMA RetryStep ==
  ASSUME NEW r, RunInv(r), r.node \in Reasoning \cup {"apply_action"}
  PROVE  Step(r, Retry(r))
<1>. DEFINE n == Retry(r)
<1>. SUFFICES Step(r, n)
  OBVIOUS
<1>0. r.closed = "open" /\ r.node # "none"
  BY DEF RunInv, Reasoning
<1>1. CASE r.attempt < MaxAttempts
  <2>1. n = [r EXCEPT !.attempt = r.attempt + 1, !.act = "scheduled", !.by = None]
    BY <1>1 DEF Retry
  <2>2. r.attempt + 1 \in 1 .. MaxAttempts
    BY <1>1 DEF RunInv, RunRecord, MaxAttempts
  <2>3. n \in RunRecord
    BY <2>1, <2>2 DEF RunInv, RunRecord
  <2>4. /\ n.node = r.node /\ n.act = "scheduled" /\ n.straggler = r.straggler
        /\ n.closed = r.closed /\ Same(r, n)
    BY <2>1 DEF RunInv, RunRecord, Same
  <2>. HIDE DEF n
  <2>5. RunInv(n) /\ Alike(r, n)
    BY <2>3, <2>4 DEF RunInv, Alike, Same
  <2>6. QED BY <2>5, StepToAlike
<1>2. CASE ~(r.attempt < MaxAttempts)
  <2>1. n = [r EXCEPT !.node = "end", !.by = None, !.closed = "failed"]
    BY <1>2 DEF Retry
  <2>2. n \in RunRecord
    BY <2>1 DEF RunInv, RunRecord, Nodes
  <2>3. /\ n.node = "end" /\ n.closed = "failed" /\ n.straggler = r.straggler /\ Same(r, n)
    BY <2>1 DEF RunInv, RunRecord, Same
  <2>. HIDE DEF n
  <2>4. RunInv(n) /\ Final(r, n)
    BY <1>0, <2>2, <2>3 DEF RunInv, Final, Same, Reasoning
  <2>5. Closes(r, n)
    BY <1>0, <2>3 DEF Closes, Shown, Acted, IsOpen, Same
  <2>6. QED BY <2>4, <2>5 DEF Step, Moves
<1>3. QED BY <1>1, <1>2

LEMMA ReflectedStep ==
  ASSUME NEW r, RunInv(r), r.node = "reflect", NEW passed \in BOOLEAN
  PROVE  Step(r, after_reflection([r EXCEPT !.loops = @ + 1], passed))
<1>. DEFINE q == [r EXCEPT !.loops = r.loops + 1]
<1>1. r.loops + 1 \in 0 .. MaxReflectionLoops + 1
  BY WorkflowAssumption DEF RunInv, RunRecord, Reasoning
<1>2. q \in RunRecord
  BY <1>1 DEF RunInv, RunRecord
<1>3. /\ q.node = "reflect" /\ q.closed = r.closed /\ q.straggler = r.straggler
      /\ q.plan = r.plan /\ q.status = r.status /\ q.decision = r.decision
      /\ q.effects = r.effects /\ q.act = r.act
  BY DEF RunInv, RunRecord
<1>4. Alike(r, q)
  BY <1>3 DEF Alike
<1>. HIDE DEF q
<1>5. CASE ~passed /\ q.loops <= MaxReflectionLoops
  <2>1. RunInv(q)
    BY <1>2, <1>3, <1>5 DEF RunInv, Reasoning
  <2>2. Step(r, Schedule(q, "draft"))
    BY <2>1, <1>3, <1>4, ReasoningStep, StepFromAlike DEF Reasoning
  <2>3. QED BY <2>2, <1>5 DEF after_reflection, q
<1>6. CASE ~(~passed /\ q.loops <= MaxReflectionLoops)
  <2>1. Step(r, approval(q))
    BY <1>2, <1>3, ApprovalStep
  <2>2. QED BY <2>1, <1>6 DEF after_reflection, q
<1>7. QED BY <1>5, <1>6

(* The approval is decided.                                                *)
LEMMA RejectStep ==
  ASSUME NEW r, RunInv(r), r.node = "approval", NEW q \in RunRecord,
         q.closed = r.closed, q.straggler = r.straggler, q.plan = r.plan,
         q.effects = r.effects, q.decision \in {None, "reject"}
  PROVE  Step(r, resume(q, "reject"))
<1>. DEFINE n == Finish(q, "rejected")
<1>. SUFFICES Step(r, n)
  BY DEF resume
<1>0. /\ r.status = "waiting_approval" /\ r.decision = None /\ r.closed = "open"
      /\ r.straggler = {} /\ ~(r.effects > 0)
  BY WorkflowAssumption DEF RunInv, Reasoning
<1>1. /\ n \in RunRecord
      /\ n.node = "end" /\ n.status = "rejected" /\ n.closed = "completed"
      /\ n.plan = q.plan /\ n.decision = q.decision /\ n.effects = q.effects
      /\ n.straggler = q.straggler
  BY FinishFields
<1>. HIDE DEF n
<1>2. RunInv(n) /\ Final(r, n)
  BY <1>0, <1>1 DEF RunInv, Final, Reasoning
<1>3. Waits(r) /\ Shown(n) = "rejected" /\ (Acted(n) <=> Acted(r)) /\ IsOpen(r) /\ ~IsOpen(n)
  BY <1>0, <1>1 DEF Waits, Shown, Acted, IsOpen
<1>4. Rejects(r, n) \/ Closes(r, n)
  BY <1>0, <1>1, <1>3 DEF Rejects, Closes
<1>5. QED BY <1>2, <1>4 DEF Step, Moves

LEMMA ApproveStep ==
  ASSUME NEW r, RunInv(r), r.node = "approval"
  PROVE  Step(r, resume([r EXCEPT !.decision = "approve"], "approve"))
<1>. DEFINE q == [r EXCEPT !.decision = "approve"]
            n == Schedule(q, "apply_action")
<1>. SUFFICES Step(r, n)
  BY DEF resume
<1>0. /\ r.status = "waiting_approval" /\ r.decision = None /\ r.closed = "open"
      /\ r.straggler = {} /\ ~(r.effects > 0) /\ r.plan \in RequireApproval
  BY WorkflowAssumption DEF RunInv, Reasoning
<1>1. q \in RunRecord
  BY DEF RunInv, RunRecord, Decisions
<1>2. /\ q.closed = r.closed /\ q.straggler = r.straggler /\ q.plan = r.plan
      /\ q.status = r.status /\ q.decision = "approve" /\ q.effects = r.effects
  BY DEF RunInv, RunRecord
<1>. HIDE DEF q
<1>3. /\ n \in RunRecord
      /\ n.node = "apply_action" /\ n.act = "scheduled"
      /\ n.straggler = q.straggler /\ n.closed = q.closed /\ Same(q, n)
  BY <1>1, ScheduleFields DEF Nodes
<1>. HIDE DEF n
<1>4. RunInv(n) /\ Final(r, n)
  BY <1>0, <1>2, <1>3 DEF RunInv, Final, Reasoning, Same
<1>5. Approves(r, n)
  BY <1>0, <1>2, <1>3 DEF Approves, Waits, Shown, Acted, IsOpen, Same
<1>6. QED BY <1>4, <1>5 DEF Step, Moves

LEMMA SubmitStep ==
  ASSUME NEW r, RunInv(r), r.node \notin {"none", "end"}, NEW decision \in Decisions
  PROVE  Step(r, submit_decision(r, decision))
<1>1. CASE r.status # "waiting_approval" \/ r.decision # None
  <2>1. submit_decision(r, decision) = r
    BY <1>1 DEF submit_decision
  <2>2. QED BY <2>1, StepToAlike DEF Alike
<1>2. CASE r.status = "waiting_approval" /\ r.decision = None
  <2>. DEFINE q == [r EXCEPT !.decision = decision]
  <2>1. submit_decision(r, decision) = resume(q, decision)
    BY <1>2 DEF submit_decision
  <2>2. r.node = "approval"
    BY <1>2, WorkflowAssumption DEF RunInv, RunRecord, Nodes
  <2>3. CASE decision = "approve"
    BY <2>1, <2>2, <2>3, ApproveStep
  <2>4. CASE decision = "reject"
    <3>1. q \in RunRecord
      BY DEF RunInv, RunRecord
    <3>2. /\ q.closed = r.closed /\ q.straggler = r.straggler /\ q.plan = r.plan
          /\ q.effects = r.effects /\ q.decision = "reject"
      BY <2>4 DEF RunInv, RunRecord
    <3>3. QED BY <2>1, <2>2, <2>4, <3>1, <3>2, RejectStep
  <2>5. QED BY <2>3, <2>4 DEF Decisions
<1>3. QED BY <1>1, <1>2

-----------------------------------------------------------------------------
(* Steps of the system.                                                    *)

\* Nothing is taken back, and the lifecycle makes a move or none.
FinalStep == \A t \in Tickets : Final(run[t], run'[t])
LifeStep  == UNCHANGED Lives \/ Lifecycle!Next

LEMMA Lift ==
  ASSUME WorkflowInv, NEW t \in Tickets, NEW n, Step(run[t], n), Update(t, n),
         UNCHANGED <<up, boots>>, Counted(t)',
         \/ registry' = registry
         \/ \E w \in Workers : registry' = [registry EXCEPT ![w] = @ \cup {t}]
  PROVE  WorkflowInv' /\ FinalStep /\ LifeStep
<1>. DEFINE r == run[t]
<1>1. /\ run \in [Tickets -> RunRecord] /\ run' = [run EXCEPT ![t] = n]
      /\ RunInv(r) /\ RunInv(n) /\ r \in RunRecord /\ n \in RunRecord
  BY DEF WorkflowInv, TypeOK, Update, Step, RunInv
<1>2. run'[t] = n /\ \A u \in Tickets \ {t} : run'[u] = run[u]
  BY <1>1
<1>3. TypeOK'
  <2>1. registry' \in [Workers -> SUBSET Tickets]
    BY DEF WorkflowInv, TypeOK
  <2>2. QED BY <1>1, <2>1 DEF WorkflowInv, TypeOK
<1>4. ASSUME NEW u \in Tickets PROVE RunInv(run'[u]) /\ Counted(u)' /\ Final(run[u], run'[u])
  <2>1. CASE u = t
    BY <1>1, <1>2, <2>1 DEF Step
  <2>2. CASE u # t
    <3>1. run'[u] = run[u]
      BY <1>2, <2>2
    <3>2. Counted(u) /\ RunInv(run[u])
      BY DEF WorkflowInv
    <3>3. \A w \in Workers : u \in registry'[w] <=> u \in registry[w]
      BY <2>2 DEF WorkflowInv, TypeOK
    <3>4. Fresh(u)' = Fresh(u)
      BY <3>3 DEF Fresh, WorkflowInv, TypeOK
    <3>5. Counted(u)'
      BY <3>1, <3>2, <3>3, <3>4 DEF Counted
    <3>6. QED BY <3>1, <3>2, <3>5 DEF Final
  <2>3. QED BY <2>1, <2>2
<1>5. Lives' = [Lives EXCEPT ![t] = View(n)]
  <2>1. Lives = [x \in Tickets |-> View(run[x])]
    BY LivesAreViews
  <2>2. Lives' = [x \in Tickets |-> View(run'[x])]
    BY DEF Lives, View, Shown, Acted, IsOpen, Started, Open
  <2>3. QED BY <1>2, <2>1, <2>2
<1>6. Keeps(r, n) => UNCHANGED Lives
  <2>1. SUFFICES ASSUME Keeps(r, n) PROVE View(n) = View(r)
    BY <1>5, LivesAreViews
  <2>. DEFINE v == View(r)  w == View(n)
  <2>2. /\ v \in Lifecycle!Ticket /\ w \in Lifecycle!Ticket
        /\ v.status = w.status /\ v.decision = w.decision
        /\ (v.acted <=> w.acted) /\ (v.open <=> w.open)
    BY <1>1, <2>1, ViewType DEF Keeps
  <2>. HIDE DEF v, w
  <2>3. v = w
    BY <2>2 DEF Lifecycle!Ticket
  <2>4. QED BY <2>3 DEF v, w
<1>7. Moves(r, n) => Lifecycle!Next
  BY <1>1, <1>5, MovesRefine
<1>8. LifeStep
  BY <1>6, <1>7 DEF Step, LifeStep
<1>9. QED
  BY <1>3, <1>4, <1>8 DEF WorkflowInv, FinalStep

\* The usual case: the side effect is not performed.
LEMMA LiftQuiet ==
  ASSUME WorkflowInv, NEW t \in Tickets, NEW n, Step(run[t], n), Update(t, n),
         UNCHANGED <<up, registry, boots>>, n.effects = run[t].effects
  PROVE  WorkflowInv' /\ FinalStep /\ LifeStep
<1>1. run'[t].effects = run[t].effects
  BY DEF WorkflowInv, TypeOK, Update
<1>2. Counted(t)'
  <2>1. Fresh(t)' = Fresh(t)
    BY DEF Fresh
  <2>2. QED BY <1>1, <2>1 DEF WorkflowInv, Counted
<1>3. QED BY <1>2, Lift

LEMMA StartAdvances ==
  ASSUME WorkflowInv, NEW t \in Tickets, Start(t)
  PROVE  WorkflowInv' /\ FinalStep /\ LifeStep
<1>0. PICK hours \in Windows :
        Update(t, [run[t] EXCEPT !.node = "sanitize", !.hours = hours])
  BY DEF Start
<1>. DEFINE r == run[t]
            n == [r EXCEPT !.node = "sanitize", !.hours = hours]
<1>1. RunInv(r) /\ r.node = "none" /\ Update(t, n) /\ UNCHANGED <<up, registry, boots>>
  BY <1>0 DEF Start, Started, WorkflowInv
<1>2. n \in RunRecord
  BY <1>1, WorkflowAssumption DEF RunInv, RunRecord, Nodes
<1>3. n.node = "sanitize" /\ n.straggler = r.straggler /\ n.closed = r.closed /\ Same(r, n)
  BY <1>1 DEF RunInv, RunRecord, Same
<1>. HIDE DEF n
<1>4. r.status = "running" /\ r.closed = "open"
  BY <1>1 DEF RunInv
<1>5. RunInv(n) /\ Final(r, n)
  BY <1>1, <1>2, <1>3, <1>4 DEF RunInv, Final, Same
<1>6. Begins(r, n)
  BY <1>1, <1>3, <1>4 DEF Begins, Shown, Acted, IsOpen, Same
<1>7. Step(r, n) /\ n.effects = r.effects
  BY <1>3, <1>5, <1>6 DEF Step, Moves, Same
<1>8. QED BY <1>1, <1>7, LiftQuiet

LEMMA ReasoningAdvances ==
  ASSUME WorkflowInv, NEW t \in Tickets,
         Sanitize(t) \/ NodeCompletes(t) \/ Planned(t) \/ Reflected(t) \/ NodeFails(t)
  PROVE  WorkflowInv' /\ FinalStep /\ LifeStep
<1>. DEFINE r == run[t]
<1>1. RunInv(r) /\ r \in RunRecord
  BY DEF WorkflowInv, RunInv
<1>2. CASE Sanitize(t)
  <2>1. Step(r, Schedule(r, "classify"))
    BY <1>1, <1>2, ReasoningStep DEF Sanitize, Reasoning
  <2>2. Schedule(r, "classify").effects = r.effects
    BY <1>1, ScheduleFields DEF Same, Nodes, Reasoning
  <2>3. QED BY <1>2, <2>1, <2>2, LiftQuiet DEF Sanitize
<1>3. CASE NodeCompletes(t)
  <2>. DEFINE next == After[r.node]
  <2>1. r.node \in Reasoning /\ next \in Reasoning
    BY <1>3 DEF NodeCompletes, Reasoning, After
  <2>. HIDE DEF next
  <2>2. Step(r, Schedule(r, next))
    BY <1>1, <2>1, ReasoningStep
  <2>3. Schedule(r, next).effects = r.effects
    BY <1>1, <2>1, ScheduleFields DEF Same, Nodes
  <2>4. Update(t, Schedule(r, next)) /\ UNCHANGED <<up, registry, boots>>
    BY <1>3 DEF NodeCompletes, next
  <2>5. QED BY <2>2, <2>3, <2>4, LiftQuiet
<1>4. CASE Planned(t)
  <2>1. PICK a \in Actions : Update(t, Schedule([r EXCEPT !.plan = a], After.plan))
    BY <1>4 DEF Planned
  <2>. DEFINE q == [r EXCEPT !.plan = a]
  <2>2. After.plan = "execute_read_tools" /\ r.node = "plan"
    BY <1>4 DEF After, Planned
  <2>3. q \in RunRecord
    BY <1>1 DEF RunRecord
  <2>4. /\ Alike(r, q) /\ q.loops = r.loops /\ q.straggler = r.straggler /\ q.act = r.act
        /\ q.node = "plan" /\ q.effects = r.effects
    BY <1>1, <2>2 DEF Alike, RunRecord
  <2>. HIDE DEF q
  <2>5. RunInv(q)
    BY <1>1, <2>3, <2>4, WorkflowAssumption DEF RunInv, Alike, Reasoning
  <2>6. Step(r, Schedule(q, "execute_read_tools"))
    BY <2>4, <2>5, ReasoningStep, StepFromAlike DEF Reasoning
  <2>7. Schedule(q, "execute_read_tools").effects = r.effects
    BY <2>3, <2>4, ScheduleFields DEF Same, Nodes, Reasoning
  <2>8. Update(t, Schedule(q, "execute_read_tools")) /\ UNCHANGED <<up, registry, boots>>
    BY <1>4, <2>1, <2>2 DEF Planned, q
  <2>9. QED BY <2>6, <2>7, <2>8, LiftQuiet
<1>5. CASE Reflected(t)
  <2>1. PICK passed \in BOOLEAN :
          Update(t, after_reflection([r EXCEPT !.loops = @ + 1], passed))
    BY <1>5 DEF Reflected
  <2>. DEFINE q == [r EXCEPT !.loops = r.loops + 1]
              n == after_reflection(q, passed)
  <2>2. Step(r, n)
    BY <1>1, <1>5, ReflectedStep DEF Reflected
  <2>3. n.effects = r.effects
    <3>1. q.effects = r.effects /\ Schedule(q, "draft").effects = q.effects
      BY <1>1 DEF RunRecord, Schedule
    <3>2. approval(q).effects = q.effects
      BY <1>1 DEF RunRecord, approval, Finish
    <3>3. QED BY <3>1, <3>2 DEF after_reflection
  <2>4. Update(t, n) /\ UNCHANGED <<up, registry, boots>>
    BY <1>5, <2>1 DEF Reflected
  <2>. HIDE DEF n
  <2>5. QED BY <2>2, <2>3, <2>4, LiftQuiet
<1>6. CASE NodeFails(t)
  <2>1. Step(r, Retry(r))
    BY <1>1, <1>6, RetryStep DEF NodeFails
  <2>2. Retry(r).effects = r.effects
    BY <1>1 DEF Retry, RunRecord
  <2>3. QED BY <1>6, <2>1, <2>2, LiftQuiet DEF NodeFails
<1>7. QED BY <1>2, <1>3, <1>4, <1>5, <1>6

(* The action.  execute_action counts an execution and remembers it.       *)
LEMMA ExecuteAdvances ==
  ASSUME WorkflowInv, NEW t \in Tickets, NEW w \in up, NEW q, q \in RunRecord,
         Alike(run[t], q), q.plan = run[t].plan, q.loops = run[t].loops,
         run[t].decision = "approve", run[t].plan \in RequireApproval,
         run[t].status # "rejected", execute_action(t, w, q)
  PROVE  WorkflowInv' /\ FinalStep /\ LifeStep
<1>. DEFINE r == run[t]
            n == IF t \in registry[w] THEN q ELSE [q EXCEPT !.effects = q.effects + 1]
<1>1. /\ Update(t, n) /\ registry' = [registry EXCEPT ![w] = @ \cup {t}]
      /\ UNCHANGED <<up, boots>>
  BY DEF execute_action
<1>2. /\ RunInv(r) /\ Counted(t) /\ r.effects \in Nat /\ boots \in Nat /\ w \in Workers
      /\ up \subseteq Workers /\ registry \in [Workers -> SUBSET Tickets]
  BY WorkflowAssumption DEF WorkflowInv, RunInv, RunRecord, TypeOK
<1>3. q.effects = r.effects /\ q.effects + 1 \in Nat
  BY <1>2 DEF Alike
<1>4. n \in RunRecord
  BY <1>3 DEF RunRecord
<1>5. /\ n.node = r.node /\ n.status = r.status /\ n.decision = r.decision
      /\ n.closed = r.closed /\ n.plan = r.plan /\ n.loops = r.loops
  BY DEF RunRecord, Alike
<1>6. n.effects = IF t \in registry[w] THEN r.effects ELSE r.effects + 1
  BY <1>3 DEF RunRecord
<1>7. n.effects > 0
  BY <1>2, <1>6 DEF Counted
<1>8. run'[t] = n
  BY <1>1 DEF WorkflowInv, TypeOK, Update
<1>. HIDE DEF n
<1>9. Counted(t)'
  <2>1. IsFiniteSet(Fresh(t)) /\ Cardinality(Fresh(t)) \in Nat
    BY <1>2, WorkflowAssumption, FS_Subset, FS_CardinalityType DEF Fresh
  <2>2. Fresh(t)' = Fresh(t) \ {w}
    BY <1>1, <1>2 DEF Fresh
  <2>3. Cardinality(Fresh(t)') =
          IF w \in Fresh(t) THEN Cardinality(Fresh(t)) - 1 ELSE Cardinality(Fresh(t))
    BY <2>1, <2>2, FS_RemoveElement
  <2>4. w \in Fresh(t) <=> t \notin registry[w]
    BY DEF Fresh
  <2>5. n.effects + Cardinality(Fresh(t)') <= boots
    BY <1>2, <1>6, <2>1, <2>3, <2>4 DEF Counted
  <2>6. QED BY <1>1, <1>7, <1>8, <2>5 DEF Counted
<1>10. RunInv(n) /\ Final(r, n)
  BY <1>2, <1>4, <1>5, <1>7 DEF RunInv, Final
<1>11. Shown(n) = Shown(r) /\ (IsOpen(n) <=> IsOpen(r)) /\ Acted(n)
  BY <1>5, <1>7 DEF Shown, IsOpen, Acted
<1>12. Step(r, n)
  BY <1>5, <1>10, <1>11 DEF Step, Moves, Keeps, Acts
<1>13. QED BY <1>1, <1>2, <1>9, <1>12, Lift

LEMMA ApplyAdvances ==
  ASSUME WorkflowInv, NEW t \in Tickets,
         ApplyStarts(t) \/ ApplyExecutes(t) \/ ApplyReports(t) \/ ApplyTimesOut(t)
           \/ StragglerExecutes(t)
  PROVE  WorkflowInv' /\ FinalStep /\ LifeStep
<1>. DEFINE r == run[t]
<1>1. RunInv(r) /\ r \in RunRecord
  BY DEF WorkflowInv, RunInv
<1>2. r.node = "apply_action" => /\ r.decision = "approve" /\ r.plan \in RequireApproval
                                 /\ r.status = "waiting_approval" /\ r.closed = "open"
  BY <1>1 DEF RunInv
<1>3. CASE ApplyStarts(t)
  <2>0. PICK w \in up : Update(t, [r EXCEPT !.act = "running", !.by = w])
    BY <1>3 DEF ApplyStarts
  <2>. DEFINE n == [r EXCEPT !.act = "running", !.by = w]
  <2>1. n \in RunRecord
    BY <1>1 DEF RunRecord, WorkflowInv, TypeOK
  <2>2. /\ Alike(r, n) /\ Same(r, n) /\ n.straggler = r.straggler /\ n.act = "running"
    BY <1>1 DEF RunRecord, Alike, Same
  <2>3. Update(t, n) /\ UNCHANGED <<up, registry, boots>>
    BY <1>3, <2>0 DEF ApplyStarts
  <2>. HIDE DEF n
  <2>4. RunInv(n)
    BY <1>1, <2>1, <2>2 DEF RunInv, Alike, Same
  <2>5. QED BY <2>2, <2>3, <2>4, StepToAlike, LiftQuiet DEF Same
<1>4. CASE ApplyExecutes(t)
  <2>. DEFINE q == [r EXCEPT !.act = "acted"]
  <2>1. q \in RunRecord
    BY <1>1 DEF RunRecord
  <2>2. Alike(r, q) /\ q.plan = r.plan /\ q.loops = r.loops
    BY <1>1 DEF RunRecord, Alike
  <2>3. execute_action(t, r.by, q) /\ r.by \in up /\ r.node = "apply_action"
    BY <1>4 DEF ApplyExecutes
  <2>. HIDE DEF q
  <2>4. QED BY <1>2, <2>1, <2>2, <2>3, ExecuteAdvances
<1>5. CASE ApplyReports(t)
  <2>. DEFINE n == Finish(r, "completed")
  <2>1. /\ n \in RunRecord
        /\ n.node = "end" /\ n.status = "completed" /\ n.closed = "completed"
        /\ n.plan = r.plan /\ n.decision = r.decision /\ n.effects = r.effects
        /\ n.straggler = r.straggler
    BY <1>1, FinishFields
  <2>2. Update(t, n) /\ UNCHANGED <<up, registry, boots>> /\ r.node = "apply_action"
    BY <1>5 DEF ApplyReports
  <2>3. r.effects > 0
    BY <1>1, <1>5 DEF ApplyReports, RunInv
  <2>. HIDE DEF n
  <2>4. RunInv(n) /\ Final(r, n)
    BY <1>1, <1>2, <2>1, <2>2, <2>3 DEF RunInv, Final, Reasoning
  <2>5. Closes(r, n)
    BY <1>2, <2>1, <2>2, <2>3 DEF Closes, Shown, Acted, IsOpen
  <2>6. QED BY <2>1, <2>2, <2>4, <2>5, LiftQuiet DEF Step, Moves
<1>6. CASE ApplyTimesOut(t)
  <2>. DEFINE runs == Abandoned(r)
              q    == [r EXCEPT !.straggler = runs]
  <2>1. Update(t, Retry(q)) /\ UNCHANGED <<up, registry, boots>> /\ r.node = "apply_action"
    BY <1>6 DEF ApplyTimesOut
  <2>2. runs \subseteq Workers
    BY <1>1 DEF Abandoned, RunRecord
  <2>. HIDE DEF runs
  <2>3. q \in RunRecord
    BY <1>1, <2>2 DEF RunRecord
  <2>4. /\ Alike(r, q) /\ Same(r, q) /\ q.act = r.act
    BY <1>1 DEF RunRecord, Alike, Same
  <2>. HIDE DEF q
  <2>5. RunInv(q) /\ q.node = "apply_action"
    BY <1>1, <1>2, <2>1, <2>3, <2>4 DEF RunInv, Alike, Same, Reasoning
  <2>6. Step(r, Retry(q))
    BY <2>4, <2>5, RetryStep, StepFromAlike
  <2>7. Retry(q).effects = r.effects
    BY <2>3, <2>4 DEF Retry, RunRecord, Alike
  <2>8. QED BY <2>1, <2>6, <2>7, LiftQuiet
<1>7. CASE StragglerExecutes(t)
  <2>0. PICK w \in up \cap r.straggler :
          execute_action(t, w, [r EXCEPT !.straggler = @ \ {w}])
    BY <1>7 DEF StragglerExecutes
  <2>. DEFINE q == [r EXCEPT !.straggler = r.straggler \ {w}]
  <2>1. q \in RunRecord
    BY <1>1 DEF RunRecord
  <2>2. Alike(r, q) /\ q.plan = r.plan /\ q.loops = r.loops
    BY <1>1 DEF RunRecord, Alike
  <2>3. execute_action(t, w, q) /\ w \in up /\ r.straggler # {}
    BY <2>0
  <2>4. r.decision = "approve" /\ r.plan \in RequireApproval /\ r.status # "rejected"
    BY <1>1, <2>3 DEF RunInv
  <2>. HIDE DEF q
  <2>5. QED BY <2>1, <2>2, <2>3, <2>4, ExecuteAdvances
<1>8. QED BY <1>3, <1>4, <1>5, <1>6, <1>7

(* A change that neither the verdict nor the lifecycle sees.               *)
LEMMA UnseenAdvances ==
  ASSUME WorkflowInv, NEW t \in Tickets, NEW n \in RunRecord, Alike(run[t], n), Same(run[t], n),
         n.straggler = run[t].straggler, n.act = run[t].act,
         Update(t, n), UNCHANGED <<up, registry, boots>>
  PROVE  WorkflowInv' /\ FinalStep /\ LifeStep
<1>1. RunInv(n)
  BY DEF WorkflowInv, RunInv, Alike, Same
<1>2. QED BY <1>1, StepToAlike, LiftQuiet DEF Same

LEMMA EventAdvances ==
  ASSUME WorkflowInv, NEW t \in Tickets,
         (\E decision \in Decisions : Signal(t, decision)) \/ HandleSignal(t)
           \/ ApprovalDeadline(t) \/ ServerStep(t)
  PROVE  WorkflowInv' /\ FinalStep /\ LifeStep
<1>. DEFINE r == run[t]
<1>1. RunInv(r) /\ r \in RunRecord
  BY DEF WorkflowInv, RunInv
<1>2. ASSUME NEW decision \in Decisions, Signal(t, decision)
      PROVE  WorkflowInv' /\ FinalStep /\ LifeStep
  <2>. DEFINE n == [r EXCEPT !.inbox = Append(r.inbox, decision)]
  <2>1. n \in RunRecord
    <3>1. Append(r.inbox, decision) \in Seq(Decisions)
      BY <1>1 DEF RunRecord
    <3>2. QED BY <1>1, <3>1 DEF RunRecord
  <2>2. /\ Alike(r, n) /\ Same(r, n) /\ n.straggler = r.straggler /\ n.act = r.act
    BY <1>1 DEF RunRecord, Alike, Same
  <2>3. Update(t, n) /\ UNCHANGED <<up, registry, boots>>
    BY <1>2 DEF Signal
  <2>. HIDE DEF n
  <2>4. QED BY <2>1, <2>2, <2>3, UnseenAdvances
<1>3. CASE HandleSignal(t)
  <2>. DEFINE q == [r EXCEPT !.inbox = Tail(r.inbox)]
              d == Head(r.inbox)
              n == submit_decision(q, d)
  <2>1. r.inbox # << >> /\ Update(t, n) /\ UNCHANGED <<up, registry, boots>>
    BY <1>3 DEF HandleSignal
  <2>2. Tail(r.inbox) \in Seq(Decisions) /\ d \in Decisions
    BY <1>1, <2>1 DEF RunRecord
  <2>3. q \in RunRecord
    BY <1>1, <2>2 DEF RunRecord
  <2>4. /\ Alike(r, q) /\ Same(r, q) /\ q.straggler = r.straggler /\ q.act = r.act
    BY <1>1 DEF RunRecord, Alike, Same
  <2>. HIDE DEF q, d
  <2>5. RunInv(q) /\ q.node \notin {"none", "end"}
    BY <1>1, <1>3, <2>3, <2>4 DEF RunInv, Alike, Same, HandleSignal, Open, Started
  <2>6. Step(r, n)
    BY <2>2, <2>4, <2>5, SubmitStep, StepFromAlike
  <2>7. n.effects = r.effects
    BY <2>3, <2>4
    DEF submit_decision, resume, Schedule, Finish, RunRecord, Same
  <2>. HIDE DEF n
  <2>8. QED BY <2>1, <2>6, <2>7, LiftQuiet
<1>4. CASE ApprovalDeadline(t)
  <2>. DEFINE n == resume(r, "reject")
  <2>1. r.node = "approval" /\ Update(t, n) /\ UNCHANGED <<up, registry, boots>>
    BY <1>4 DEF ApprovalDeadline, Paused
  <2>2. Step(r, n)
    <3>1. r.decision \in {None, "reject"}
      BY <1>1, <2>1 DEF RunInv
    <3>2. QED BY <1>1, <2>1, <3>1, RejectStep
  <2>3. n.effects = r.effects
    BY <1>1, FinishFields DEF resume
  <2>. HIDE DEF n
  <2>4. QED BY <2>1, <2>2, <2>3, LiftQuiet
<1>5. CASE ExecutionTimeout(t)
  <2>. DEFINE late == Abandoned(r)
              n    == [r EXCEPT !.closed = "timed_out", !.node = "end", !.by = None,
                                !.straggler = late]
  <2>1. Update(t, n) /\ UNCHANGED <<up, registry, boots>>
    BY <1>5 DEF ExecutionTimeout
  <2>2. r.closed = "open" /\ r.node # "none"
    BY <1>5 DEF ExecutionTimeout, Open, Started
  <2>3. late \subseteq Workers
    BY <1>1 DEF Abandoned, RunRecord
  <2>4. late # {} => r.straggler # {} \/ r.node = "apply_action"
    BY DEF Abandoned
  <2>. HIDE DEF late
  <2>5. n \in RunRecord
    BY <1>1, <2>3 DEF RunRecord, Nodes
  <2>6. /\ n.node = "end" /\ n.closed = "timed_out" /\ n.straggler = late /\ Same(r, n)
    BY <1>1 DEF RunRecord, Same
  <2>. HIDE DEF n
  <2>7. RunInv(n) /\ Final(r, n)
    BY <1>1, <2>2, <2>4, <2>5, <2>6 DEF RunInv, Final, Same, Reasoning
  <2>8. Closes(r, n)
    BY <2>2, <2>6 DEF Closes, Shown, Acted, IsOpen, Same
  <2>9. QED BY <2>1, <2>6, <2>7, <2>8, LiftQuiet DEF Step, Moves, Same
<1>6. CASE HourPasses(t)
  <2>. DEFINE n == [r EXCEPT !.age = r.age + 1]
  <2>1. r.age + 1 \in Nat
    BY <1>1 DEF RunRecord
  <2>2. n \in RunRecord
    BY <1>1, <2>1 DEF RunRecord
  <2>3. /\ Alike(r, n) /\ Same(r, n) /\ n.straggler = r.straggler /\ n.act = r.act
    BY <1>1 DEF RunRecord, Alike, Same
  <2>4. Update(t, n) /\ UNCHANGED <<up, registry, boots>>
    BY <1>6 DEF HourPasses
  <2>. HIDE DEF n
  <2>5. QED BY <2>2, <2>3, <2>4, UnseenAdvances
<1>7. QED BY <1>2, <1>3, <1>4, <1>5, <1>6 DEF ServerStep

(* Processes come and go: no run moves, and an execution stays possible    *)
(* for each that was started and has not remembered one.                   *)
LEMMA BootsAdvances ==
  ASSUME WorkflowInv, NEW w \in Workers, Boots(w)
  PROVE  WorkflowInv' /\ FinalStep /\ LifeStep
<1>1. /\ up \subseteq Workers /\ registry \in [Workers -> SUBSET Tickets]
      /\ boots \in 0 .. MaxBoots /\ run \in [Tickets -> RunRecord]
  BY DEF WorkflowInv, TypeOK
<1>2. /\ w \notin up /\ boots < MaxBoots /\ up' = up \cup {w} /\ boots' = boots + 1
      /\ registry' = [registry EXCEPT ![w] = {}] /\ run' = run
  BY DEF Boots
<1>3. TypeOK'
  BY <1>1, <1>2, WorkflowAssumption DEF TypeOK
<1>4. ASSUME NEW t \in Tickets PROVE Counted(t)'
  <2>1. Counted(t) /\ run[t].effects \in Nat
    BY <1>1 DEF WorkflowInv, RunRecord
  <2>2. IsFiniteSet(Fresh(t)) /\ Cardinality(Fresh(t)) \in Nat
    BY <1>1, WorkflowAssumption, FS_Subset, FS_CardinalityType DEF Fresh
  <2>3. Fresh(t)' = Fresh(t) \cup {w} /\ w \notin Fresh(t)
    BY <1>1, <1>2 DEF Fresh
  <2>4. Cardinality(Fresh(t)') = Cardinality(Fresh(t)) + 1
    BY <2>2, <2>3, FS_AddElement
  <2>5. run'[t].effects + Cardinality(Fresh(t)') <= boots'
    BY <1>1, <1>2, <2>1, <2>2, <2>4 DEF Counted
  <2>6. QED BY <1>1, <1>2, <2>1, <2>5 DEF Counted
<1>5. FinalStep /\ LifeStep
  BY <1>2 DEF FinalStep, Final, LifeStep, Lives, Started, Open
<1>6. QED BY <1>2, <1>3, <1>4, <1>5 DEF WorkflowInv

LEMMA ExitsAdvances ==
  ASSUME WorkflowInv, NEW w \in Workers, Exits(w)
  PROVE  WorkflowInv' /\ FinalStep /\ LifeStep
<1>. DEFINE Left(t) == [run[t] EXCEPT !.straggler = @ \ {w},
                                      !.act = IF run[t].by = w THEN "lost" ELSE @,
                                      !.by = IF @ = w THEN None ELSE @]
<1>0. /\ w \in up /\ up' = up \ {w} /\ registry' = [registry EXCEPT ![w] = {}]
      /\ boots' = boots
  BY DEF Exits
<1>1. run' = [t \in Tickets |-> Left(t)]
  BY DEF Exits
<1>2. ASSUME NEW t \in Tickets
      PROVE  RunInv(Left(t)) /\ Alike(run[t], Left(t)) /\ Left(t) \in RunRecord
  <2>. DEFINE r == run[t]  n == Left(t)
  <2>1. RunInv(r) /\ r \in RunRecord
    BY DEF WorkflowInv, RunInv
  <2>2. n \in RunRecord
    BY <2>1 DEF RunRecord
  <2>3. /\ Alike(r, n) /\ Same(r, n) /\ n.straggler \subseteq r.straggler
        /\ n.act \in {r.act, "lost"}
    BY <2>1 DEF RunRecord, Alike, Same
  <2>. HIDE DEF n
  <2>4. RunInv(n)
    BY <2>1, <2>2, <2>3 DEF RunInv, Alike, Same
  <2>5. QED BY <2>2, <2>3, <2>4 DEF n
<1>. HIDE DEF Left
<1>3. TypeOK'
  <2>1. run' \in [Tickets -> RunRecord]
    BY <1>1, <1>2
  <2>2. QED BY <1>0, <2>1 DEF WorkflowInv, TypeOK
<1>4. ASSUME NEW t \in Tickets PROVE RunInv(run'[t]) /\ Counted(t)' /\ Final(run[t], run'[t])
  <2>1. run'[t] = Left(t)
    BY <1>1
  <2>2. run[t].effects \in Nat /\ run'[t].effects = run[t].effects
    BY <1>2, <2>1 DEF RunInv, RunRecord, WorkflowInv, Alike
  <2>3. /\ Counted(t) /\ up \subseteq Workers /\ registry \in [Workers -> SUBSET Tickets]
        /\ boots \in Nat
    BY WorkflowAssumption DEF WorkflowInv, TypeOK
  <2>4. IsFiniteSet(Fresh(t)) /\ Cardinality(Fresh(t)) \in Nat
    BY <2>3, WorkflowAssumption, FS_Subset, FS_CardinalityType DEF Fresh
  <2>5. Fresh(t)' \subseteq Fresh(t)
    BY <1>0, <2>3 DEF Fresh
  <2>6. Cardinality(Fresh(t)') \in Nat /\ Cardinality(Fresh(t)') <= Cardinality(Fresh(t))
    BY <2>4, <2>5, FS_Subset, FS_CardinalityType
  <2>7. run'[t].effects + Cardinality(Fresh(t)') <= boots'
    BY <1>0, <2>2, <2>3, <2>4, <2>6 DEF Counted
  <2>8. Counted(t)'
    BY <1>0, <2>2, <2>3, <2>7 DEF Counted
  <2>9. QED BY <1>2, <2>1, <2>8 DEF Final, Alike
<1>5. UNCHANGED Lives
  <2>1. \A t \in Tickets : /\ Left(t).node = run[t].node /\ Left(t).status = run[t].status
                           /\ Left(t).decision = run[t].decision
                           /\ Left(t).closed = run[t].closed /\ Left(t).effects = run[t].effects
    BY <1>2 DEF Alike
  <2>2. QED BY <1>1, <2>1 DEF Lives, Started, Open
<1>6. QED BY <1>3, <1>4, <1>5 DEF WorkflowInv, FinalStep, LifeStep

-----------------------------------------------------------------------------
(* The specification.                                                      *)

LEMMA InitInv == Init => WorkflowInv /\ Lifecycle!Init
<1>. SUFFICES ASSUME Init PROVE WorkflowInv /\ Lifecycle!Init
  OBVIOUS
<1>1. NotStarted \in RunRecord
  <2>1. 1 \in 1 .. MaxAttempts /\ 0 \in 0 .. MaxReflectionLoops + 1
    BY WorkflowAssumption DEF MaxAttempts
  <2>2. << >> \in Seq(Decisions)
    OBVIOUS
  <2>3. QED BY <2>1, <2>2 DEF NotStarted, RunRecord, Nodes
<1>2. RunInv(NotStarted)
  BY <1>1, WorkflowAssumption DEF RunInv, NotStarted, Reasoning
<1>3. NotStarted.effects = 0 /\ NotStarted.node = "none" /\ NotStarted.decision = None
  BY DEF NotStarted
<1>4. \A t \in Tickets : run[t] = NotStarted
  BY DEF Init
<1>5. WorkflowInv
  <2>1. TypeOK
    BY <1>1, WorkflowAssumption DEF Init, TypeOK
  <2>2. up = {} /\ registry = [w \in Workers |-> {}] /\ boots = 0
    BY DEF Init
  <2>3. \A t \in Tickets : Counted(t)
    <3>1. ASSUME NEW t \in Tickets PROVE Counted(t)
      <4>1. run[t].effects = 0 /\ \A w \in Workers : t \notin registry[w]
        BY <1>3, <1>4, <2>2
      <4>2. Cardinality(Fresh(t)) = 0
        BY <2>2, FS_EmptySet DEF Fresh
      <4>3. QED BY <2>2, <4>1, <4>2 DEF Counted
    <3>2. QED BY <3>1
  <2>4. QED BY <1>2, <1>4, <2>1, <2>3 DEF WorkflowInv
<1>6. Lives = [t \in Tickets |-> Lifecycle!Unborn]
  <2>. DEFINE v == View(NotStarted)  w == Lifecycle!Unborn
  <2>1. /\ v \in Lifecycle!Ticket /\ v.status = "none" /\ v.decision = None
        /\ ~v.acted /\ ~v.open
    BY <1>1, <1>3, ViewType DEF Shown, Acted, IsOpen
  <2>2. /\ w \in Lifecycle!Ticket /\ w.status = "none" /\ w.decision = None
        /\ ~w.acted /\ ~w.open
    BY DEF Lifecycle!Unborn, Lifecycle!Ticket
  <2>. HIDE DEF v, w
  <2>3. v = w
    BY <2>1, <2>2 DEF Lifecycle!Ticket
  <2>4. QED BY <1>4, <2>3, LivesAreViews DEF v, w
<1>7. QED BY <1>5, <1>6 DEF Lifecycle!Init

LEMMA NextAdvances == WorkflowInv /\ [Next]_vars => WorkflowInv' /\ FinalStep /\ LifeStep
<1>. SUFFICES ASSUME WorkflowInv, [Next]_vars PROVE WorkflowInv' /\ FinalStep /\ LifeStep
  OBVIOUS
<1>1. ASSUME NEW t \in Tickets,
             Start(t) \/ WorkerStep(t) \/ ServerStep(t) \/ Mishap(t)
               \/ \E decision \in Decisions : Signal(t, decision)
      PROVE  WorkflowInv' /\ FinalStep /\ LifeStep
  BY <1>1, StartAdvances, ReasoningAdvances, ApplyAdvances, EventAdvances
  DEF WorkerStep, GraphStep, Mishap
<1>2. ASSUME NEW w \in Workers, Boots(w) \/ Exits(w)
      PROVE  WorkflowInv' /\ FinalStep /\ LifeStep
  BY <1>2, BootsAdvances, ExitsAdvances
<1>3. CASE UNCHANGED vars
  <2>1. WorkflowInv'
    BY <1>3 DEF vars, WorkflowInv, TypeOK, Counted, Fresh
  <2>2. FinalStep /\ LifeStep
    BY <1>3 DEF vars, FinalStep, Final, LifeStep, Lives, Started, Open
  <2>3. QED BY <2>1, <2>2
<1>4. QED BY <1>1, <1>2, <1>3 DEF Next

LEMMA Invariance == Spec => []WorkflowInv
<1>1. QED
  BY InitInv, NextAdvances, PTL DEF Spec

(* Every run of every ticket keeps its type: attempts and redrafts stay    *)
(* within what the retry policies and the settings say.                    *)
THEOREM Typing == Spec => []TypeOK
<1>1. WorkflowInv => TypeOK
  BY DEF WorkflowInv
<1>2. QED
  BY <1>1, Invariance, PTL

(* The side effect of a ticket follows a reviewer's approve and nothing    *)
(* else: apply_action, its retries and attempts that outlive their run.    *)
THEOREM EffectsAreApproved == Spec => []EffectOnlyIfApproved
<1>1. WorkflowInv => EffectOnlyIfApproved
  BY DEF WorkflowInv, RunInv, EffectOnlyIfApproved
<1>2. QED
  BY <1>1, Invariance, PTL

(* A ticket that says its approved action was submitted did execute it.    *)
THEOREM CompletedIsTrue == Spec => []CompletedMeansExecuted
<1>1. WorkflowInv => CompletedMeansExecuted
  BY DEF WorkflowInv, RunInv, CompletedMeansExecuted
<1>2. QED
  BY <1>1, Invariance, PTL

(* However attempts are retried, time out and are spread over processes,   *)
(* one worker process performs the action of a ticket at most once         *)
(* (execute_action and its keys).                                          *)
THEOREM OneExecutionPerProcess == Spec => []OncePerProcess
<1>1. WorkflowInv => OncePerProcess
  <2>1. SUFFICES ASSUME WorkflowInv, NEW t \in Tickets PROVE run[t].effects <= boots
    BY DEF OncePerProcess
  <2>2. /\ Counted(t) /\ run[t].effects \in Nat /\ boots \in Nat
        /\ up \subseteq Workers
    BY <2>1, WorkflowAssumption DEF WorkflowInv, RunInv, RunRecord, TypeOK
  <2>3. Cardinality(Fresh(t)) \in Nat
    BY <2>2, WorkflowAssumption, FS_Subset, FS_CardinalityType DEF Fresh
  <2>4. QED BY <2>2, <2>3 DEF Counted
<1>2. QED
  BY <1>1, Invariance, PTL

(* submit_decision()'s test takes a decision exactly while run() is        *)
(* blocked on one.                                                         *)
THEOREM HandlerMatchesPause == Spec => []AcceptsExactlyInPause
<1>1. WorkflowInv => AcceptsExactlyInPause
  <2>1. SUFFICES ASSUME WorkflowInv, NEW t \in Tickets, Open(t)
                 PROVE  run[t].node = "approval" <=>
                          run[t].status = "waiting_approval" /\ run[t].decision = None
    BY DEF AcceptsExactlyInPause, Paused
  <2>2. RunInv(run[t]) /\ run[t].closed = "open"
    BY <2>1 DEF WorkflowInv, Open
  <2>3. QED
    BY <2>2, WorkflowAssumption DEF RunInv, RunRecord, Nodes
<1>2. QED
  BY <1>1, Invariance, PTL

(* Drafting is bounded by max_reflection_loops, whatever the critiques.    *)
THEOREM DraftingIsBounded == Spec => []RedraftsBounded
<1>1. WorkflowInv => RedraftsBounded
  <2>1. SUFFICES ASSUME WorkflowInv, NEW t \in Tickets
                 PROVE  /\ run[t].loops <= MaxReflectionLoops + 1
                        /\ run[t].node = "draft" => run[t].loops <= MaxReflectionLoops
    BY DEF RedraftsBounded
  <2>2. QED
    BY <2>1, WorkflowAssumption DEF WorkflowInv, RunInv, RunRecord, Reasoning
<1>2. QED
  BY <1>1, Invariance, PTL

(* The first decision taken, and a terminal status once reported, are      *)
(* final, through crashes, late signals and deadlines.                     *)
THEOREM VerdictsAreFinal == Spec => VerdictIsFinal
<1>1. WorkflowInv /\ [Next]_vars =>
        [\A t \in Tickets :
           /\ run[t].decision # None => run'[t].decision = run[t].decision
           /\ run[t].status \in {"completed", "rejected"} => run'[t].status = run[t].status
           /\ run[t].closed # "open" => run'[t].closed = run[t].closed]_vars
  BY NextAdvances DEF FinalStep, Final
<1>2. QED
  BY <1>1, Invariance, PTL DEF Spec, VerdictIsFinal

(* The workflow, its graph, its worker and its two deadlines implement the *)
(* lifecycle the gateway is built on.                                      *)
THEOREM WorkflowImplementsLifecycle == Spec => ImplementsLifecycle
<1>1. WorkflowInv /\ [Next]_vars => [Lifecycle!Next]_Lives
  BY NextAdvances DEF LifeStep
<1>2. QED
  BY <1>1, InitInv, Invariance, PTL DEF Spec, ImplementsLifecycle, Lifecycle!Spec

=============================================================================
