--------------------------- MODULE TicketLifecycle ---------------------------
(***************************************************************************)
(* What the agent promises of a support ticket, whatever its graph, its    *)
(* worker and its retries do: the status a query reports, the decision     *)
(* that was taken, whether the action has happened, and whether the        *)
(* workflow execution is still open.  TicketWorkflow implements it, and    *)
(* SupportService, the gateway, is built on it.                            *)
(***************************************************************************)
CONSTANTS TicketIds, NoDecision

VARIABLE life

Verdicts == {"approve", "reject"}

Ticket == [status   : {"none", "running", "waiting_approval", "completed", "rejected"},
           decision : Verdicts \cup {NoDecision},
           acted    : BOOLEAN,
           open     : BOOLEAN]

Unborn == [status |-> "none", decision |-> NoDecision, acted |-> FALSE, open |-> FALSE]

Init == life = [t \in TicketIds |-> Unborn]

\* The workflow is blocked on a decision.
AwaitsDecision(t) ==
  life[t].open /\ life[t].status = "waiting_approval" /\ life[t].decision = NoDecision

Becomes(t, ticket) == life' = [life EXCEPT ![t] = ticket]
Closes(t, status)  == Becomes(t, [life[t] EXCEPT !.status = status, !.open = FALSE])

-----------------------------------------------------------------------------
Begin(t) ==
  /\ life[t].status = "none"
  /\ Becomes(t, [life[t] EXCEPT !.status = "running", !.open = TRUE])

\* A plan that needs no approval.
CompleteUnreviewed(t) == life[t].open /\ life[t].status = "running" /\ Closes(t, "completed")

Pause(t) ==
  /\ life[t].open /\ life[t].status = "running"
  /\ Becomes(t, [life[t] EXCEPT !.status = "waiting_approval"])

\* The status does not say that an approval was taken, only that it led to something.
Take(t, verdict) ==
  /\ AwaitsDecision(t)
  /\ Becomes(t, IF verdict = "approve"
                THEN [life[t] EXCEPT !.decision = verdict]
                ELSE [life[t] EXCEPT !.decision = verdict, !.status = "rejected", !.open = FALSE])

Expire(t) == AwaitsDecision(t) /\ Closes(t, "rejected")

\* An attempt may outlive the execution that scheduled it.
Act(t) ==
  /\ life[t].decision = "approve" /\ ~life[t].acted
  /\ Becomes(t, [life[t] EXCEPT !.acted = TRUE])

Execute(t) ==
  /\ life[t].open /\ life[t].decision = "approve" /\ life[t].acted
  /\ Closes(t, "completed")

\* Out of retries or out of time: closed with the status it had.
GiveUp(t) == life[t].open /\ Closes(t, life[t].status)

-----------------------------------------------------------------------------
Proceed(t) ==
  CompleteUnreviewed(t) \/ Pause(t) \/ Expire(t) \/ Act(t) \/ Execute(t) \/ GiveUp(t)

Next == \E t \in TicketIds : Begin(t) \/ Proceed(t) \/ \E verdict \in Verdicts : Take(t, verdict)

Spec == Init /\ [][Next]_life
=============================================================================
