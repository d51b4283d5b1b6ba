---------------------------- MODULE SupportService ----------------------------
(***************************************************************************)
(* The Go gateway in front of Temporal: POST /v1/tickets and POST          *)
(* /v1/tickets/{id}/decision (internal/httpapi/handler.go on               *)
(* internal/tickets/temporal.go), served concurrently, each request with   *)
(* its own deadline.  A decision is checked by a query and then sent as a  *)
(* signal, two calls with the ticket's life going on between and after     *)
(* them: the workflow handles signals in its own time, in the order        *)
(* Temporal recorded them.                                                 *)
(***************************************************************************)
EXTENDS Naturals, Sequences

CONSTANTS
  Tickets,     \* ids uuid.NewString() can mint
  Customers,   \* callers of POST /v1/tickets
  Reviews,     \* requests to decide on a ticket
  MaxPosts,    \* bound: how often a customer posts the same ticket
  None

VARIABLES
  life,     \* [Tickets -> the ticket's workflow]
  posts,    \* [Customers -> the customer's current POST /v1/tickets]
  reviews,  \* [Reviews -> the request to decide]
  signals   \* [Tickets -> signals recorded, not handled]

vars == <<life, posts, reviews, signals>>

Lifecycle == INSTANCE TicketLifecycle WITH TicketIds <- Tickets, NoDecision <- None

Verdicts == {"approve", "reject"}

\* HTTP statuses; 502 and 504 are one class, the runtime unavailable or late.
Answers == {"202", "404", "409", "5xx", None}

\* None stands for a field without a value, and is no value of any field.
ASSUME ServiceAssumption ==
  /\ MaxPosts \in Nat
  /\ None \notin Tickets \cup Verdicts \cup {"202", "404", "409", "5xx"}

PostRecord   == [pc : {"idle", "posted", "done"}, tries : 0 .. MaxPosts,
                 ticket : Tickets \cup {None}, answer : {"202", "5xx", None}]
ReviewRecord == [pc : {"new", "posted", "checked", "done"}, ticket : Tickets \cup {None},
                 verdict : Verdicts \cup {None}, answer : Answers,
                 fate : {"none", "sent", "recorded", "taken", "dropped"}]  \* of its signal

TypeOK ==
  /\ life \in [Tickets -> Lifecycle!Ticket]
  /\ posts \in [Customers -> PostRecord]
  /\ reviews \in [Reviews -> ReviewRecord]
  /\ signals \in [Tickets -> Seq(Reviews)]

Init ==
  /\ Lifecycle!Init
  /\ posts = [c \in Customers |-> [pc |-> "idle", tries |-> 0, ticket |-> None, answer |-> None]]
  /\ reviews = [r \in Reviews |-> [pc |-> "new", ticket |-> None, verdict |-> None,
                                   answer |-> None, fate |-> "none"]]
  /\ signals = [t \in Tickets |-> << >>]

-----------------------------------------------------------------------------
(* POST /v1/tickets.                                                       *)

\* A customer posts, or posts again what was not answered with a ticket.
Post(c) ==
  /\ \/ posts[c].pc = "idle"
     \/ posts[c].pc = "done" /\ posts[c].answer = "5xx"
  /\ posts[c].tries < MaxPosts
  /\ posts' = [posts EXCEPT ![c] = [pc |-> "posted", tries |-> posts[c].tries + 1,
                                    ticket |-> None, answer |-> None]]
  /\ UNCHANGED <<life, reviews, signals>>

(* Start(): a fresh id, refused by Temporal were it ever used before.      *)
Start(c) ==
  /\ posts[c].pc = "posted" /\ posts[c].ticket = None
  /\ \E t \in Tickets :
       /\ Lifecycle!Begin(t)
       /\ posts' = [posts EXCEPT ![c].ticket = t]
  /\ UNCHANGED <<reviews, signals>>

CreateTicketAnswers(c) ==
  /\ posts[c].pc = "posted" /\ posts[c].ticket # None
  /\ posts' = [posts EXCEPT ![c].pc = "done", ![c].answer = "202"]
  /\ UNCHANGED <<life, reviews, signals>>

(* The call fails or the request's deadline passes, before Temporal        *)
(* started the run or after.                                               *)
CreateTicketFails(c) ==
  /\ posts[c].pc = "posted"
  /\ posts' = [posts EXCEPT ![c].pc = "done", ![c].answer = "5xx"]
  /\ UNCHANGED <<life, reviews, signals>>

-----------------------------------------------------------------------------
(* POST /v1/tickets/{id}/decision.                                         *)

PostDecision(r, t, verdict) ==
  /\ reviews[r].pc = "new"
  /\ reviews' = [reviews EXCEPT ![r] = [@ EXCEPT !.pc = "posted", !.ticket = t,
                                                 !.verdict = verdict]]
  /\ UNCHANGED <<life, posts, signals>>

Answer(review, answer) == [review EXCEPT !.pc = "done", !.answer = answer]

\* Mutant: the error of the query and the status it read are passed on as they are.
Get_Untranslated(ticket) == IF ticket.status = "waiting_approval" THEN "ok" ELSE ticket.status

\* Decide()'s first half, on the state that get_state reports.
Get(ticket) ==
  IF ticket.status = "none" THEN "404"
  ELSE IF ticket.status # "waiting_approval" THEN "409" ELSE "ok"

\* Mutant: the signal is on its way while the query is made.
Check_SignalFirst(r) ==
  /\ reviews[r].pc = "posted"
  /\ LET read == Get(life[reviews[r].ticket])
         sent == [reviews[r] EXCEPT !.fate = "sent"]
     IN  reviews' = [reviews EXCEPT ![r] = IF read = "ok" THEN [sent EXCEPT !.pc = "checked"]
                                           ELSE Answer(sent, read)]
  /\ UNCHANGED <<life, posts, signals>>

(* Get(): an unknown ticket is a 404, one that reports another status than *)
(* waiting_approval a 409, and nothing is sent.                            *)
Check(r) ==
  /\ reviews[r].pc = "posted"
  /\ LET read == Get(life[reviews[r].ticket])
     IN  reviews' = [reviews EXCEPT ![r] = IF read = "ok" THEN [@ EXCEPT !.pc = "checked"]
                                           ELSE Answer(@, read)]
  /\ UNCHANGED <<life, posts, signals>>

Signal(r) ==
  /\ reviews[r].pc = "checked" /\ reviews[r].fate = "none"
  /\ reviews' = [reviews EXCEPT ![r].fate = "sent"]
  /\ UNCHANGED <<life, posts, signals>>

(* SignalWorkflow arrives, also after its request was given up: Temporal   *)
(* records a signal for an open execution ...                              *)
Record(r) ==
  LET t == reviews[r].ticket
  IN  /\ reviews[r].fate = "sent" /\ life[t].open
      /\ signals' = [signals EXCEPT ![t] = Append(@, r)]
      /\ reviews' = [reviews EXCEPT ![r].fate = "recorded"]
      /\ UNCHANGED <<life, posts>>

\* ... and refuses it for a closed one, for which Decide() has no error of its own.
SignalRefused(r) ==
  /\ reviews[r].pc = "checked" /\ reviews[r].fate = "sent"
  /\ ~life[reviews[r].ticket].open
  /\ reviews' = [reviews EXCEPT ![r] = Answer(@, "5xx")]
  /\ UNCHANGED <<life, posts, signals>>

\* Mutant: the caller is told before Temporal has recorded the signal.
DecideAnswers_Early(r) ==
  /\ reviews[r].pc = "checked" /\ reviews[r].fate # "none"
  /\ reviews' = [reviews EXCEPT ![r] = Answer(@, "202")]
  /\ UNCHANGED <<life, posts, signals>>

DecideAnswers(r) ==
  /\ reviews[r].pc = "checked" /\ reviews[r].fate \notin {"none", "sent"}
  /\ reviews' = [reviews EXCEPT ![r] = Answer(@, "202")]
  /\ UNCHANGED <<life, posts, signals>>

(* The query, or the signal, fails or takes longer than the request may: a *)
(* signal that was sent may arrive all the same.                           *)
DecideFails(r) ==
  /\ reviews[r].pc \in {"posted", "checked"}
  /\ reviews' = [reviews EXCEPT ![r] = Answer(@, "5xx")]
  /\ UNCHANGED <<life, posts, signals>>

-----------------------------------------------------------------------------
(* The ticket's workflow handles a signal: submit_decision() takes it, or  *)
(* drops it.  Once the execution is closed nothing is handled any more.    *)

Handled(r, t, fate) ==
  /\ signals' = [signals EXCEPT ![t] = Tail(@)]
  /\ reviews' = [reviews EXCEPT ![r].fate = fate]
  /\ UNCHANGED posts

\* Mutant: of several signals handled at once none is taken.
Handle_Crowded(t) ==
  /\ life[t].open /\ signals[t] # << >>
  /\ LET r == Head(signals[t])
     IN  IF Lifecycle!AwaitsDecision(t) /\ Len(signals[t]) = 1
         THEN Lifecycle!Take(t, reviews[r].verdict) /\ Handled(r, t, "taken")
         ELSE Handled(r, t, "dropped") /\ UNCHANGED life

\* Mutant: any signal handled while the status says so counts as taken.
Handle_ByStatus(t) ==
  /\ life[t].open /\ signals[t] # << >>
  /\ LET r == Head(signals[t])
     IN  IF life[t].status = "waiting_approval"
         THEN /\ life' = [life EXCEPT ![t].decision = reviews[r].verdict]
              /\ Handled(r, t, "taken")
         ELSE Handled(r, t, "dropped") /\ UNCHANGED life

Handle(t) ==
  /\ life[t].open /\ signals[t] # << >>
  /\ LET r == Head(signals[t])
     IN  IF Lifecycle!AwaitsDecision(t)
         THEN Lifecycle!Take(t, reviews[r].verdict) /\ Handled(r, t, "taken")
         ELSE Handled(r, t, "dropped") /\ UNCHANGED life

\* The rest of the ticket's life goes on by itself.
Proceed(t) == Lifecycle!Proceed(t) /\ UNCHANGED <<posts, reviews, signals>>

-----------------------------------------------------------------------------
CreateStep(c) == Post(c) \/ Start(c) \/ CreateTicketAnswers(c) \/ CreateTicketFails(c)

DecideStep(r) == \/ Check(r) \/ Signal(r) \/ SignalRefused(r)
                 \/ DecideAnswers(r) \/ DecideFails(r)

Next ==
  \/ \E c \in Customers : CreateStep(c)
  \/ \E r \in Reviews : \/ DecideStep(r) \/ Record(r)
                        \/ \E t \in Tickets, verdict \in Verdicts : PostDecision(r, t, verdict)
  \/ \E t \in Tickets : Handle(t) \/ Proceed(t)

Spec == Init /\ [][Next]_vars

(* Every request runs to an answer, its deadline at the latest; a worker   *)
(* polls for the signals.                                                  *)
Fairness == /\ \A r \in Reviews : WF_vars(DecideStep(r))
            /\ \A t \in Tickets : WF_vars(Handle(t))

FairSpec == Spec /\ Fairness

-----------------------------------------------------------------------------
(* A caller who was told no (404, 409) is not overtaken by his own         *)
(* request: no signal of it exists, and none ever decides a ticket.        *)
RefusalIsFinal ==
  \A r \in Reviews : reviews[r].answer \in {"404", "409"} => reviews[r].fate = "none"

(* However queries, signals, deadlines and other reviewers interleave, the *)
(* decision in force on a ticket is the verdict of exactly one request     *)
(* that was made for that ticket, and nobody else's was taken.             *)
TakenFor(t) == {r \in Reviews : reviews[r].ticket = t /\ reviews[r].fate = "taken"}

OneAuthorPerDecision ==
  \A t \in Tickets :
    /\ life[t].decision = None => TakenFor(t) = {}
    /\ life[t].decision # None =>
         \E r \in TakenFor(t) : TakenFor(t) = {r} /\ reviews[r].verdict = life[t].decision

(* A decision is not lost: an accepted one is recorded while its ticket    *)
(* still waits, and one that was dropped, accepted or not, lost to another *)
(* decision or to the deadline, never to nothing.                          *)
AcceptedIsOnItsWay ==
  \A r \in Reviews :
    LET t == reviews[r].ticket
    IN  /\ reviews[r].answer = "202" /\ Lifecycle!AwaitsDecision(t) => reviews[r].fate = "recorded"
        /\ reviews[r].fate = "dropped" => life[t].decision # None \/ ~life[t].open

(* An accepted decision settles its ticket: it does not keep waiting.      *)
Unsettled(r) == reviews[r].answer = "202" /\ Lifecycle!AwaitsDecision(reviews[r].ticket)

AcceptedSettles == \A r \in Reviews : Unsettled(r) ~> ~Unsettled(r)

-----------------------------------------------------------------------------
(* "A decision on a run that is not paused returns 409" (README): one that *)
(* is posted while the approved action runs, with the ticket decided and   *)
(* still open, is not accepted.  get_state goes on saying waiting_approval *)
(* until the action is done.                                               *)
AfterDecision(r, t) ==
  /\ reviews[r].pc = "posted" /\ reviews[r].ticket = t
  /\ life[t].open /\ life[t].decision # None

UnpausedIsRefused ==
  \A r \in Reviews, t \in Tickets :
    [](AfterDecision(r, t) => [](reviews[r].answer # "202"))
=============================================================================
