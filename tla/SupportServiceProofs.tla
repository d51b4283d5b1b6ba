------------------------ MODULE SupportServiceProofs ------------------------
(***************************************************************************)
(* Theorems of the gateway's tickets, for every set of tickets, customers  *)
(* and requests to decide, and every bound on the posts.                   *)
(***************************************************************************)
EXTENDS SupportService, TLAPS

-----------------------------------------------------------------------------
(* The inductive invariant, in named parts.                                *)

Past == {"waiting_approval", "completed", "rejected"}

(* A decision was taken from a ticket that had paused, and that never      *)
(* unpauses; a ticket that is over is closed.                              *)
LifeInv ==
  \A t \in Tickets :
    /\ life[t].decision # None => life[t].status \in Past
    /\ life[t].open => life[t].status \in {"running", "waiting_approval"}

(* A request names a ticket and a verdict as soon as it is posted, a       *)
(* signal of it exists only after a check that passed, and only a request  *)
(* whose signal was recorded is accepted.                                  *)
RequestOK(req) ==
  /\ req \in ReviewRecord
  /\ req.pc # "new" => req.ticket \in Tickets /\ req.verdict \in Verdicts
  /\ req.pc \in {"new", "posted"} => req.fate = "none"
  /\ req.pc # "done" => req.answer = None
  /\ req.answer \in {"404", "409"} => req.fate = "none"
  /\ req.answer = "202" => req.fate \notin {"none", "sent"}

(* A signal was sent for a ticket that had paused, and is dropped only     *)
(* when the ticket no longer waits.                                        *)
FateOK(req) ==
  /\ req.pc = "checked" \/ req.fate # "none" => life[req.ticket].status \in Past
  /\ req.fate = "dropped" => life[req.ticket].decision # None \/ ~life[req.ticket].open

RequestInv == \A r \in Reviews : RequestOK(reviews[r]) /\ FateOK(reviews[r])

(* A queue holds signals recorded for its ticket, each of them once.       *)
QueueInv ==
  \A t \in Tickets :
    /\ \A i \in 1 .. Len(signals[t]) :
         reviews[signals[t][i]].fate = "recorded" /\ reviews[signals[t][i]].ticket = t
    /\ \A i, j \in 1 .. Len(signals[t]) : signals[t][i] = signals[t][j] => i = j

ServiceInv == TypeOK /\ LifeInv /\ RequestInv /\ QueueInv /\ OneAuthorPerDecision

-----------------------------------------------------------------------------
(* Queues.                                                                 *)

LEMMA AppendTo ==
  ASSUME NEW S, NEW q \in Seq(S), NEW e \in S
  PROVE  /\ Append(q, e) \in Seq(S)
         /\ Len(Append(q, e)) = Len(q) + 1 /\ Len(q) \in Nat
         /\ Append(q, e)[Len(q) + 1] = e
         /\ \A i \in 1 .. Len(q) : Append(q, e)[i] = q[i]
OBVIOUS

LEMMA HeadAndTail ==
  ASSUME NEW S, NEW q \in Seq(S), q # << >>
  PROVE  /\ Head(q) \in S /\ Head(q) = q[1]
         /\ Tail(q) \in Seq(S)
         /\ Len(q) \in Nat \ {0} /\ Len(Tail(q)) = Len(q) - 1
         /\ \A i \in 1 .. Len(q) - 1 : Tail(q)[i] = q[i + 1]
OBVIOUS

-----------------------------------------------------------------------------
(* What a step of a ticket's life, its decision aside, does to it: no      *)
(* decision is made or unmade, what paused has paused, what closed stays   *)
(* closed.                                                                 *)
Ages(t) ==
  /\ life'[t].decision = life[t].decision
  /\ life[t].status \in Past => life'[t].status \in Past
  /\ life[t].status # "none" /\ ~life[t].open => ~life'[t].open

LEMMA LifeAges ==
  ASSUME ServiceInv, NEW t \in Tickets, Lifecycle!Begin(t) \/ Lifecycle!Proceed(t)
  PROVE  /\ life' \in [Tickets -> Lifecycle!Ticket] /\ LifeInv'
         /\ \A u \in Tickets : Ages(u)
<1>. DEFINE before == life[t]
<1>1. life \in [Tickets -> Lifecycle!Ticket] /\ before \in Lifecycle!Ticket
  BY DEF ServiceInv, TypeOK
<1>2. /\ before.decision # None => before.status \in Past
      /\ before.open => before.status \in {"running", "waiting_approval"}
  BY DEF ServiceInv, LifeInv
<1>3. PICK after : /\ life' = [life EXCEPT ![t] = after]
                   /\ after \in Lifecycle!Ticket
                   /\ after.decision = before.decision
                   /\ before.status \in Past => after.status \in Past
                   /\ after.decision # None => after.status \in Past
                   /\ after.open => after.status \in {"running", "waiting_approval"}
                   /\ before.status # "none" /\ ~before.open => ~after.open
  <2>. HIDE DEF before
  <2>. USE <1>1, <1>2 DEF Lifecycle!Becomes, Lifecycle!Closes, Lifecycle!Ticket, Past
  <2>1. CASE Lifecycle!Begin(t)
    BY <2>1 DEF Lifecycle!Begin, before
  <2>2. CASE Lifecycle!CompleteUnreviewed(t)
    BY <2>2 DEF Lifecycle!CompleteUnreviewed, before
  <2>3. CASE Lifecycle!Pause(t)
    BY <2>3 DEF Lifecycle!Pause, before
  <2>4. CASE Lifecycle!Expire(t)
    BY <2>4 DEF Lifecycle!Expire, Lifecycle!AwaitsDecision, before
  <2>5. CASE Lifecycle!Act(t)
    <3>. DEFINE acted == [before EXCEPT !.acted = TRUE]
    <3>1. life' = [life EXCEPT ![t] = acted]
      BY <2>5 DEF Lifecycle!Act, before
    <3>2. /\ acted \in Lifecycle!Ticket
          /\ acted.decision = before.decision
          /\ acted.status = before.status /\ acted.open = before.open
      OBVIOUS
    <3>. HIDE DEF acted
    <3>3. QED
      BY <3>1, <3>2
  <2>6. CASE Lifecycle!Execute(t)
    BY <2>6 DEF Lifecycle!Execute, before
  <2>7. CASE Lifecycle!GiveUp(t)
    BY <2>7 DEF Lifecycle!GiveUp, before
  <2>8. QED
    BY <2>1, <2>2, <2>3, <2>4, <2>5, <2>6, <2>7 DEF Lifecycle!Proceed
<1>4. life' \in [Tickets -> Lifecycle!Ticket]
  BY <1>1, <1>3
<1>5. \A u \in Tickets : life'[u] = IF u = t THEN after ELSE life[u]
  BY <1>1, <1>3
<1>6. LifeInv'
  BY <1>3, <1>5 DEF ServiceInv, LifeInv
<1>7. \A u \in Tickets : Ages(u)
  BY <1>3, <1>5 DEF Ages
<1>8. QED
  BY <1>4, <1>6, <1>7

LEMMA AgesInv ==
  ASSUME ServiceInv, NEW t \in Tickets, Lifecycle!Begin(t) \/ Lifecycle!Proceed(t),
         UNCHANGED <<reviews, signals>>, posts' \in [Customers -> PostRecord]
  PROVE  ServiceInv'
<1>1. life' \in [Tickets -> Lifecycle!Ticket] /\ LifeInv' /\ \A u \in Tickets : Ages(u)
  BY LifeAges
<1>2. TypeOK'
  BY <1>1 DEF ServiceInv, TypeOK
<1>3. ASSUME NEW r \in Reviews
      PROVE  (RequestOK(reviews[r]) /\ FateOK(reviews[r]))'
  <2>1. reviews'[r] = reviews[r] /\ RequestOK(reviews[r]) /\ FateOK(reviews[r])
    BY DEF ServiceInv, RequestInv
  <2>2. RequestOK(reviews[r])'
    BY <2>1 DEF RequestOK
  <2>3. CASE reviews[r].pc = "checked" \/ reviews[r].fate # "none"
    <3>1. reviews[r].ticket \in Tickets
      BY <2>1, <2>3 DEF RequestOK, ReviewRecord
    <3>2. Ages(reviews[r].ticket)
      BY <1>1, <3>1
    <3>3. QED
      BY <2>1, <2>2, <2>3, <3>2 DEF FateOK, Ages, Past
  <2>4. CASE ~(reviews[r].pc = "checked" \/ reviews[r].fate # "none")
    BY <2>1, <2>2, <2>4 DEF FateOK
  <2>5. QED
    BY <2>3, <2>4
<1>4. QueueInv'
  BY DEF ServiceInv, QueueInv
<1>5. OneAuthorPerDecision'
  BY <1>1 DEF ServiceInv, OneAuthorPerDecision, TakenFor, Ages
<1>6. QED
  BY <1>1, <1>2, <1>3, <1>4, <1>5 DEF ServiceInv, RequestInv

-----------------------------------------------------------------------------
(* The two halves of a decision's life: before its signal is recorded only *)
(* the request itself changes ...                                          *)
LEMMA RequestInvStep ==
  ASSUME ServiceInv, NEW r \in Reviews, NEW req,
         RequestOK(req), FateOK(req),
         \/ req.fate = reviews[r].fate /\ req.ticket = reviews[r].ticket
                                      /\ req.verdict = reviews[r].verdict
         \/ reviews[r].fate = "none" /\ req.fate \in {"none", "sent"},
         reviews' = [reviews EXCEPT ![r] = req], UNCHANGED <<life, posts, signals>>
  PROVE  ServiceInv'
<1>1. reviews \in [Reviews -> ReviewRecord]
  BY DEF ServiceInv, TypeOK
<1>2. \A u \in Reviews : reviews'[u] = IF u = r THEN req ELSE reviews[u]
  BY <1>1
<1>3. TypeOK'
  BY <1>1 DEF ServiceInv, TypeOK, RequestOK
<1>4. LifeInv'
  BY DEF ServiceInv, LifeInv
<1>5. RequestInv'
  <2>. SUFFICES ASSUME NEW u \in Reviews
                PROVE  (RequestOK(reviews[u]) /\ FateOK(reviews[u]))'
    BY DEF RequestInv
  <2>1. RequestOK(reviews'[u]) /\ FateOK(reviews'[u])
    BY <1>2 DEF ServiceInv, RequestInv
  <2>2. QED
    BY <2>1 DEF RequestOK, FateOK
<1>6. QueueInv'
  <2>. SUFFICES ASSUME NEW t \in Tickets, NEW i \in 1 .. Len(signals[t])
                PROVE  /\ reviews'[signals[t][i]].fate = "recorded"
                       /\ reviews'[signals[t][i]].ticket = t
    BY DEF ServiceInv, QueueInv
  <2>1. signals[t] \in Seq(Reviews)
    BY DEF ServiceInv, TypeOK
  <2>2. signals[t][i] \in Reviews
    BY <2>1
  <2>3. reviews[signals[t][i]].fate = "recorded" /\ reviews[signals[t][i]].ticket = t
    BY DEF ServiceInv, QueueInv
  <2>4. QED
    BY <1>2, <2>2, <2>3
<1>7. \A t \in Tickets : TakenFor(t)' = TakenFor(t)
  BY <1>2 DEF TakenFor
<1>8. OneAuthorPerDecision'
  <2>. SUFFICES ASSUME NEW t \in Tickets, NEW u \in TakenFor(t)
                PROVE  reviews'[u].verdict = reviews[u].verdict
    BY <1>7 DEF ServiceInv, OneAuthorPerDecision
  <2>1. u \in Reviews /\ reviews[u].fate = "taken"
    BY DEF TakenFor
  <2>2. QED
    BY <1>2, <2>1
<1>9. QED
  BY <1>3, <1>4, <1>5, <1>6, <1>8 DEF ServiceInv

(* ... Temporal appends the recorded signal to the queue of its ticket ... *)
LEMMA RecordInv ==
  ASSUME ServiceInv, NEW r \in Reviews, Record(r)
  PROVE  ServiceInv'
<1>. DEFINE t == reviews[r].ticket
<1>1. PICK req : req = [reviews[r] EXCEPT !.fate = "recorded"]
  OBVIOUS
<1>2. /\ reviews \in [Reviews -> ReviewRecord] /\ reviews[r] \in ReviewRecord
      /\ signals \in [Tickets -> Seq(Reviews)]
  BY DEF ServiceInv, TypeOK
<1>3. reviews[r].fate = "sent" /\ RequestOK(reviews[r]) /\ FateOK(reviews[r])
  BY DEF Record, ServiceInv, RequestInv
<1>4. t \in Tickets
  BY <1>3 DEF RequestOK, ReviewRecord
<1>5. /\ req.fate = "recorded" /\ req.ticket = t /\ req.verdict = reviews[r].verdict
      /\ req.pc = reviews[r].pc /\ req.answer = reviews[r].answer
      /\ req \in ReviewRecord
  BY <1>1, <1>2 DEF ReviewRecord
<1>6. \A u \in Reviews : reviews'[u] = IF u = r THEN req ELSE reviews[u]
  BY <1>1, <1>2 DEF Record
<1>7. UNCHANGED <<life, posts>>
  BY DEF Record
<1>8. RequestOK(req) /\ FateOK(req)
  BY <1>3, <1>5, ServiceAssumption DEF RequestOK, FateOK
<1>9. PICK q : q = signals[t]
  OBVIOUS
<1>10. q \in Seq(Reviews) /\ \A u \in Tickets : signals'[u] = IF u = t THEN Append(q, r) ELSE signals[u]
  BY <1>2, <1>4, <1>9 DEF Record
<1>11. TypeOK'
  <2>1. reviews' \in [Reviews -> ReviewRecord]
    BY <1>1, <1>2, <1>5 DEF Record
  <2>2. Append(q, r) \in Seq(Reviews)
    BY <1>10, AppendTo
  <2>3. signals' \in [Tickets -> Seq(Reviews)]
    BY <1>2, <1>9, <2>2 DEF Record
  <2>4. QED
    BY <1>7, <2>1, <2>3 DEF ServiceInv, TypeOK
<1>12. RequestInv'
  <2>. SUFFICES ASSUME NEW u \in Reviews
                PROVE  (RequestOK(reviews[u]) /\ FateOK(reviews[u]))'
    BY DEF RequestInv
  <2>1. RequestOK(reviews'[u]) /\ FateOK(reviews'[u])
    BY <1>6, <1>8 DEF ServiceInv, RequestInv
  <2>2. QED
    BY <1>7, <2>1 DEF RequestOK, FateOK
<1>13. QueueInv'
  <2>1. ASSUME NEW u \in Tickets, u # t
        PROVE  /\ \A i \in 1 .. Len(signals'[u]) :
                    reviews'[signals'[u][i]].fate = "recorded" /\ reviews'[signals'[u][i]].ticket = u
               /\ \A i, j \in 1 .. Len(signals'[u]) : signals'[u][i] = signals'[u][j] => i = j
    <3>1. signals'[u] = signals[u] /\ signals[u] \in Seq(Reviews)
      BY <1>2, <1>10, <2>1
    <3>2. ASSUME NEW i \in 1 .. Len(signals[u])
          PROVE  reviews'[signals[u][i]].fate = "recorded" /\ reviews'[signals[u][i]].ticket = u
      <4>1. signals[u][i] \in Reviews
        BY <3>1
      <4>2. reviews[signals[u][i]].fate = "recorded" /\ reviews[signals[u][i]].ticket = u
        BY DEF ServiceInv, QueueInv
      <4>3. QED
        BY <1>3, <1>6, <4>1, <4>2
    <3>3. QED
      BY <3>1, <3>2 DEF ServiceInv, QueueInv
  <2>2. /\ \A i \in 1 .. Len(signals'[t]) :
             reviews'[signals'[t][i]].fate = "recorded" /\ reviews'[signals'[t][i]].ticket = t
        /\ \A i, j \in 1 .. Len(signals'[t]) : signals'[t][i] = signals'[t][j] => i = j
    <3>1. PICK a : a = Append(q, r)
      OBVIOUS
    <3>2. signals'[t] = a
      BY <1>4, <1>10, <3>1
    <3>3. /\ Len(a) = Len(q) + 1 /\ Len(q) \in Nat /\ a[Len(q) + 1] = r
          /\ \A i \in 1 .. Len(q) : a[i] = q[i] /\ q[i] \in Reviews
      BY <1>10, <3>1, AppendTo
    <3>4. /\ \A i \in 1 .. Len(q) : reviews[q[i]].fate = "recorded" /\ reviews[q[i]].ticket = t
          /\ \A i, j \in 1 .. Len(q) : q[i] = q[j] => i = j
      BY <1>4, <1>9 DEF ServiceInv, QueueInv
    <3>5. \A i \in 1 .. Len(q) : q[i] # r /\ reviews'[q[i]] = reviews[q[i]]
      BY <1>3, <1>6, <3>3, <3>4
    <3>6. \A i \in 1 .. Len(a) : i \in 1 .. Len(q) \/ i = Len(q) + 1
      BY <3>3
    <3>7. reviews'[r] = req
      BY <1>6
    <3>. HIDE DEF t
    <3>8. \A i \in 1 .. Len(a) : reviews'[a[i]].fate = "recorded" /\ reviews'[a[i]].ticket = t
      BY <1>5, <3>3, <3>4, <3>5, <3>6, <3>7
    <3>9. \A i, j \in 1 .. Len(a) : a[i] = a[j] => i = j
      BY <3>3, <3>4, <3>5, <3>6
    <3>10. QED
      BY <3>2, <3>8, <3>9
  <2>3. QED
    BY <2>1, <2>2 DEF QueueInv
<1>14. OneAuthorPerDecision'
  <2>1. \A u \in Tickets : TakenFor(u)' = TakenFor(u)
    BY <1>3, <1>5, <1>6 DEF TakenFor
  <2>2. \A u \in Tickets : \A v \in TakenFor(u) : reviews'[v].verdict = reviews[v].verdict
    BY <1>5, <1>6 DEF TakenFor
  <2>3. QED
    BY <1>7, <2>1, <2>2 DEF ServiceInv, OneAuthorPerDecision
<1>15. LifeInv'
  BY <1>7 DEF ServiceInv, LifeInv
<1>16. QED
  BY <1>11, <1>12, <1>13, <1>14, <1>15 DEF ServiceInv

(* ... and the workflow takes the signal at the head of the queue, which   *)
(* decides the ticket, or drops it.                                        *)
LEMMA HandledQueue ==
  ASSUME ServiceInv, NEW t \in Tickets, signals[t] # << >>, NEW fate,
         Handled(Head(signals[t]), t, fate), fate \in {"taken", "dropped"}
  PROVE  LET r == Head(signals[t])
         IN  /\ r \in Reviews /\ reviews[r].fate = "recorded" /\ reviews[r].ticket = t
             /\ reviews' \in [Reviews -> ReviewRecord]
             /\ \A u \in Reviews : u # r => reviews'[u] = reviews[u]
             /\ reviews'[r] = [reviews[r] EXCEPT !.fate = fate]
             /\ signals' \in [Tickets -> Seq(Reviews)]
             /\ QueueInv'
<1>1. PICK r : r = Head(signals[t])
  OBVIOUS
<1>2. PICK q : q = signals[t]
  OBVIOUS
<1>3. /\ reviews \in [Reviews -> ReviewRecord]
      /\ signals \in [Tickets -> Seq(Reviews)] /\ q \in Seq(Reviews) /\ q # << >>
  BY <1>2 DEF ServiceInv, TypeOK
<1>4. PICK rest : rest = Tail(q)
  OBVIOUS
<1>5. /\ r = q[1] /\ r \in Reviews /\ rest \in Seq(Reviews)
      /\ Len(q) \in Nat \ {0} /\ Len(rest) = Len(q) - 1
      /\ \A i \in 1 .. Len(rest) : rest[i] = q[i + 1] /\ i + 1 \in 1 .. Len(q) /\ i + 1 # 1
  BY <1>1, <1>2, <1>3, <1>4, HeadAndTail
<1>6. /\ \A i \in 1 .. Len(q) : reviews[q[i]].fate = "recorded" /\ reviews[q[i]].ticket = t
      /\ \A i, j \in 1 .. Len(q) : q[i] = q[j] => i = j
  BY <1>2 DEF ServiceInv, QueueInv
<1>7. reviews[r].fate = "recorded" /\ reviews[r].ticket = t
  BY <1>5, <1>6
<1>8. /\ reviews' = [reviews EXCEPT ![r] = [reviews[r] EXCEPT !.fate = fate]]
      /\ signals' = [signals EXCEPT ![t] = rest]
  BY <1>1, <1>2, <1>3, <1>4, <1>5 DEF Handled
<1>9. [reviews[r] EXCEPT !.fate = fate] \in ReviewRecord
  <2>1. reviews[r] \in ReviewRecord
    BY <1>3, <1>5
  <2>2. QED
    BY <2>1 DEF ReviewRecord
<1>10. \A u \in Tickets : signals'[u] = IF u = t THEN rest ELSE signals[u]
  BY <1>3, <1>8
<1>11. /\ \A u \in Reviews : u # r => reviews'[u] = reviews[u]
       /\ reviews'[r] = [reviews[r] EXCEPT !.fate = fate]
  BY <1>3, <1>5, <1>8
<1>12. /\ \A i \in 1 .. Len(rest) : /\ rest[i] # r /\ rest[i] \in Reviews
                                     /\ reviews[rest[i]].fate = "recorded"
                                     /\ reviews[rest[i]].ticket = t
       /\ \A i, j \in 1 .. Len(rest) : rest[i] = rest[j] => i = j
  <2>1. 1 \in 1 .. Len(q)
    BY <1>5
  <2>2. ASSUME NEW i \in 1 .. Len(rest)
        PROVE  /\ rest[i] # r /\ rest[i] \in Reviews
               /\ reviews[rest[i]].fate = "recorded" /\ reviews[rest[i]].ticket = t
    BY <1>5, <1>6, <2>1
  <2>3. ASSUME NEW i \in 1 .. Len(rest), NEW j \in 1 .. Len(rest), rest[i] = rest[j]
        PROVE  i = j
    <3>1. q[i + 1] = q[j + 1]
      BY <1>5, <2>3
    <3>2. i + 1 = j + 1
      BY <1>5, <1>6, <3>1
    <3>3. QED
      BY <3>2
  <2>4. QED
    BY <2>2, <2>3
<1>13. QueueInv'
  <2>1. ASSUME NEW u \in Tickets, u # t, NEW i \in 1 .. Len(signals[u])
        PROVE  reviews'[signals[u][i]] = reviews[signals[u][i]]
    <3>1. signals[u][i] \in Reviews
      BY <1>3
    <3>2. reviews[signals[u][i]].ticket = u
      BY DEF ServiceInv, QueueInv
    <3>3. QED
      BY <1>7, <1>11, <2>1, <3>1, <3>2
  <2>2. ASSUME NEW u \in Tickets, u # t
        PROVE  /\ \A i \in 1 .. Len(signals'[u]) :
                    reviews'[signals'[u][i]].fate = "recorded" /\ reviews'[signals'[u][i]].ticket = u
               /\ \A i, j \in 1 .. Len(signals'[u]) : signals'[u][i] = signals'[u][j] => i = j
    BY <1>10, <2>1, <2>2 DEF ServiceInv, QueueInv
  <2>3. /\ \A i \in 1 .. Len(signals'[t]) :
             reviews'[signals'[t][i]].fate = "recorded" /\ reviews'[signals'[t][i]].ticket = t
        /\ \A i, j \in 1 .. Len(signals'[t]) : signals'[t][i] = signals'[t][j] => i = j
    BY <1>10, <1>11, <1>12
  <2>4. QED
    BY <2>2, <2>3 DEF QueueInv
<1>14. QED
  BY <1>1, <1>3, <1>5, <1>7, <1>8, <1>9, <1>11, <1>13

LEMMA DropInv ==
  ASSUME ServiceInv, NEW t \in Tickets, life[t].open, signals[t] # << >>,
         ~Lifecycle!AwaitsDecision(t), Handled(Head(signals[t]), t, "dropped"), UNCHANGED life
  PROVE  ServiceInv'
<1>1. PICK r : r = Head(signals[t])
  OBVIOUS
<1>2. /\ r \in Reviews /\ reviews[r].fate = "recorded" /\ reviews[r].ticket = t
      /\ reviews' \in [Reviews -> ReviewRecord]
      /\ \A u \in Reviews : u # r => reviews'[u] = reviews[u]
      /\ reviews'[r] = [reviews[r] EXCEPT !.fate = "dropped"]
      /\ signals' \in [Tickets -> Seq(Reviews)]
      /\ QueueInv'
  BY <1>1, HandledQueue
<1>3. reviews[r] \in ReviewRecord /\ RequestOK(reviews[r]) /\ FateOK(reviews[r])
  BY <1>2 DEF ServiceInv, RequestInv, RequestOK
<1>4. PICK req : req = reviews'[r]
  OBVIOUS
<1>5. /\ req.fate = "dropped" /\ req.ticket = t /\ req.verdict = reviews[r].verdict
      /\ req.pc = reviews[r].pc /\ req.answer = reviews[r].answer /\ req \in ReviewRecord
  BY <1>2, <1>3, <1>4 DEF ReviewRecord
\* The ticket paused before the signal was sent and is open, so it was decided.
<1>6. life[t].status \in Past /\ (life[t].decision # None \/ ~life[t].open)
  <2>1. life[t].status \in Past
    BY <1>2, <1>3 DEF FateOK
  <2>2. life[t].status = "waiting_approval" => life[t].decision # None
    BY DEF Lifecycle!AwaitsDecision
  <2>3. life[t].status \in {"completed", "rejected"} => ~life[t].open
    BY DEF ServiceInv, LifeInv
  <2>4. QED
    BY <2>1, <2>2, <2>3 DEF Past
<1>7. TypeOK' /\ LifeInv'
  BY <1>2 DEF Handled, ServiceInv, TypeOK, LifeInv
<1>8. RequestInv'
  <2>1. RequestOK(req) /\ FateOK(req)
    BY <1>2, <1>3, <1>5, <1>6 DEF RequestOK, FateOK
  <2>2. ASSUME NEW u \in Reviews
        PROVE  RequestOK(reviews'[u]) /\ FateOK(reviews'[u])
    BY <1>2, <1>4, <2>1 DEF ServiceInv, RequestInv
  <2>3. ASSUME NEW u \in Reviews
        PROVE  (RequestOK(reviews[u]) /\ FateOK(reviews[u]))'
    BY <2>2 DEF RequestOK, FateOK
  <2>4. QED
    BY <2>3 DEF RequestInv
<1>9. OneAuthorPerDecision'
  <2>1. \A u \in Tickets : TakenFor(u)' = TakenFor(u)
    BY <1>2, <1>4, <1>5 DEF TakenFor
  <2>2. \A u \in Tickets : \A v \in TakenFor(u) : reviews'[v] = reviews[v]
    BY <1>2 DEF TakenFor
  <2>3. QED
    BY <2>1, <2>2 DEF ServiceInv, OneAuthorPerDecision
<1>10. QED
  BY <1>2, <1>7, <1>8, <1>9 DEF ServiceInv

LEMMA TakeInv ==
  ASSUME ServiceInv, NEW t \in Tickets, life[t].open, signals[t] # << >>,
         Lifecycle!Take(t, reviews[Head(signals[t])].verdict),
         Handled(Head(signals[t]), t, "taken")
  PROVE  ServiceInv'
<1>1. PICK r : r = Head(signals[t])
  OBVIOUS
<1>2. /\ r \in Reviews /\ reviews[r].fate = "recorded" /\ reviews[r].ticket = t
      /\ reviews' \in [Reviews -> ReviewRecord]
      /\ \A u \in Reviews : u # r => reviews'[u] = reviews[u]
      /\ reviews'[r] = [reviews[r] EXCEPT !.fate = "taken"]
      /\ signals' \in [Tickets -> Seq(Reviews)]
      /\ QueueInv'
  BY <1>1, HandledQueue
<1>3. reviews[r] \in ReviewRecord /\ RequestOK(reviews[r]) /\ FateOK(reviews[r])
  BY <1>2 DEF ServiceInv, RequestInv, RequestOK
<1>4. PICK req : req = reviews'[r]
  OBVIOUS
<1>5. /\ req.fate = "taken" /\ req.ticket = t /\ req.verdict = reviews[r].verdict
      /\ req.pc = reviews[r].pc /\ req.answer = reviews[r].answer /\ req \in ReviewRecord
  BY <1>2, <1>3, <1>4 DEF ReviewRecord
<1>6. req.verdict \in Verdicts /\ req.verdict # None /\ req.pc # "new"
  <2>1. reviews[r].pc # "new"
    BY <1>2, <1>3 DEF RequestOK
  <2>2. QED
    BY <1>3, <1>5, <2>1, ServiceAssumption DEF RequestOK
<1>7. PICK after : /\ life' = [life EXCEPT ![t] = after]
                   /\ after \in Lifecycle!Ticket
                   /\ after.decision = req.verdict
                   /\ after.status \in Past
                   /\ after.open => after.status = "waiting_approval"
  <2>. DEFINE before   == life[t]
              approved == [before EXCEPT !.decision = req.verdict]
              rejected == [before EXCEPT !.decision = req.verdict,
                                         !.status = "rejected", !.open = FALSE]
  <2>1. before \in Lifecycle!Ticket /\ before.status = "waiting_approval"
    BY DEF ServiceInv, TypeOK, Lifecycle!Take, Lifecycle!AwaitsDecision
  <2>2. life' = [life EXCEPT ![t] = IF req.verdict = "approve" THEN approved ELSE rejected]
    BY <1>1, <1>5 DEF Lifecycle!Take, Lifecycle!Becomes
  <2>. HIDE DEF before
  <2>3. /\ approved \in Lifecycle!Ticket /\ approved.decision = req.verdict
        /\ approved.status = "waiting_approval"
    BY <1>6, <2>1 DEF Lifecycle!Ticket, Lifecycle!Verdicts, Verdicts
  <2>4. /\ rejected \in Lifecycle!Ticket /\ rejected.decision = req.verdict
        /\ rejected.status = "rejected" /\ ~rejected.open
    BY <1>6, <2>1 DEF Lifecycle!Ticket, Lifecycle!Verdicts, Verdicts
  <2>. HIDE DEF approved, rejected
  <2>5. QED
    BY <2>2, <2>3, <2>4 DEF Past
<1>8. life \in [Tickets -> Lifecycle!Ticket] /\ life[t].decision = None
  BY DEF ServiceInv, TypeOK, Lifecycle!Take, Lifecycle!AwaitsDecision
<1>9. \A u \in Tickets : life'[u] = IF u = t THEN after ELSE life[u]
  BY <1>7, <1>8
<1>10. TypeOK'
  <2>1. life' \in [Tickets -> Lifecycle!Ticket]
    BY <1>7, <1>8
  <2>2. QED
    BY <1>2, <2>1 DEF Handled, ServiceInv, TypeOK
<1>11. LifeInv'
  BY <1>7, <1>9 DEF ServiceInv, LifeInv
<1>12. RequestInv'
  <2>1. \A u \in Tickets : life[u].status \in Past => life'[u].status \in Past
    BY <1>7, <1>9
  <2>2. \A u \in Tickets : life[u].decision # None \/ ~life[u].open
                              => life'[u].decision # None \/ ~life'[u].open
    BY <1>6, <1>7, <1>9
  <2>3. ASSUME NEW u \in Reviews, u # r
        PROVE  (RequestOK(reviews[u]) /\ FateOK(reviews[u]))'
    <3>1. reviews'[u] = reviews[u] /\ RequestOK(reviews[u]) /\ FateOK(reviews[u])
      BY <1>2, <2>3 DEF ServiceInv, RequestInv
    <3>2. RequestOK(reviews[u])'
      BY <3>1 DEF RequestOK
    <3>3. reviews[u].pc = "checked" \/ reviews[u].fate # "none" => reviews[u].ticket \in Tickets
      BY <3>1 DEF RequestOK
    <3>4. QED
      BY <2>1, <2>2, <3>1, <3>2, <3>3 DEF FateOK
  <2>4. (RequestOK(reviews[r]) /\ FateOK(reviews[r]))'
    <3>1. RequestOK(req)
      BY <1>2, <1>3, <1>5, <1>6 DEF RequestOK
    <3>2. RequestOK(reviews[r])'
      BY <1>4, <3>1 DEF RequestOK
    <3>3. QED
      BY <1>4, <1>5, <1>7, <1>9, <3>2 DEF FateOK
  <2>5. QED
    BY <2>3, <2>4 DEF RequestInv
<1>13. OneAuthorPerDecision'
  <2>1. TakenFor(t) = {} /\ TakenFor(t)' = {r}
    <3>1. TakenFor(t) = {}
      BY <1>8 DEF ServiceInv, OneAuthorPerDecision
    <3>2. \A v \in Reviews : ~(reviews[v].ticket = t /\ reviews[v].fate = "taken")
      BY <3>1 DEF TakenFor
    <3>3. \A v \in Reviews : (reviews'[v].ticket = t /\ reviews'[v].fate = "taken") <=> v = r
      BY <1>2, <1>4, <1>5, <3>2
    <3>4. TakenFor(t)' = {v \in Reviews : reviews'[v].ticket = t /\ reviews'[v].fate = "taken"}
      BY DEF TakenFor
    <3>5. QED
      BY <1>2, <3>1, <3>3, <3>4
  <2>2. life'[t].decision = reviews'[r].verdict /\ life'[t].decision # None
    BY <1>4, <1>6, <1>7, <1>9
  <2>3. ASSUME NEW u \in Tickets, u # t
        PROVE  /\ life'[u] = life[u] /\ TakenFor(u)' = TakenFor(u)
               /\ \A v \in TakenFor(u) : reviews'[v] = reviews[v]
    BY <1>2, <1>4, <1>5, <1>9, <2>3 DEF TakenFor
  <2>4. ASSUME NEW u \in Tickets
        PROVE  /\ life'[u].decision = None => TakenFor(u)' = {}
               /\ life'[u].decision # None =>
                    \E v \in TakenFor(u)' : /\ TakenFor(u)' = {v}
                                            /\ reviews'[v].verdict = life'[u].decision
    <3>1. CASE u = t
      BY <2>1, <2>2, <3>1
    <3>2. CASE u # t
      BY <2>3, <3>2 DEF ServiceInv, OneAuthorPerDecision
    <3>3. QED
      BY <3>1, <3>2
  <2>5. QED
    BY <2>4 DEF OneAuthorPerDecision
<1>14. QED
  BY <1>2, <1>10, <1>11, <1>12, <1>13 DEF ServiceInv

-----------------------------------------------------------------------------
(* The posts have an invariant of their own type only.                     *)
LEMMA PostsInv ==
  ASSUME ServiceInv, posts' \in [Customers -> PostRecord], UNCHANGED <<life, reviews, signals>>
  PROVE  ServiceInv'
<1>1. TypeOK' /\ LifeInv'
  BY DEF ServiceInv, TypeOK, LifeInv
<1>2. RequestInv'
  BY DEF ServiceInv, RequestInv, RequestOK, FateOK
<1>3. QueueInv'
  BY DEF ServiceInv, QueueInv
<1>4. OneAuthorPerDecision'
  BY DEF ServiceInv, OneAuthorPerDecision, TakenFor
<1>5. QED
  BY <1>1, <1>2, <1>3, <1>4 DEF ServiceInv

LEMMA CreateInv ==
  ASSUME ServiceInv, NEW c \in Customers, CreateStep(c)
  PROVE  ServiceInv'
<1>1. posts \in [Customers -> PostRecord] /\ posts[c] \in PostRecord
  BY DEF ServiceInv, TypeOK
<1>2. CASE Post(c)
  <2>1. posts[c].tries + 1 \in 0 .. MaxPosts
    BY <1>1, <1>2, ServiceAssumption DEF Post, PostRecord
  <2>2. [pc |-> "posted", tries |-> posts[c].tries + 1, ticket |-> None, answer |-> None]
          \in PostRecord
    BY <2>1 DEF PostRecord
  <2>3. QED
    BY <1>1, <1>2, <2>2, PostsInv DEF Post
<1>3. CASE Start(c)
  <2>1. PICK t \in Tickets : Lifecycle!Begin(t) /\ posts' = [posts EXCEPT ![c].ticket = t]
    BY <1>3 DEF Start
  <2>2. posts' \in [Customers -> PostRecord]
    BY <1>1, <2>1 DEF PostRecord
  <2>3. QED
    BY <1>3, <2>1, <2>2, AgesInv DEF Start
<1>4. CASE CreateTicketAnswers(c)
  <2>1. posts' \in [Customers -> PostRecord]
    BY <1>1, <1>4 DEF CreateTicketAnswers, PostRecord
  <2>2. QED
    BY <1>4, <2>1, PostsInv DEF CreateTicketAnswers
<1>5. CASE CreateTicketFails(c)
  <2>1. posts' \in [Customers -> PostRecord]
    BY <1>1, <1>5 DEF CreateTicketFails, PostRecord
  <2>2. QED
    BY <1>5, <2>1, PostsInv DEF CreateTicketFails
<1>6. QED
  BY <1>2, <1>3, <1>4, <1>5 DEF CreateStep

(* An answer ends a request, and is one its signal's fate allows.          *)
LEMMA AnswerInv ==
  ASSUME ServiceInv, NEW r \in Reviews, NEW answer \in Answers,
         reviews[r].pc # "new",
         answer \in {"404", "409"} => reviews[r].fate = "none",
         answer = "202" => reviews[r].fate \notin {"none", "sent"},
         reviews' = [reviews EXCEPT ![r] = Answer(reviews[r], answer)],
         UNCHANGED <<life, posts, signals>>
  PROVE  ServiceInv'
<1>1. PICK req : req = Answer(reviews[r], answer)
  OBVIOUS
<1>2. reviews[r] \in ReviewRecord /\ RequestOK(reviews[r]) /\ FateOK(reviews[r])
  BY DEF ServiceInv, TypeOK, RequestInv
<1>3. /\ req \in ReviewRecord /\ req.pc = "done" /\ req.answer = answer
      /\ req.ticket = reviews[r].ticket /\ req.verdict = reviews[r].verdict
      /\ req.fate = reviews[r].fate
  BY <1>1, <1>2 DEF Answer, ReviewRecord
<1>4. RequestOK(req) /\ FateOK(req)
  BY <1>2, <1>3 DEF RequestOK, FateOK
<1>5. QED
  BY <1>1, <1>3, <1>4, RequestInvStep

LEMMA DecideInv ==
  ASSUME ServiceInv, NEW r \in Reviews, DecideStep(r)
  PROVE  ServiceInv'
<1>. DEFINE now == reviews[r]
<1>1. /\ reviews \in [Reviews -> ReviewRecord] /\ now \in ReviewRecord
      /\ RequestOK(now) /\ FateOK(now)
  BY DEF ServiceInv, TypeOK, RequestInv
<1>2. CASE Check(r)
  <2>. DEFINE read == Get(life[now.ticket])
  <2>1. now.pc = "posted" /\ now.fate = "none" /\ now.ticket \in Tickets
    BY <1>1, <1>2 DEF Check, RequestOK
  <2>2. CASE read = "ok"
    <3>1. PICK req : req = [now EXCEPT !.pc = "checked"]
      OBVIOUS
    <3>2. /\ req \in ReviewRecord /\ req.pc = "checked" /\ req.answer = now.answer
          /\ req.ticket = now.ticket /\ req.verdict = now.verdict /\ req.fate = now.fate
      BY <1>1, <3>1 DEF ReviewRecord
    <3>3. life[now.ticket].status = "waiting_approval"
      BY <2>2 DEF Get
    <3>4. RequestOK(req) /\ FateOK(req)
      BY <1>1, <2>1, <3>2, <3>3 DEF RequestOK, FateOK, Past
    <3>5. reviews' = [reviews EXCEPT ![r] = req] /\ UNCHANGED <<life, posts, signals>>
      BY <1>2, <2>2, <3>1 DEF Check
    <3>6. QED
      BY <3>2, <3>4, <3>5, RequestInvStep
  <2>3. CASE read # "ok"
    <3>1. read \in {"404", "409"}
      BY <2>3 DEF Get
    <3>2. reviews' = [reviews EXCEPT ![r] = Answer(now, read)] /\ UNCHANGED <<life, posts, signals>>
      BY <1>2, <2>3 DEF Check
    <3>3. PICK answer \in {"404", "409"} : answer = read
      BY <3>1
    <3>4. QED
      BY <2>1, <3>2, <3>3, AnswerInv DEF Answers
  <2>4. QED
    BY <2>2, <2>3
<1>3. CASE Signal(r)
  <2>1. PICK req : req = [now EXCEPT !.fate = "sent"]
    OBVIOUS
  <2>2. /\ req \in ReviewRecord /\ req.pc = "checked" /\ req.answer = now.answer
        /\ req.ticket = now.ticket /\ req.verdict = now.verdict /\ req.fate = "sent"
    BY <1>1, <1>3, <2>1 DEF ReviewRecord, Signal
  <2>3. now.pc = "checked" /\ now.fate = "none"
    BY <1>3 DEF Signal
  <2>4. RequestOK(req) /\ FateOK(req)
    BY <1>1, <2>2, <2>3, ServiceAssumption DEF RequestOK, FateOK
  <2>5. reviews' = [reviews EXCEPT ![r] = req] /\ UNCHANGED <<life, posts, signals>>
    BY <1>1, <1>3, <2>1 DEF Signal
  <2>6. QED
    BY <2>2, <2>3, <2>4, <2>5, RequestInvStep
<1>4. CASE SignalRefused(r)
  BY <1>4, AnswerInv DEF SignalRefused, Answers
<1>5. CASE DecideAnswers(r)
  BY <1>5, AnswerInv DEF DecideAnswers, Answers
<1>6. CASE DecideFails(r)
  BY <1>6, AnswerInv DEF DecideFails, Answers
<1>7. QED
  BY <1>2, <1>3, <1>4, <1>5, <1>6 DEF DecideStep

LEMMA PostDecisionInv ==
  ASSUME ServiceInv, NEW r \in Reviews, NEW t \in Tickets, NEW verdict \in Verdicts,
         PostDecision(r, t, verdict)
  PROVE  ServiceInv'
<1>1. PICK req : req = [reviews[r] EXCEPT !.pc = "posted", !.ticket = t, !.verdict = verdict]
  OBVIOUS
<1>2. reviews[r] \in ReviewRecord /\ RequestOK(reviews[r]) /\ reviews[r].pc = "new"
  BY DEF ServiceInv, TypeOK, RequestInv, PostDecision
<1>3. /\ req \in ReviewRecord /\ req.pc = "posted" /\ req.answer = reviews[r].answer
      /\ req.ticket = t /\ req.verdict = verdict /\ req.fate = reviews[r].fate
  BY <1>1, <1>2 DEF ReviewRecord
<1>4. reviews[r].fate = "none" /\ reviews[r].answer = None
  BY <1>2 DEF RequestOK
<1>5. RequestOK(req) /\ FateOK(req)
  BY <1>3, <1>4, ServiceAssumption DEF RequestOK, FateOK
<1>6. reviews' = [reviews EXCEPT ![r] = req] /\ UNCHANGED <<life, posts, signals>>
  BY <1>1 DEF PostDecision
<1>7. QED
  BY <1>3, <1>4, <1>5, <1>6, RequestInvStep

LEMMA HandleInv ==
  ASSUME ServiceInv, NEW t \in Tickets, Handle(t)
  PROVE  ServiceInv'
<1>1. CASE Lifecycle!AwaitsDecision(t)
  BY <1>1, TakeInv DEF Handle
<1>2. CASE ~Lifecycle!AwaitsDecision(t)
  BY <1>2, DropInv DEF Handle
<1>3. QED
  BY <1>1, <1>2

LEMMA InitInv == Init => ServiceInv
<1>. SUFFICES ASSUME Init PROVE ServiceInv
  OBVIOUS
<1>1. TypeOK
  <2>1. Lifecycle!Unborn \in Lifecycle!Ticket
    BY DEF Lifecycle!Unborn, Lifecycle!Ticket
  <2>2. QED
    BY <2>1, ServiceAssumption DEF Init, Lifecycle!Init, TypeOK, PostRecord, ReviewRecord, Answers
<1>2. LifeInv
  BY DEF Init, Lifecycle!Init, Lifecycle!Unborn, LifeInv
<1>3. RequestInv
  BY <1>1, ServiceAssumption DEF Init, RequestInv, RequestOK, FateOK, TypeOK
<1>4. QueueInv
  <2>1. ASSUME NEW t \in Tickets PROVE 1 .. Len(signals[t]) = {}
    <3>1. signals[t] = << >>
      BY DEF Init
    <3>2. Len(<< >>) = 0
      OBVIOUS
    <3>3. QED
      BY <3>1, <3>2
  <2>2. QED
    BY <2>1 DEF QueueInv
<1>5. OneAuthorPerDecision
  BY DEF Init, Lifecycle!Init, Lifecycle!Unborn, OneAuthorPerDecision, TakenFor
<1>6. QED
  BY <1>1, <1>2, <1>3, <1>4, <1>5 DEF ServiceInv

LEMMA NextInv == ServiceInv /\ [Next]_vars => ServiceInv'
<1>. SUFFICES ASSUME ServiceInv, [Next]_vars PROVE ServiceInv'
  OBVIOUS
<1>1. ASSUME NEW c \in Customers, CreateStep(c) PROVE ServiceInv'
  BY <1>1, CreateInv
<1>2. ASSUME NEW r \in Reviews, DecideStep(r) PROVE ServiceInv'
  BY <1>2, DecideInv
<1>3. ASSUME NEW r \in Reviews, Record(r) PROVE ServiceInv'
  BY <1>3, RecordInv
<1>4. ASSUME NEW r \in Reviews, NEW t \in Tickets, NEW verdict \in Verdicts,
             PostDecision(r, t, verdict)
      PROVE  ServiceInv'
  BY <1>4, PostDecisionInv
<1>5. ASSUME NEW t \in Tickets, Handle(t) PROVE ServiceInv'
  BY <1>5, HandleInv
<1>6. ASSUME NEW t \in Tickets, Proceed(t) PROVE ServiceInv'
  <2>1. posts' \in [Customers -> PostRecord]
    BY <1>6 DEF Proceed, ServiceInv, TypeOK
  <2>2. QED
    BY <1>6, <2>1, AgesInv DEF Proceed
<1>7. CASE UNCHANGED vars
  <2>1. UNCHANGED <<life, posts, reviews, signals>>
    BY <1>7 DEF vars
  <2>2. QED
    BY <2>1, PostsInv DEF ServiceInv, TypeOK
<1>8. QED
  BY <1>1, <1>2, <1>3, <1>4, <1>5, <1>6, <1>7 DEF Next

LEMMA Invariance == Spec => []ServiceInv
BY InitInv, NextInv, PTL DEF Spec

-----------------------------------------------------------------------------
(* Posts, requests, signals and tickets keep their types, whatever fails   *)
(* or arrives late.                                                        *)
THEOREM Typing == Spec => []TypeOK
<1>1. ServiceInv => TypeOK
  BY DEF ServiceInv
<1>2. QED
  BY <1>1, Invariance, PTL

(* A 404 or a 409 is the request's last word: however long it is delayed,  *)
(* no signal of it exists that could decide the ticket afterwards.         *)
THEOREM NoIsFinal == Spec => []RefusalIsFinal
<1>1. ServiceInv => RefusalIsFinal
  BY DEF ServiceInv, RequestInv, RequestOK, RefusalIsFinal
<1>2. QED
  BY <1>1, Invariance, PTL

(* A decision in force is the verdict of exactly one request for that      *)
(* ticket, for any number of reviewers, queries and signals in flight.     *)
THEOREM OneRequestDecides == Spec => []OneAuthorPerDecision
<1>1. ServiceInv => OneAuthorPerDecision
  BY DEF ServiceInv
<1>2. QED
  BY <1>1, Invariance, PTL

(* An accepted decision is recorded as long as its ticket waits, and one   *)
(* that is dropped lost to another decision or to the ticket's deadline.   *)
THEOREM AcceptedIsNotLost == Spec => []AcceptedIsOnItsWay
<1>1. ServiceInv => AcceptedIsOnItsWay
  <2>. SUFFICES ASSUME ServiceInv, NEW r \in Reviews
                PROVE  LET t == reviews[r].ticket
                       IN  /\ reviews[r].answer = "202" /\ Lifecycle!AwaitsDecision(t)
                                => reviews[r].fate = "recorded"
                           /\ reviews[r].fate = "dropped" => life[t].decision # None \/ ~life[t].open
    BY DEF AcceptedIsOnItsWay
  <2>. DEFINE t == reviews[r].ticket
  <2>1. RequestOK(reviews[r]) /\ FateOK(reviews[r])
    BY DEF ServiceInv, RequestInv
  <2>2. ASSUME reviews[r].answer = "202", Lifecycle!AwaitsDecision(t)
        PROVE  reviews[r].fate = "recorded"
    <3>1. reviews[r].fate \in {"recorded", "taken", "dropped"} /\ t \in Tickets
      BY <2>1, <2>2, ServiceAssumption DEF RequestOK, ReviewRecord
    <3>2. life[t].open /\ life[t].decision = None
      BY <2>2 DEF Lifecycle!AwaitsDecision
    <3>3. reviews[r].fate # "taken"
      BY <3>1, <3>2 DEF ServiceInv, OneAuthorPerDecision, TakenFor
    <3>4. reviews[r].fate # "dropped"
      BY <2>1, <3>2 DEF FateOK
    <3>5. QED
      BY <3>1, <3>3, <3>4
  <2>3. QED
    BY <2>1, <2>2 DEF FateOK
<1>2. QED
  BY <1>1, Invariance, PTL
=============================================================================
