---------------------------- MODULE DeskLogProofs ----------------------------
(***************************************************************************)
(* Theorems of the decision log and of the cards that show it, for every   *)
(* set of plans, triggers, levels and reasons.  The invariant of           *)
(* ContingencyDeskProofs says what a plan's fields are; here they are tied *)
(* to the entries of its log.                                              *)
(***************************************************************************)
EXTENDS PlanCard, ContingencyDeskProofs, SequenceTheorems

-----------------------------------------------------------------------------
(* The inductive invariant, of one plan at a time.                         *)

\* The log is a path of ALLOWED from the authoring to the plan's state.
LogOK(plan) ==
  LET log == plan.log
  IN  /\ Len(log) >= 1
      /\ log[1].from = None /\ log[1].to = "DRAFTED"
      /\ log[Len(log)].to = plan.state
      /\ \A i \in 1 .. Len(log) : log[i].actor = ActorOf[log[i].to]
      /\ \A i \in 2 .. Len(log) : /\ log[i].from = log[i - 1].to
                                  /\ log[i].to \in Allowed[log[i].from]

Logged(plan, state) == \E i \in 1 .. Len(plan.log) : plan.log[i].to = state

\* The arming record and the observation are there exactly when the log says so.
MarksOK(plan) ==
  /\ Logged(plan, "ARMED") <=> plan.armed_by = RM
  /\ plan.armed_by # RM => plan.armed_trigger_level = None /\ plan.armed_signature = None
  /\ Logged(plan, "FIRED") <=> plan.fired_observation # None

\* A resolution is that of a resolved state, and has a reason.
ResolutionOK(plan) ==
  /\ plan.resolution = IF plan.state \in {"ACTIONED", "DISMISSED"} THEN plan.state ELSE None
  /\ plan.resolution = None <=> plan.resolution_reason = None
  /\ plan.resolution_reason # BlankReason

HistoryOK(plan) == LogOK(plan) /\ MarksOK(plan) /\ ResolutionOK(plan)

\* What an operation adds to a plan: entries at the end of the log, the first by actor ...
Extends(before, after, actor) ==
  /\ Len(before.log) < Len(after.log)
  /\ \A i \in 1 .. Len(before.log) : after.log[i] = before.log[i]
  /\ after.log[Len(before.log) + 1].actor = actor

\* ... and values in fields that had none.
FieldsStay(before, after) ==
  /\ before.armed_by # None => after.armed_by = before.armed_by
  /\ before.armed_trigger_level # None => after.armed_trigger_level = before.armed_trigger_level
  /\ before.armed_signature # None => after.armed_signature = before.armed_signature
  /\ before.fired_observation # None => after.fired_observation = before.fired_observation
  /\ before.resolution # None => after.resolution = before.resolution
  /\ before.resolution_reason # None => after.resolution_reason = before.resolution_reason

Recorded(before, after, actor) ==
  HistoryOK(after) /\ Extends(before, after, actor) /\ FieldsStay(before, after)

-----------------------------------------------------------------------------
(* One transition.                                                         *)

LEMMA EntryAppended ==
  ASSUME NEW plan \in PlanRecord, NEW to \in States, NEW actor \in Actors
  PROVE  LET done == Transition(plan, to, actor)
             n    == Len(plan.log)
         IN  /\ done \in PlanRecord /\ SameBut(done, plan) /\ done.state = to
             /\ n \in Nat /\ Len(done.log) = n + 1
             /\ \A i \in 1 .. n : done.log[i] = plan.log[i]
             /\ done.log[n + 1] = [actor |-> actor, from |-> plan.state, to |-> to]
<1>. DEFINE entry == [actor |-> actor, from |-> plan.state, to |-> to]
            done  == Transition(plan, to, actor)
<1>1. done \in PlanRecord /\ SameBut(done, plan) /\ done.state = to
  BY TransitionType
<1>2. entry \in LogEntry /\ plan.log \in Seq(LogEntry)
  BY DEF LogEntry, PlanRecord
<1>3. done.log = Append(plan.log, entry)
  BY DEF Transition, PlanRecord
<1>. HIDE DEF done, entry
<1>4. /\ Len(plan.log) \in Nat /\ Len(done.log) = Len(plan.log) + 1
      /\ \A i \in 1 .. Len(plan.log) : done.log[i] = plan.log[i]
      /\ done.log[Len(plan.log) + 1] = entry
  BY <1>2, <1>3
<1>5. QED
  BY <1>1, <1>4 DEF entry, done

(* A transition along ALLOWED by the actor of its state keeps the log a    *)
(* path, and marks the state it moved to and no other.                     *)
LEMMA PathExtended ==
  ASSUME NEW plan \in PlanRecord, LogOK(plan), NEW to \in Allowed[plan.state]
  PROVE  LET done == Transition(plan, to, ActorOf[to])
         IN  /\ done \in PlanRecord /\ SameBut(done, plan) /\ done.state = to
             /\ LogOK(done)
             /\ Extends(plan, done, ActorOf[to])
             /\ \A state \in States : Logged(done, state) <=> Logged(plan, state) \/ state = to
<1>. DEFINE n == Len(plan.log)
<1>1. to \in States /\ ActorOf[to] \in Actors /\ plan.state \in States
  BY DEF Allowed, PlanRecord, States, ActorOf, Actors
<1>2. PICK done : done = Transition(plan, to, ActorOf[to])
  OBVIOUS
<1>3. /\ done \in PlanRecord /\ SameBut(done, plan) /\ done.state = to
      /\ n \in Nat /\ Len(done.log) = n + 1
      /\ \A i \in 1 .. n : done.log[i] = plan.log[i]
      /\ done.log[n + 1] = [actor |-> ActorOf[to], from |-> plan.state, to |-> to]
  BY <1>1, <1>2, EntryAppended
<1>4. /\ done.log[n + 1].actor = ActorOf[to] /\ done.log[n + 1].from = plan.state
      /\ done.log[n + 1].to = to
  BY <1>3
<1>5. /\ n >= 1 /\ plan.log[1].from = None /\ plan.log[1].to = "DRAFTED"
      /\ plan.log[n].to = plan.state
      /\ \A i \in 1 .. n : plan.log[i].actor = ActorOf[plan.log[i].to]
      /\ \A i \in 2 .. n : /\ plan.log[i].from = plan.log[i - 1].to
                           /\ plan.log[i].to \in Allowed[plan.log[i].from]
  BY DEF LogOK
<1>. HIDE DEF n
<1>6. LogOK(done)
  <2>1. /\ Len(done.log) >= 1 /\ done.log[1].from = None /\ done.log[1].to = "DRAFTED"
        /\ done.log[Len(done.log)].to = done.state
    BY <1>3, <1>4, <1>5
  <2>2. ASSUME NEW i \in 1 .. Len(done.log) PROVE done.log[i].actor = ActorOf[done.log[i].to]
    <3>1. CASE i = n + 1
      BY <1>4, <3>1
    <3>2. CASE i # n + 1
      <4>1. i \in 1 .. n
        BY <1>3, <3>2
      <4>2. QED
        BY <1>3, <1>5, <4>1
    <3>3. QED
      BY <3>1, <3>2
  <2>3. ASSUME NEW i \in 2 .. Len(done.log)
        PROVE  /\ done.log[i].from = done.log[i - 1].to
               /\ done.log[i].to \in Allowed[done.log[i].from]
    <3>1. CASE i = n + 1
      <4>1. i - 1 = n /\ n \in 1 .. n
        BY <1>3, <1>5, <3>1
      <4>2. QED
        BY <1>3, <1>4, <1>5, <3>1, <4>1
    <3>2. CASE i # n + 1
      <4>1. i \in 2 .. n /\ i \in 1 .. n /\ i - 1 \in 1 .. n
        BY <1>3, <3>2
      <4>2. QED
        BY <1>3, <1>5, <4>1
    <3>3. QED
      BY <3>1, <3>2
  <2>4. QED
    BY <2>1, <2>2, <2>3 DEF LogOK
<1>7. Extends(plan, done, ActorOf[to])
  BY <1>3, <1>4 DEF Extends, n
<1>8. ASSUME NEW state \in States
      PROVE  Logged(done, state) <=> Logged(plan, state) \/ state = to
  <2>1. \A i \in 1 .. n + 1 : i \in 1 .. n \/ i = n + 1
    BY <1>3
  <2>2. (1 .. n) \subseteq 1 .. n + 1 /\ n + 1 \in 1 .. n + 1
    BY <1>3
  <2>3. QED
    BY <1>3, <1>4, <2>1, <2>2 DEF Logged, n
<1>9. QED
  BY <1>2, <1>3, <1>6, <1>7, <1>8

\* What was added in two steps was added by the actor of the first.
LEMMA ExtendsTwice ==
  ASSUME NEW a \in PlanRecord, NEW b \in PlanRecord, NEW c \in PlanRecord,
         NEW first, NEW second, Extends(a, b, first), Extends(b, c, second)
  PROVE  Extends(a, c, first)
<1>1. Len(a.log) \in Nat /\ Len(b.log) \in Nat /\ Len(c.log) \in Nat
  BY DEF PlanRecord
<1>2. Len(a.log) + 1 \in 1 .. Len(b.log) /\ (1 .. Len(a.log)) \subseteq 1 .. Len(b.log)
  BY <1>1 DEF Extends
<1>3. QED
  BY <1>1, <1>2 DEF Extends

-----------------------------------------------------------------------------
(* The operations of the store.                                            *)

LEMMA ArmRecords ==
  ASSUME NEW p \in Plans, NEW plan, PlanInv(p, plan), HistoryOK(plan), NEW level \in Levels,
         arm(plan, RM, level).ok
  PROVE  Recorded(plan, arm(plan, RM, level).plan, RM)
<1>1. PICK signed : signed = [plan EXCEPT !.armed_by = RM, !.armed_trigger_level = level,
                                          !.armed_signature = signature(plan)]
  OBVIOUS
<1>2. PICK armed : armed = Transition(signed, "ARMED", RM)
  OBVIOUS
<1>3. PICK done : done = Transition(armed, "WATCHING", "system")
  OBVIOUS
<1>4. "ARMED" \in Allowed[plan.state] /\ arm(plan, RM, level).plan = done
  BY <1>1, <1>2, <1>3 DEF arm, Done, Refused
<1>5. plan.state = "DRAFTED" /\ plan \in PlanRecord
  BY <1>4 DEF Allowed, PlanInv, PlanRecord, States
<1>6. /\ signed \in PlanRecord /\ signed.state = plan.state /\ signed.log = plan.log
      /\ signed.armed_by = RM /\ signed.armed_trigger_level = level
      /\ signed.armed_signature = plan.trigger
      /\ signed.fired_observation = plan.fired_observation
      /\ signed.resolution = plan.resolution
      /\ signed.resolution_reason = plan.resolution_reason
  BY <1>1 DEF PlanInv, PlanRecord, signature
<1>7. LogOK(signed)
  BY <1>6 DEF HistoryOK, LogOK
<1>8. ActorOf["ARMED"] = RM /\ ActorOf["WATCHING"] = "system"
  BY DEF ActorOf
<1>9. /\ armed \in PlanRecord /\ SameBut(armed, signed) /\ armed.state = "ARMED"
      /\ LogOK(armed) /\ Extends(signed, armed, RM)
      /\ \A state \in States : Logged(armed, state) <=> Logged(signed, state) \/ state = "ARMED"
  BY <1>2, <1>4, <1>6, <1>7, <1>8, PathExtended
<1>10. /\ done \in PlanRecord /\ SameBut(done, armed) /\ done.state = "WATCHING"
       /\ LogOK(done) /\ Extends(armed, done, "system")
       /\ \A state \in States : Logged(done, state) <=> Logged(armed, state) \/ state = "WATCHING"
  <2>1. "WATCHING" \in Allowed[armed.state]
    BY <1>9 DEF Allowed
  <2>2. QED
    BY <1>3, <1>8, <1>9, <2>1, PathExtended
<1>11. SameBut(done, signed)
  BY <1>9, <1>10 DEF SameBut
<1>12. Extends(plan, done, RM)
  <2>1. Extends(signed, done, RM)
    BY <1>6, <1>9, <1>10, ExtendsTwice
  <2>2. QED
    BY <1>6, <2>1 DEF Extends
<1>13. MarksOK(done)
  <2>1. Logged(done, "ARMED") /\ (Logged(done, "FIRED") <=> Logged(plan, "FIRED"))
    BY <1>6, <1>9, <1>10 DEF States, Logged
  <2>2. QED
    BY <1>6, <1>11, <2>1 DEF SameBut, HistoryOK, MarksOK
<1>14. ResolutionOK(done)
  BY <1>5, <1>6, <1>10, <1>11 DEF SameBut, HistoryOK, ResolutionOK
<1>15. FieldsStay(plan, done)
  BY <1>5, <1>6, <1>11 DEF FieldsStay, SameBut, PlanInv
<1>16. QED
  BY <1>4, <1>10, <1>12, <1>13, <1>14, <1>15 DEF Recorded, HistoryOK

(* A resolution is written on a plan that had none: no move of ALLOWED     *)
(* leaves a resolved state.                                                *)
LEMMA ResolutionRecords ==
  ASSUME NEW p \in Plans, NEW plan, PlanInv(p, plan), HistoryOK(plan),
         NEW to \in {"ACTIONED", "DISMISSED"}, to \in Allowed[plan.state],
         NEW reason \in Ranks \cup Reasons, reason # BlankReason,
         NEW resolved, resolved = [plan EXCEPT !.resolution = to, !.resolution_reason = reason]
  PROVE  Recorded(plan, Transition(resolved, to, RM), RM)
<1>1. PICK done : done = Transition(resolved, to, RM)
  OBVIOUS
<1>2. plan.state \in {"DRAFTED", "FIRED"} /\ plan \in PlanRecord
  BY DEF Allowed, PlanInv, PlanRecord, States
<1>3. /\ resolved \in PlanRecord /\ resolved.state = plan.state /\ resolved.log = plan.log
      /\ resolved.armed_by = plan.armed_by
      /\ resolved.armed_trigger_level = plan.armed_trigger_level
      /\ resolved.armed_signature = plan.armed_signature
      /\ resolved.fired_observation = plan.fired_observation
      /\ resolved.resolution = to /\ resolved.resolution_reason = reason
  BY <1>2 DEF PlanRecord
<1>4. LogOK(resolved)
  BY <1>3 DEF HistoryOK, LogOK
<1>5. ActorOf[to] = RM
  BY DEF ActorOf
<1>6. /\ done \in PlanRecord /\ SameBut(done, resolved) /\ done.state = to
      /\ LogOK(done) /\ Extends(resolved, done, RM)
      /\ \A state \in States : Logged(done, state) <=> Logged(resolved, state) \/ state = to
  BY <1>1, <1>3, <1>4, <1>5, PathExtended
<1>7. Extends(plan, done, RM)
  BY <1>3, <1>6 DEF Extends
<1>8. MarksOK(done)
  <2>1. /\ Logged(done, "ARMED") <=> Logged(plan, "ARMED")
        /\ Logged(done, "FIRED") <=> Logged(plan, "FIRED")
    <3>1. \A state \in States : Logged(resolved, state) <=> Logged(plan, state)
      BY <1>3 DEF Logged
    <3>2. \A state \in {"ARMED", "FIRED"} : state \in States /\ state # to
      BY DEF States
    <3>3. QED
      BY <1>6, <3>1, <3>2
  <2>2. QED
    BY <1>3, <1>6, <2>1 DEF SameBut, HistoryOK, MarksOK
<1>9. reason # None /\ to # None
  BY PlanStoreAssumption, NamesAssumption DEF States
<1>10. ResolutionOK(done)
  BY <1>3, <1>6, <1>9 DEF SameBut, ResolutionOK
<1>11. plan.resolution = None /\ plan.resolution_reason = None
  BY <1>2 DEF HistoryOK, ResolutionOK
<1>12. FieldsStay(plan, done)
  BY <1>3, <1>6, <1>11 DEF FieldsStay, SameBut
<1>13. QED
  BY <1>1, <1>6, <1>7, <1>8, <1>10, <1>12 DEF Recorded, HistoryOK

LEMMA DismissRecords ==
  ASSUME NEW p \in Plans, NEW plan, PlanInv(p, plan), HistoryOK(plan), NEW reason \in Reasons,
         dismiss(plan, RM, reason).ok
  PROVE  Recorded(plan, dismiss(plan, RM, reason).plan, RM)
<1>1. PICK resolved : resolved = [plan EXCEPT !.resolution = "DISMISSED",
                                              !.resolution_reason = reason]
  OBVIOUS
<1>2. /\ "DISMISSED" \in Allowed[plan.state] /\ reason # BlankReason
      /\ dismiss(plan, RM, reason).plan = Transition(resolved, "DISMISSED", RM)
  BY <1>1 DEF dismiss, Done, Refused
<1>3. QED
  BY <1>1, <1>2, ResolutionRecords

LEMMA ActionRecords ==
  ASSUME NEW p \in Plans, NEW plan, PlanInv(p, plan), HistoryOK(plan), NEW r,
         action(plan, RM, r).ok
  PROVE  Recorded(plan, action(plan, RM, r).plan, RM)
<1>1. PICK resolved : resolved = [plan EXCEPT !.resolution = "ACTIONED",
                                              !.resolution_reason = r]
  OBVIOUS
<1>2. /\ "ACTIONED" \in Allowed[plan.state] /\ r \in Ranks
      /\ action(plan, RM, r).plan = Transition(resolved, "ACTIONED", RM)
  BY <1>1 DEF action, Done, Refused
<1>3. r # BlankReason
  BY <1>2, NamesAssumption
<1>4. QED
  BY <1>1, <1>2, <1>3, ResolutionRecords

LEMMA FireRecords ==
  ASSUME NEW p \in Plans, NEW plan, PlanInv(p, plan), HistoryOK(plan), NEW b \in Brents,
         plan.state = "WATCHING"
  PROVE  LET done == fire(plan, [level |-> EffectiveLevel(plan), brent |-> b])
         IN  /\ Recorded(plan, done, "watcher")
             /\ done.state = "FIRED" /\ done.fired_observation.brent = b
<1>1. PICK seen : seen = [level |-> EffectiveLevel(plan), brent |-> b]
  OBVIOUS
<1>2. PICK fired : fired = [plan EXCEPT !.fired_observation = seen]
  OBVIOUS
<1>3. PICK done : done = Transition(fired, "FIRED", "watcher")
  OBVIOUS
<1>4. plan.armed_by = RM /\ plan.armed_trigger_level \in Levels /\ plan \in PlanRecord
  BY DEF PlanInv
<1>5. EffectiveLevel(plan) = plan.armed_trigger_level
  BY <1>4, PlanStoreAssumption DEF EffectiveLevel
<1>6. seen \in [level : Levels, brent : Brents] /\ seen # None /\ seen.brent = b
  BY <1>1, <1>4, <1>5, PlanStoreAssumption
<1>7. /\ fired \in PlanRecord /\ fired.state = plan.state /\ fired.log = plan.log
      /\ fired.armed_by = plan.armed_by
      /\ fired.armed_trigger_level = plan.armed_trigger_level
      /\ fired.armed_signature = plan.armed_signature
      /\ fired.fired_observation = seen
      /\ fired.resolution = plan.resolution /\ fired.resolution_reason = plan.resolution_reason
  BY <1>2, <1>4, <1>6 DEF PlanRecord
<1>8. LogOK(fired)
  BY <1>7 DEF HistoryOK, LogOK
<1>9. ActorOf["FIRED"] = "watcher" /\ "FIRED" \in Allowed[fired.state]
  BY <1>7 DEF ActorOf, Allowed
<1>10. /\ done \in PlanRecord /\ SameBut(done, fired) /\ done.state = "FIRED"
       /\ LogOK(done) /\ Extends(fired, done, "watcher")
       /\ \A state \in States : Logged(done, state) <=> Logged(fired, state) \/ state = "FIRED"
  BY <1>3, <1>7, <1>8, <1>9, PathExtended
<1>11. Extends(plan, done, "watcher")
  BY <1>7, <1>10 DEF Extends
<1>12. MarksOK(done)
  <2>1. (Logged(done, "ARMED") <=> Logged(plan, "ARMED")) /\ Logged(done, "FIRED")
    <3>1. \A state \in States : Logged(fired, state) <=> Logged(plan, state)
      BY <1>7 DEF Logged
    <3>2. QED
      BY <1>10, <3>1 DEF States
  <2>2. QED
    BY <1>6, <1>7, <1>10, <2>1 DEF SameBut, HistoryOK, MarksOK
<1>13. ResolutionOK(done)
  BY <1>7, <1>10 DEF SameBut, HistoryOK, ResolutionOK
<1>14. FieldsStay(plan, done)
  BY <1>7, <1>10 DEF FieldsStay, SameBut, PlanInv
<1>15. done.fired_observation.brent = b
  BY <1>6, <1>7, <1>10 DEF SameBut
<1>16. QED
  BY <1>1, <1>2, <1>3, <1>10, <1>11, <1>12, <1>13, <1>14, <1>15 DEF Recorded, HistoryOK, fire

-----------------------------------------------------------------------------
(* The callbacks of the desk.                                              *)

HistoriesOK(ps) == \A p \in Plans : HistoryOK(ps[p])

DeskLogInv == DeskInv /\ HistoriesOK(plans)

LEMMA SweepRecords ==
  ASSUME NEW ps, PlansInv(ps), HistoriesOK(ps), NEW b \in Brents, NEW p \in Plans
  PROVE  LET after == sweep(ps, b)[p]
         IN  /\ HistoryOK(after) /\ after \in PlanRecord
             /\ \/ after = ps[p]
                \/ Recorded(ps[p], after, "watcher") /\ FiredAt(ps[p], after, b)
<1>1. PlanInv(p, ps[p]) /\ HistoryOK(ps[p])
  BY DEF PlansInv, HistoriesOK
<1>2. CASE ps[p].state = "WATCHING" /\ Holds(p, ps[p], b)
  <2>1. PICK done : done = fire(ps[p], [level |-> EffectiveLevel(ps[p]), brent |-> b])
    OBVIOUS
  <2>2. sweep(ps, b)[p] = done
    BY <1>2, <2>1 DEF sweep
  <2>3. /\ Recorded(ps[p], done, "watcher")
        /\ done.state = "FIRED" /\ done.fired_observation.brent = b
    BY <1>1, <1>2, <2>1, FireRecords
  <2>4. done \in PlanRecord
    BY <1>1, <1>2, <2>1, FireInv DEF PlanInv
  <2>5. QED
    BY <1>2, <2>2, <2>3, <2>4 DEF Recorded, FiredAt
<1>3. CASE ~(ps[p].state = "WATCHING" /\ Holds(p, ps[p], b))
  <2>1. sweep(ps, b)[p] = ps[p]
    BY <1>3 DEF sweep
  <2>2. QED
    BY <1>1, <2>1 DEF PlanInv
<1>4. QED
  BY <1>2, <1>3

LEMMA LoadHistory == HistoriesOK(load_plans)
<1>1. ASSUME NEW p \in Plans
      PROVE  PlanInv(p, Draft(p)) /\ HistoryOK(Draft(p))
  <2>1. PICK first : first = [actor |-> "agent", from |-> None, to |-> "DRAFTED"]
    OBVIOUS
  <2>2. PICK draft : draft = Draft(p)
    OBVIOUS
  <2>3. /\ draft.log = <<first>> /\ draft.state = "DRAFTED" /\ draft.trigger = Trigger[p]
        /\ draft.armed_by = None /\ draft.armed_trigger_level = None
        /\ draft.armed_signature = None /\ draft.fired_observation = None
        /\ draft.resolution = None /\ draft.resolution_reason = None
    BY <2>1, <2>2 DEF Draft
  <2>4. first \in LogEntry /\ draft \in PlanRecord
    BY <2>1, <2>2, PlanStoreAssumption
    DEF Draft, PlanRecord, TriggerRecord, States, LogEntry, Actors
  <2>5. PlanInv(p, draft)
    BY <2>3, <2>4, PlanStoreAssumption DEF PlanInv
  <2>6. Len(draft.log) = 1 /\ draft.log[1] = first
    BY <2>3
  <2>7. LogOK(draft)
    BY <2>1, <2>3, <2>6 DEF LogOK, ActorOf
  <2>8. ~Logged(draft, "ARMED") /\ ~Logged(draft, "FIRED")
    BY <2>1, <2>6 DEF Logged
  <2>9. MarksOK(draft)
    BY <2>3, <2>8, PlanStoreAssumption DEF MarksOK
  <2>10. ResolutionOK(draft)
    BY <2>3, PlanStoreAssumption DEF ResolutionOK
  <2>11. QED
    BY <2>2, <2>5, <2>7, <2>9, <2>10 DEF HistoryOK
<1>2. ASSUME NEW p \in Plans
      PROVE  HistoryOK(load_plans[p])
  <2>1. CASE p \in PreArmed
    <3>1. Trigger[p].level \in Levels
      BY PlanStoreAssumption
    <3>2. arm(Draft(p), RM, Trigger[p].level).ok
      BY DEF arm, Draft, Allowed, Done
    <3>3. HistoryOK(arm(Draft(p), RM, Trigger[p].level).plan)
      BY <1>1, <3>1, <3>2, ArmRecords DEF Recorded
    <3>4. QED
      BY <2>1, <3>3 DEF load_plans
  <2>2. CASE p \notin PreArmed
    BY <1>1, <2>2 DEF load_plans
  <2>3. QED
    BY <2>1, <2>2
<1>3. QED
  BY <1>2 DEF HistoriesOK

(* What a step does to one plan, unless it starts the session over.        *)
Kept(p)     == plans'[p] = plans[p]
Fired(p)    == /\ Recorded(plans[p], plans'[p], "watcher")
               /\ FiredAt(plans[p], plans'[p], shocked')
DecidedOn(p) == Recorded(plans[p], plans'[p], RM) /\ brent' = brent

\* At most one plan is decided on.
OutcomeFor(d) == \A p \in Plans : Kept(p) \/ Fired(p) \/ (p = d /\ DecidedOn(p))

Outcome == \E d \in Plans : OutcomeFor(d)

LEMMA DialOutcome ==
  ASSUME DeskLogInv, NEW b \in Brents, plans' = sweep(plans, b), shocked' = b
  PROVE  Outcome
<1>1. ASSUME NEW p \in Plans PROVE Kept(p) \/ Fired(p)
  BY SweepRecords DEF DeskLogInv, DeskInv, Kept, Fired
<1>2. OutcomeFor(FirstPlan)
  BY <1>1 DEF OutcomeFor
<1>3. QED
  BY <1>2, DeskAssumption DEF Outcome

(* An operation that goes through, and the sweep behind it.                *)
LEMMA DecisionOutcome ==
  ASSUME DeskLogInv, NEW result, NEW d \in Plans, NEW arming,
         PlanInv(d, result.plan), result.ok \in BOOLEAN,
         result.ok => Recorded(plans[d], result.plan, RM),
         ~result.ok => result.plan = plans[d],
         transition(result, d, arming)
  PROVE  Outcome
<1>1. CASE result.ok
  <2>1. PICK after : after = [plans EXCEPT ![d] = result.plan]
    OBVIOUS
  <2>2. /\ plans' = sweep(after, brent) /\ shocked' = brent /\ brent' = brent
        /\ brent \in Brents
    BY <1>1, <2>1 DEF transition, update_market, DeskLogInv, DeskInv, TypeOK
  <2>3. /\ after[d] = result.plan /\ \A p \in Plans \ {d} : after[p] = plans[p]
        /\ PlansInv(after)
    BY <2>1 DEF PlansInv, PlanInv, DeskLogInv, DeskInv
  <2>4. HistoriesOK(after)
    BY <1>1, <2>3 DEF HistoriesOK, DeskLogInv, Recorded
  <2>5. ASSUME NEW p \in Plans, p # d PROVE Kept(p) \/ Fired(p)
    BY <2>2, <2>3, <2>4, <2>5, SweepRecords DEF Kept, Fired
  <2>6. DecidedOn(d)
    <3>1. PICK final : final = plans'[d]
      OBVIOUS
    <3>2. /\ HistoryOK(final) /\ final \in PlanRecord
          /\ final = result.plan \/ Recorded(result.plan, final, "watcher")
      BY <2>2, <2>3, <2>4, <3>1, SweepRecords
    <3>3. plans[d] \in PlanRecord /\ result.plan \in PlanRecord
      BY DEF DeskLogInv, DeskInv, PlansInv, PlanInv
    <3>4. Recorded(plans[d], result.plan, RM)
      BY <1>1
    <3>5. CASE final = result.plan
      BY <2>2, <3>1, <3>4, <3>5 DEF DecidedOn
    <3>6. CASE Recorded(result.plan, final, "watcher")
      <4>1. Extends(plans[d], final, RM)
        BY <3>2, <3>3, <3>4, <3>6, ExtendsTwice DEF Recorded
      <4>2. FieldsStay(plans[d], final)
        BY <3>4, <3>6 DEF Recorded, FieldsStay
      <4>3. QED
        BY <2>2, <3>1, <3>2, <4>1, <4>2 DEF DecidedOn, Recorded
    <3>7. QED
      BY <3>2, <3>5, <3>6
  <2>7. OutcomeFor(d)
    BY <2>5, <2>6 DEF OutcomeFor
  <2>8. QED
    BY <2>7 DEF Outcome
<1>2. CASE ~result.ok
  <2>1. plans' = plans
    BY <1>2 DEF transition, DeskLogInv, DeskInv, TypeOK
  <2>2. OutcomeFor(d)
    BY <2>1 DEF OutcomeFor, Kept
  <2>3. QED
    BY <2>2 DEF Outcome
<1>3. QED
  BY <1>1, <1>2

LEMMA StepOutcome ==
  ASSUME DeskLogInv, [Next]_vars
  PROVE  Outcome \/ (StartOver /\ plans' = sweep(load_plans, BrentNow))
<1>0. ASSUME NEW p \in Plans PROVE PlanInv(p, plans[p]) /\ HistoryOK(plans[p])
  BY DEF DeskLogInv, DeskInv, PlansInv, HistoriesOK
<1>1. CASE DialStep
  <2>1. PICK b \in Brents : plans' = sweep(plans, b) /\ shocked' = b
    BY <1>1, DeskAssumption DEF DialStep, move_dial, preset, update_market
  <2>2. QED
    BY <2>1, DialOutcome
<1>2. ASSUME NEW p \in Plans, NEW level \in LevelsOf[p], arm_plan(p, level) PROVE Outcome
  <2>1. PICK result : result = arm(plans[p], RM, level)
    OBVIOUS
  <2>2. level \in Levels
    BY DEF Levels
  <2>3. /\ PlanInv(p, result.plan) /\ result.ok \in BOOLEAN
        /\ ~result.ok => result.plan = plans[p]
    BY <1>0, <2>1, <2>2, ArmInv DEF arm, Done, Refused
  <2>4. result.ok => Recorded(plans[p], result.plan, RM)
    BY <1>0, <2>1, <2>2, ArmRecords
  <2>5. transition(result, p, TRUE)
    BY <1>2, <2>1 DEF arm_plan
  <2>6. QED
    BY <2>3, <2>4, <2>5, DecisionOutcome
<1>3. ASSUME NEW p \in Plans, NEW reason \in Reasons, dismiss_plan(p, reason) PROVE Outcome
  <2>1. PICK result : result = dismiss(plans[p], RM, reason)
    OBVIOUS
  <2>2. /\ PlanInv(p, result.plan) /\ result.ok \in BOOLEAN
        /\ ~result.ok => result.plan = plans[p]
    BY <1>0, <2>1, DismissInv DEF dismiss, Done, Refused
  <2>3. result.ok => Recorded(plans[p], result.plan, RM)
    BY <1>0, <2>1, DismissRecords
  <2>4. transition(result, p, FALSE)
    BY <1>3, <2>1 DEF dismiss_plan
  <2>5. QED
    BY <2>2, <2>3, <2>4, DecisionOutcome
<1>4. ASSUME NEW p \in Plans, action_plan(p) PROVE Outcome
  <2>1. PICK result : result = action(plans[p], RM, rank[p])
    OBVIOUS
  <2>2. /\ PlanInv(p, result.plan) /\ result.ok \in BOOLEAN
        /\ ~result.ok => result.plan = plans[p]
    BY <1>0, <2>1, ActionInv DEF action, Done, Refused
  <2>3. result.ok => Recorded(plans[p], result.plan, RM)
    BY <1>0, <2>1, ActionRecords
  <2>4. transition(result, p, FALSE)
    BY <1>4, <2>1 DEF action_plan
  <2>5. QED
    BY <2>2, <2>3, <2>4, DecisionOutcome
<1>5. CASE StartOver
  BY <1>5 DEF StartOver, reset_demo, NewSession, update_market
<1>6. CASE UNCHANGED plans
  <2>1. OutcomeFor(FirstPlan)
    BY <1>6 DEF OutcomeFor, Kept
  <2>2. QED
    BY <2>1, DeskAssumption DEF Outcome
<1>7. QED
  BY <1>1, <1>2, <1>3, <1>4, <1>5, <1>6
  DEF Next, HumanStep, ScreenStep, select_rank, navigate, open_plan, Render, vars

LEMMA LogInvariance == Spec => []DeskLogInv
<1>1. Init => DeskLogInv
  <2>. SUFFICES ASSUME Init PROVE DeskLogInv
    OBVIOUS
  <2>1. HistoriesOK(plans)
    BY LoadInv, LoadHistory, SweepRecords, PlanStoreAssumption DEF Init, HistoriesOK
  <2>2. QED
    BY <2>1, InitInv DEF DeskLogInv
<1>2. DeskLogInv /\ [Next]_vars => DeskLogInv'
  <2>. SUFFICES ASSUME DeskLogInv, [Next]_vars PROVE DeskLogInv'
    OBVIOUS
  <2>1. DeskInv'
    BY NextInv DEF DeskLogInv
  <2>2. ASSUME NEW p \in Plans PROVE HistoryOK(plans'[p])
    <3>1. CASE Outcome
      BY <3>1 DEF Outcome, OutcomeFor, Kept, Fired, DecidedOn, Recorded, DeskLogInv, HistoriesOK
    <3>2. CASE plans' = sweep(load_plans, BrentNow)
      BY <3>2, LoadInv, LoadHistory, SweepRecords, PlanStoreAssumption
    <3>3. QED
      BY <3>1, <3>2, StepOutcome
  <2>3. HistoriesOK(plans')
    BY <2>2 DEF HistoriesOK
  <2>4. QED
    BY <2>1, <2>3 DEF DeskLogInv, HistoriesOK
<1>3. QED
  BY <1>1, <1>2, PTL DEF Spec

-----------------------------------------------------------------------------
(* The decision log of every plan is its history: a path of ALLOWED from   *)
(* the authoring to the state the plan is in, each entry by the one who    *)
(* may make it, and a resolution exactly at a resolved end.                *)
THEOREM LogIsTheHistory == Spec => []DecisionLogIsTheHistory
<1>1. DeskLogInv => DecisionLogIsTheHistory
  <2>. SUFFICES ASSUME DeskLogInv, NEW p \in Plans
                PROVE  LET log == plans[p].log
                       IN  /\ log # << >>
                           /\ log[1].from = None /\ log[1].to = "DRAFTED"
                           /\ log[Len(log)].to = plans[p].state
                           /\ \A i \in 1 .. Len(log) : log[i].actor = ActorOf[log[i].to]
                           /\ \A i \in 2 .. Len(log) : /\ log[i].from = log[i - 1].to
                                                       /\ log[i].to \in Allowed[log[i].from]
                           /\ plans[p].resolution =
                                IF plans[p].state \in {"ACTIONED", "DISMISSED"}
                                THEN plans[p].state ELSE None
                           /\ (plans[p].resolution = None) = (plans[p].resolution_reason = None)
                           /\ plans[p].resolution_reason # BlankReason
    BY DEF DecisionLogIsTheHistory
  <2>1. LogOK(plans[p]) /\ ResolutionOK(plans[p])
    BY DEF DeskLogInv, HistoriesOK, HistoryOK
  <2>2. plans[p].log # << >>
    <3>1. Len(plans[p].log) >= 1
      BY <2>1 DEF LogOK
    <3>2. Len(<< >>) = 0
      OBVIOUS
    <3>3. QED
      BY <3>1, <3>2
  <2>3. QED
    BY <2>1, <2>2 DEF LogOK, ResolutionOK
<1>2. QED
  BY <1>1, LogInvariance, PTL

LEMMA PrefixKept ==
  ASSUME NEW before \in PlanRecord, NEW after \in PlanRecord, NEW actor,
         Extends(before, after, actor)
  PROVE  SubSeq(after.log, 1, Len(before.log)) = before.log
<1>. DEFINE n == Len(before.log)
            s == SubSeq(after.log, 1, n)
<1>1. /\ before.log \in Seq(LogEntry) /\ after.log \in Seq(LogEntry)
      /\ n \in Nat /\ Len(after.log) \in Nat /\ n < Len(after.log)
  BY DEF PlanRecord, Extends
<1>2. \A i \in 1 .. n : after.log[i] = before.log[i] /\ after.log[i] \in LogEntry
  BY <1>1 DEF Extends
<1>3. s \in Seq(LogEntry) /\ Len(s) = n /\ \A i \in 1 .. n : s[i] = after.log[i]
  BY <1>1, <1>2, SubSeqProperties
<1>. HIDE DEF s
<1>4. QED
  BY <1>1, <1>2, <1>3, SeqEqual DEF s

(* The log is append-only and nothing is edited in place: for any number   *)
(* of plans, and whatever a late click asks for, a step adds entries at    *)
(* the end and writes fields that were empty, until the session starts     *)
(* over.                                                                   *)
THEOREM NothingIsRewritten == Spec => RecordsOnlyGrow
<1>1. DeskLogInv /\ DeskLogInv' /\ [Next]_vars =>
        [StartOver \/ \A p \in Plans : Grows(plans[p], plans'[p])]_vars
  <2>. SUFFICES ASSUME DeskLogInv, DeskLogInv', Outcome, NEW p \in Plans
                PROVE  Grows(plans[p], plans'[p])
    BY StepOutcome
  <2>1. plans[p] \in PlanRecord /\ plans'[p] \in PlanRecord
    BY DEF DeskLogInv, DeskInv, TypeOK
  <2>2. CASE Kept(p)
    BY <2>1, <2>2, SubSeqFull DEF Kept, Grows, PlanRecord
  <2>3. ASSUME NEW actor, Recorded(plans[p], plans'[p], actor)
        PROVE  Grows(plans[p], plans'[p])
    <3>1. FieldsStay(plans[p], plans'[p]) /\ Extends(plans[p], plans'[p], actor)
      BY <2>3 DEF Recorded
    <3>2. SubSeq(plans'[p].log, 1, Len(plans[p].log)) = plans[p].log
      BY <2>1, <3>1, PrefixKept
    <3>3. Len(plans[p].log) <= Len(plans'[p].log)
      BY <2>1, <3>1 DEF Extends, PlanRecord
    <3>4. \A field \in {"armed_by", "armed_trigger_level", "armed_signature",
                        "fired_observation", "resolution", "resolution_reason"} :
            plans[p][field] # None => plans'[p][field] = plans[p][field]
      BY <2>1, <3>1 DEF FieldsStay, PlanRecord
    <3>5. QED
      BY <3>2, <3>3, <3>4 DEF Grows
  <2>4. QED
    BY <2>2, <2>3 DEF Outcome, OutcomeFor, Fired, DecidedOn
<1>2. QED
  BY <1>1, LogInvariance, PTL DEF Spec, RecordsOnlyGrow

(* A callback carries at most one decision, on one plan: every other plan  *)
(* it touches was watching, and fires at the market of that moment.        *)
THEOREM OneDecisionPerClick == Spec => OneDecisionAtATime
<1>. DEFINE OneDecision ==
       /\ \A p \in Plans : \/ plans'[p] = plans[p]
                           \/ FiredAt(plans[p], plans'[p], shocked')
                           \/ Decided(plans[p], plans'[p]) /\ brent' = brent
       /\ \A p, q \in Plans :
            Decided(plans[p], plans'[p]) /\ Decided(plans[q], plans'[q]) => p = q
<1>1. DeskLogInv /\ [Next]_vars => [StartOver \/ OneDecision]_vars
  <2>. SUFFICES ASSUME DeskLogInv, Outcome
                PROVE  OneDecision
    BY StepOutcome
  <2>1. PICK d \in Plans : OutcomeFor(d)
    BY DEF Outcome
  <2>2. ASSUME NEW p \in Plans PROVE Len(plans[p].log) \in Nat
    BY DEF DeskLogInv, DeskInv, TypeOK, PlanRecord
  <2>3. ASSUME NEW p \in Plans, Kept(p) PROVE ~Decided(plans[p], plans'[p])
    BY <2>2, <2>3 DEF Kept, Decided
  <2>4. ASSUME NEW p \in Plans, Fired(p) PROVE ~Decided(plans[p], plans'[p])
    BY <2>4, NamesAssumption DEF Fired, Recorded, Extends, Decided
  <2>5. ASSUME NEW p \in Plans, DecidedOn(p) PROVE Decided(plans[p], plans'[p]) /\ brent' = brent
    BY <2>2, <2>5 DEF DecidedOn, Recorded, Extends, Decided
  <2>6. \A p \in Plans : Decided(plans[p], plans'[p]) => p = d
    BY <2>1, <2>3, <2>4 DEF OutcomeFor
  <2>7. \A p \in Plans : \/ plans'[p] = plans[p]
                         \/ FiredAt(plans[p], plans'[p], shocked')
                         \/ Decided(plans[p], plans'[p]) /\ brent' = brent
    BY <2>1, <2>5 DEF OutcomeFor, Kept, Fired
  <2>8. QED
    BY <2>6, <2>7
<1>2. QED
  BY <1>1, LogInvariance, PTL DEF Spec, OneDecisionAtATime

-----------------------------------------------------------------------------
(* The cards.                                                              *)

(* A trigger that is not hit has its level on the safe side of what it     *)
(* watches, whichever variable and operator it has.                        *)
LEMMA SafeSide ==
  ASSUME NEW p \in Plans, NEW level \in Levels, NEW b \in Brents,
         ~Hit(Trigger[p], Collateral[p], level, b)
  PROVE  IF Trigger[p].operator \in {">", ">="}
         THEN LevelAlike(p, level, b) - Observed(p, b) >= 0
         ELSE LevelAlike(p, level, b) - Observed(p, b) <= 0
<1>1. /\ Trigger[p].variable \in Variables /\ Trigger[p].operator \in Operators
      /\ Collateral[p] \in Facility /\ level \in Int /\ b \in Int /\ BrentNow \in Int
  <2>1. /\ Trigger[p] \in [variable : Variables, operator : Operators, level : Levels]
        /\ Collateral[p] \in Facility
    BY PlanStoreAssumption
  <2>2. level \in Int /\ b \in Int /\ BrentNow \in Int
    <3>1. Levels \subseteq Int /\ Brents \subseteq Nat
      BY CardAssumption
    <3>2. QED
      BY <3>1, BrentNowAssumption
  <2>3. QED
    BY <2>1, <2>2
<1>2. /\ LendingValue(Collateral[p], b) \in Int /\ DrawnPercent(Collateral[p]) \in Int
      /\ Headroom(Collateral[p], b) \in Int
  <2>1. /\ Collateral[p].lending \in Int /\ Collateral[p].C \in Int
        /\ Collateral[p].drawn \in Int /\ Collateral[p].trigger_ltv \in Int
    BY <1>1 DEF Facility
  <2>2. LendingValue(Collateral[p], b) \in Int
    BY <1>1, <2>1 DEF LendingValue
  <2>3. DrawnPercent(Collateral[p]) \in Int
    BY <1>1, <2>1 DEF DrawnPercent
  <2>4. QED
    BY <2>1, <2>2, <2>3 DEF Headroom
<1>3. /\ Observed(p, b) \in Int /\ LevelAlike(p, level, b) \in Int
      /\ ~Compare(Trigger[p].operator, Observed(p, b), LevelAlike(p, level, b))
  <2>1. CASE Trigger[p].variable = "BRENT"
    BY <1>1, <2>1 DEF Observed, LevelAlike, Hit
  <2>2. CASE Trigger[p].variable = "LTV"
    <3>1. /\ Observed(p, b) = DrawnPercent(Collateral[p])
          /\ LevelAlike(p, level, b) = level * LendingValue(Collateral[p], b)
      BY <2>2 DEF Observed, LevelAlike
    <3>2. level * LendingValue(Collateral[p], b) \in Int
      BY <1>1, <1>2
    <3>3. QED
      BY <1>2, <2>2, <3>1, <3>2 DEF Hit
  <2>3. CASE Trigger[p].variable = "HEADROOM"
    <3>1. /\ Observed(p, b) = Headroom(Collateral[p], b)
          /\ LevelAlike(p, level, b) = level * 100 * BrentNow
      BY <2>3 DEF Observed, LevelAlike
    <3>2. level * 100 * BrentNow \in Int
      BY <1>1
    <3>3. QED
      BY <1>2, <2>3, <3>1, <3>2 DEF Hit
  <2>4. QED
    BY <1>1, <2>1, <2>2, <2>3 DEF Variables
<1>4. PICK x \in Int, y \in Int : x = Observed(p, b) /\ y = LevelAlike(p, level, b)
  BY <1>3
<1>5. IF Trigger[p].operator \in {">", ">="} THEN y - x >= 0 ELSE y - x <= 0
  BY <1>1, <1>3, <1>4 DEF Compare, Operators
<1>6. QED
  BY <1>4, <1>5

CardOK(p, o, card) ==
  /\ Signature(p) = IF Reached(p, "ARMED") THEN "signature verified" ELSE "Not armed"
  /\ Reached(p, "ARMED") => card.level = plans[p].armed_trigger_level
  /\ Column(p) = "Armed and watching" =>
       /\ card.head = "signature verified" /\ card.band = None
       /\ ~o.hit
       /\ o.distance # None /\ o.distance.den > 0 =>
            IF Trigger[p].operator \in {">", ">="} THEN o.distance.num >= 0 ELSE o.distance.num <= 0
  /\ Reached(p, "FIRED") <=> card.band # None
  /\ Column(p) = "Fired" => card.band # None
  /\ card.band # None =>
       /\ card.band.armed = card.level /\ card.band.drafted = Trigger[p].level
       /\ Hit(Trigger[p], Collateral[p], card.level, card.band.observed)

(* A plan's card tells the story of its log: the badge is the arming's     *)
(* entry, the fired band is the firing's, and the distance of a plan that  *)
(* watches is on the safe side of its trigger.                             *)
THEOREM CardsTellTheLog == Spec => []CardTellsTheLog
<1>1. DeskLogInv => CardTellsTheLog
  <2>. SUFFICES ASSUME DeskLogInv, NEW p \in Plans
                PROVE  CardOK(p, observation(p), Card(p))
    BY DEF CardTellsTheLog, CardOK
  <2>0. PICK o, card : o = observation(p) /\ card = Card(p)
    OBVIOUS
  <2>1. PICK plan : plan = plans[p]
    OBVIOUS
  <2>2. /\ PlanInv(p, plan) /\ MarksOK(plan) /\ plan \in PlanRecord
        /\ shocked \in Brents /\ NoMissedTrigger
    BY <2>1 DEF DeskLogInv, DeskInv, PlansInv, PlanInv, HistoriesOK, HistoryOK, TypeOK
  <2>3. DOMAIN plan.log = 1 .. Len(plan.log)
    BY <2>2 DEF PlanRecord
  <2>4. /\ Reached(p, "ARMED") <=> plan.armed_by = RM
        /\ Reached(p, "FIRED") <=> plan.fired_observation # None
    BY <2>1, <2>2, <2>3 DEF MarksOK, Logged, Reached
  <2>5. /\ plan.armed_by = RM  => verify_signature(plan) = TRUE
        /\ plan.armed_by # RM => verify_signature(plan) = None
    BY <2>2, PlanStoreAssumption DEF PlanInv, MarksOK, verify_signature, signature
  <2>6. Signature(p) = IF Reached(p, "ARMED") THEN "signature verified" ELSE "Not armed"
    BY <2>1, <2>4, <2>5, CardAssumption DEF Signature
  <2>7. /\ plan.armed_by = RM => EffectiveLevel(plan) = plan.armed_trigger_level
        /\ EffectiveLevel(plan) \in Levels
    <3>1. plan.trigger.level \in Levels
      BY <2>2 DEF PlanInv, PlanRecord, TriggerRecord
    <3>2. QED
      BY <2>2, <3>1, PlanStoreAssumption DEF PlanInv, PlanRecord, EffectiveLevel
  <2>8. card.level = EffectiveLevel(plan)
    BY <2>0, <2>1 DEF Card, observation
  <2>9. PICK comparison : comparison = armed_vs_now(plan)
    OBVIOUS
  <2>10. CASE plan.fired_observation = None
    <3>1. card.band = None
      BY <2>0, <2>1, <2>10 DEF Card, FiredBand, armed_vs_now
    <3>2. Column(p) # "Fired"
      BY <2>1, <2>2, <2>10 DEF PlanInv, PlanRecord, States, Column
    <3>3. ASSUME Column(p) = "Armed and watching"
          PROVE  /\ card.head = "signature verified" /\ ~o.hit
                 /\ o.distance # None /\ o.distance.den > 0 =>
                      IF Trigger[p].operator \in {">", ">="}
                      THEN o.distance.num >= 0 ELSE o.distance.num <= 0
      <4>1. plan.state = "WATCHING" /\ plan.armed_by = RM /\ plan.trigger = Trigger[p]
        BY <2>1, <2>2, <3>3 DEF PlanInv, PlanRecord, States, Column
      <4>2. card.head = "signature verified"
        BY <2>0, <2>1, <2>4, <2>6, <4>1 DEF Card
      <4>3. ~Holds(p, plan, shocked)
        BY <2>1, <2>2, <4>1 DEF NoMissedTrigger
      <4>4. ~o.hit
        BY <2>0, <2>1, <4>3 DEF observation
      <4>5. PICK level \in Levels : level = EffectiveLevel(plan)
        BY <2>7
      <4>6. ~Hit(Trigger[p], Collateral[p], level, shocked)
        BY <4>1, <4>3, <4>5 DEF Holds
      <4>7. o.distance = Distance(p, level, shocked)
        BY <2>0, <2>1, <4>5 DEF observation
      <4>8. ASSUME o.distance # None
            PROVE  o.distance.num = LevelAlike(p, level, shocked) - Observed(p, shocked)
        BY <4>7, <4>8 DEF Distance
      <4>9. QED
        BY <2>2, <4>2, <4>4, <4>6, <4>8, SafeSide
    <3>4. CardOK(p, o, card)
      BY <2>1, <2>4, <2>6, <2>7, <2>8, <2>10, <3>1, <3>2, <3>3 DEF CardOK
    <3>5. QED
      BY <2>0, <3>4
  <2>11. CASE plan.fired_observation # None
    <3>1. /\ plan.state \in {"FIRED", "ACTIONED", "DISMISSED"}
          /\ plan.armed_by = RM /\ plan.armed_trigger_level \in Levels
          /\ plan.trigger = Trigger[p] /\ plan.fired_observation.brent \in Brents
          /\ Hit(Trigger[p], Collateral[p], plan.armed_trigger_level, plan.fired_observation.brent)
      BY <2>2, <2>11 DEF PlanInv, PlanRecord, States
    <3>2. comparison = [armed_by |-> plan.armed_by, armed_level |-> plan.armed_trigger_level,
                        signature_ok |-> TRUE, observed |-> plan.fired_observation.brent]
      BY <2>5, <2>9, <2>11, <3>1 DEF armed_vs_now
    <3>3. comparison \in [armed_by : {RM, None}, armed_level : Levels \cup {None},
                          signature_ok : BOOLEAN \cup {None}, observed : Brents]
      BY <3>1, <3>2
    <3>4. comparison # None
      BY <3>3, CardAssumption
    <3>5. card.band = [drafted |-> Trigger[p].level, armed |-> plan.armed_trigger_level,
                       observed |-> plan.fired_observation.brent,
                       signature |-> "signature verified"]
      <4>1. Signature(p) = "signature verified"
        BY <2>4, <2>6, <3>1
      <4>2. comparison.armed_level = plan.armed_trigger_level
            /\ comparison.observed = plan.fired_observation.brent
        BY <3>2
      <4>3. QED
        BY <2>0, <2>1, <2>9, <3>4, <4>1, <4>2 DEF Card, FiredBand
    <3>6. Trigger[p].level \in Levels
      BY PlanStoreAssumption
    <3>7. [drafted |-> Trigger[p].level, armed |-> plan.armed_trigger_level,
           observed |-> plan.fired_observation.brent, signature |-> "signature verified"]
            \in [drafted : Levels, armed : Levels \cup {None}, observed : Brents,
                 signature : {"Not armed", "signature verified", "SIGNATURE MISMATCH"}]
      BY <3>1, <3>6
    <3>8. card.band # None
      BY <3>5, <3>7, CardAssumption
    <3>9. /\ card.band.drafted = Trigger[p].level
          /\ card.band.armed = plan.armed_trigger_level
          /\ card.band.observed = plan.fired_observation.brent
      <4>1. PICK band : band = card.band
        OBVIOUS
      <4>2. PICK market : market = plan.fired_observation.brent
        OBVIOUS
      <4>3. band = [drafted |-> Trigger[p].level, armed |-> plan.armed_trigger_level,
                    observed |-> market, signature |-> "signature verified"]
        BY <3>5, <4>1, <4>2
      <4>4. /\ band.drafted = Trigger[p].level /\ band.armed = plan.armed_trigger_level
            /\ band.observed = market
        BY <4>3
      <4>5. QED
        BY <4>1, <4>2, <4>4
    <3>10. Column(p) # "Armed and watching"
      BY <2>1, <3>1 DEF Column
    <3>11. CardOK(p, o, card)
      BY <2>1, <2>4, <2>6, <2>7, <2>8, <2>11, <3>1, <3>8, <3>9, <3>10 DEF CardOK
    <3>12. QED
      BY <2>0, <3>11
  <2>12. QED
    BY <2>10, <2>11
<1>2. QED
  BY <1>1, LogInvariance, PTL
=============================================================================
