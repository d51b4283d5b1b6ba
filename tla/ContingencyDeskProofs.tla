------------------------ MODULE ContingencyDeskProofs ------------------------
(***************************************************************************)
(* Theorems of the desk, for every set of plans, triggers, dial levels and *)
(* reasons.  The arithmetic of Engine is opaque here: what is proved holds *)
(* whatever Hit decides.                                                   *)
(***************************************************************************)
EXTENDS ContingencyDesk, TLAPS

(* What is true of one plan between two callbacks.  The stages and the     *)
(* fields move together: a draft carries no arming record, a plan that     *)
(* watches or fired carries a whole one, over the body it still has, and   *)
(* an observation satisfied the trigger at the level of that record.       *)
PlanInv(p, plan) ==
  /\ plan \in PlanRecord
  /\ plan.trigger = Trigger[p]
  /\ plan.state # "ARMED"
  /\ plan.state = "DRAFTED" => /\ plan.armed_by = None
                               /\ plan.armed_trigger_level = None
                               /\ plan.armed_signature = None
  /\ plan.state \in {"WATCHING", "FIRED", "ACTIONED"} => plan.armed_by = RM
  /\ plan.armed_by = RM => /\ plan.armed_trigger_level \in Levels
                           /\ plan.armed_signature = plan.trigger
  /\ plan.state \in {"DRAFTED", "WATCHING"} => plan.fired_observation = None
  /\ plan.state \in {"FIRED", "ACTIONED"} => plan.fired_observation # None
  /\ plan.fired_observation # None =>
       /\ plan.armed_by = RM
       /\ Hit(plan.trigger, Collateral[p], plan.armed_trigger_level,
              plan.fired_observation.brent)

PlansInv(ps) == ps \in [Plans -> PlanRecord] /\ \A p \in Plans : PlanInv(p, ps[p])

\* The inductive invariant: TypeOK, the plans, and the sweep's result.
DeskInv == TypeOK /\ PlansInv(plans) /\ NoMissedTrigger

-----------------------------------------------------------------------------
(* Operations of the store.                                                *)

\* The fields a transition leaves alone.
SameBut(a, b) ==
  /\ a.trigger = b.trigger
  /\ a.armed_by = b.armed_by
  /\ a.armed_trigger_level = b.armed_trigger_level
  /\ a.armed_signature = b.armed_signature
  /\ a.fired_observation = b.fired_observation
  /\ a.resolution = b.resolution
  /\ a.resolution_reason = b.resolution_reason

LEMMA TransitionType ==
  ASSUME NEW plan \in PlanRecord, NEW to \in States, NEW actor \in Actors
  PROVE  /\ Transition(plan, to, actor) \in PlanRecord
         /\ Transition(plan, to, actor).state = to
         /\ SameBut(Transition(plan, to, actor), plan)
<1>1. [actor |-> actor, from |-> plan.state, to |-> to] \in LogEntry
  BY DEF LogEntry, PlanRecord
<1>2. Append(plan.log, [actor |-> actor, from |-> plan.state, to |-> to]) \in Seq(LogEntry)
  BY <1>1 DEF PlanRecord
<1>3. QED
  BY <1>2 DEF Transition, PlanRecord, SameBut

LEMMA ArmInv ==
  ASSUME NEW p \in Plans, NEW plan, PlanInv(p, plan), NEW level \in Levels
  PROVE  PlanInv(p, arm(plan, RM, level).plan)
<1>. DEFINE signed == [plan EXCEPT !.armed_by = RM,
                                   !.armed_trigger_level = level,
                                   !.armed_signature = signature(plan)]
            armed  == Transition(signed, "ARMED", RM)
            done   == Transition(armed, "WATCHING", "system")
<1>1. CASE "ARMED" \notin Allowed[plan.state]
  BY <1>1 DEF arm, Refused
<1>2. CASE "ARMED" \in Allowed[plan.state]
  <2>1. plan.state = "DRAFTED"
    BY <1>2 DEF Allowed, PlanInv, PlanRecord, States
  <2>2. signed \in PlanRecord
    BY DEF PlanInv, PlanRecord, signature
  <2>3. armed \in PlanRecord /\ done \in PlanRecord
    BY <2>2, TransitionType DEF States, Actors
  <2>4. done.state = "WATCHING" /\ SameBut(done, signed)
    <3>1. SameBut(armed, signed)
      BY <2>2, TransitionType DEF States, Actors
    <3>2. done.state = "WATCHING" /\ SameBut(done, armed)
      BY <2>3, TransitionType DEF States, Actors
    <3>3. QED
      BY <3>1, <3>2 DEF SameBut
  <2>5. arm(plan, RM, level).plan = done
    BY <1>2 DEF arm, Done
  <2>. HIDE DEF done
  <2>6. QED
    BY <2>1, <2>2, <2>3, <2>4, <2>5 DEF PlanInv, SameBut, signature, PlanRecord
<1>3. QED
  BY <1>1, <1>2

LEMMA DismissInv ==
  ASSUME NEW p \in Plans, NEW plan, PlanInv(p, plan), NEW reason \in Reasons
  PROVE  PlanInv(p, dismiss(plan, RM, reason).plan)
<1>. DEFINE resolved == [plan EXCEPT !.resolution = "DISMISSED",
                                     !.resolution_reason = reason]
            done     == Transition(resolved, "DISMISSED", RM)
<1>1. resolved \in PlanRecord
  BY DEF PlanInv, PlanRecord
<1>2. done \in PlanRecord /\ done.state = "DISMISSED" /\ SameBut(done, resolved)
  BY <1>1, TransitionType DEF States, Actors
<1>3. dismiss(plan, RM, reason).plan \in {plan, done}
  BY DEF dismiss, Done, Refused
<1>. HIDE DEF done
<1>4. PlanInv(p, done)
  BY <1>1, <1>2 DEF PlanInv, SameBut, PlanRecord
<1>5. QED
  BY <1>3, <1>4

LEMMA ActionInv ==
  ASSUME NEW p \in Plans, NEW plan, PlanInv(p, plan), NEW r
  PROVE  PlanInv(p, action(plan, RM, r).plan)
<1>. DEFINE resolved == [plan EXCEPT !.resolution = "ACTIONED", !.resolution_reason = r]
            done     == Transition(resolved, "ACTIONED", RM)
<1>1. CASE ~(r \in Ranks /\ "ACTIONED" \in Allowed[plan.state])
  BY <1>1 DEF action, Refused
<1>2. CASE r \in Ranks /\ "ACTIONED" \in Allowed[plan.state]
  <2>1. plan.state = "FIRED"
    BY <1>2 DEF Allowed, PlanInv, PlanRecord, States
  <2>2. resolved \in PlanRecord
    BY <1>2 DEF PlanInv, PlanRecord
  <2>3. done \in PlanRecord /\ done.state = "ACTIONED" /\ SameBut(done, resolved)
    BY <2>2, TransitionType DEF States, Actors
  <2>4. action(plan, RM, r).plan = done
    BY <1>2 DEF action, Done
  <2>. HIDE DEF done
  <2>5. QED
    BY <2>1, <2>2, <2>3, <2>4 DEF PlanInv, SameBut, PlanRecord
<1>3. QED
  BY <1>1, <1>2

LEMMA FireInv ==
  ASSUME NEW p \in Plans, NEW plan, PlanInv(p, plan), NEW b \in Brents,
         plan.state = "WATCHING", Holds(p, plan, b)
  PROVE  LET done == fire(plan, [level |-> EffectiveLevel(plan), brent |-> b])
         IN  PlanInv(p, done) /\ done.state = "FIRED"
<1>. DEFINE seen  == [level |-> EffectiveLevel(plan), brent |-> b]
            fired == [plan EXCEPT !.fired_observation = seen]
            done  == Transition(fired, "FIRED", "watcher")
<1>1. plan.armed_by = RM /\ plan.armed_trigger_level \in Levels
  BY DEF PlanInv
<1>2. EffectiveLevel(plan) = plan.armed_trigger_level
  BY <1>1, PlanStoreAssumption DEF EffectiveLevel
<1>3. seen \in [level : Levels, brent : Brents] /\ seen # None
  BY <1>1, <1>2, PlanStoreAssumption
<1>4. fired \in PlanRecord
  BY <1>3 DEF PlanInv, PlanRecord
<1>5. done \in PlanRecord /\ done.state = "FIRED" /\ SameBut(done, fired)
  BY <1>4, TransitionType DEF States, Actors
<1>6. Hit(plan.trigger, Collateral[p], plan.armed_trigger_level, b)
  BY <1>2 DEF Holds
<1>7. done.fired_observation = seen
  BY <1>5 DEF SameBut, PlanInv, PlanRecord
<1>8. fire(plan, seen) = done
  BY DEF fire
<1>. HIDE DEF done, fired
<1>9. PlanInv(p, done)
  <2>1. /\ done.trigger = plan.trigger /\ done.armed_by = RM
        /\ done.armed_trigger_level = plan.armed_trigger_level
        /\ done.armed_signature = plan.armed_signature
    BY <1>1, <1>5 DEF SameBut, fired, PlanInv, PlanRecord
  <2>2. done.fired_observation.brent = b /\ done.fired_observation # None
    BY <1>3, <1>7
  <2>3. QED
    BY <1>1, <1>5, <1>6, <2>1, <2>2 DEF PlanInv
<1>10. QED
  BY <1>5, <1>8, <1>9

(* sweep() keeps the plans' invariant, and leaves no plan watching whose   *)
(* trigger holds: the plan it left alone is the plan it evaluated.         *)
LEMMA SweepInv ==
  ASSUME NEW ps, PlansInv(ps), NEW b \in Brents
  PROVE  /\ PlansInv(sweep(ps, b))
         /\ \A p \in Plans : sweep(ps, b)[p].state = "WATCHING" => ~Holds(p, sweep(ps, b)[p], b)
<1>1. ASSUME NEW p \in Plans
      PROVE  /\ PlanInv(p, sweep(ps, b)[p])
             /\ sweep(ps, b)[p].state = "WATCHING" => ~Holds(p, sweep(ps, b)[p], b)
  <2>1. PlanInv(p, ps[p])
    BY DEF PlansInv
  <2>2. CASE ps[p].state = "WATCHING" /\ Holds(p, ps[p], b)
    <3>1. sweep(ps, b)[p] = fire(ps[p], [level |-> EffectiveLevel(ps[p]), brent |-> b])
      BY <2>2 DEF sweep
    <3>2. QED
      BY <2>1, <2>2, <3>1, FireInv
  <2>3. CASE ~(ps[p].state = "WATCHING" /\ Holds(p, ps[p], b))
    <3>1. sweep(ps, b)[p] = ps[p]
      BY <2>3 DEF sweep
    <3>2. QED
      BY <2>1, <2>3, <3>1
  <2>4. QED
    BY <2>2, <2>3
<1>2. sweep(ps, b) = [p \in Plans |-> sweep(ps, b)[p]]
  BY DEF sweep
<1>3. \A p \in Plans : sweep(ps, b)[p] \in PlanRecord
  BY <1>1 DEF PlanInv
<1>4. QED
  BY <1>1, <1>2, <1>3 DEF PlansInv

LEMMA LoadInv == PlansInv(load_plans)
<1>1. ASSUME NEW p \in Plans
      PROVE  PlanInv(p, Draft(p))
  <2>1. [actor |-> "agent", from |-> None, to |-> "DRAFTED"] \in LogEntry
    BY DEF LogEntry, Actors, States
  <2>2. Draft(p) \in PlanRecord
    BY <2>1, PlanStoreAssumption DEF Draft, PlanRecord, TriggerRecord, States
  <2>3. QED
    BY <2>2, PlanStoreAssumption DEF PlanInv, Draft
<1>2. ASSUME NEW p \in Plans
      PROVE  PlanInv(p, arm(Draft(p), RM, Trigger[p].level).plan)
  <2>1. Trigger[p].level \in Levels
    BY PlanStoreAssumption
  <2>2. QED
    BY <1>1, <2>1, ArmInv
<1>3. ASSUME NEW p \in Plans
      PROVE  PlanInv(p, load_plans[p])
  BY <1>1, <1>2 DEF load_plans
<1>4. load_plans = [p \in Plans |-> load_plans[p]]
  BY DEF load_plans
<1>5. \A p \in Plans : load_plans[p] \in PlanRecord
  BY <1>3 DEF PlanInv
<1>6. QED
  BY <1>3, <1>4, <1>5 DEF PlansInv

-----------------------------------------------------------------------------
(* Callbacks of the desk.                                                  *)

LEMMA UpdateMarketInv ==
  ASSUME NEW ps, PlansInv(ps), NEW b \in Brents, update_market(ps, b), brent' = b
  PROVE  /\ PlansInv(plans)' /\ NoMissedTrigger'
         /\ shocked' \in Brents
<1>1. plans' = sweep(ps, b) /\ shocked' = b
  BY DEF update_market
<1>2. PlansInv(plans') /\ \A p \in Plans : plans'[p].state = "WATCHING" => ~Holds(p, plans'[p], b)
  BY <1>1, SweepInv
<1>3. QED
  BY <1>1, <1>2 DEF NoMissedTrigger, PlansInv

(* A decision: transition() on the result of an operation that keeps the   *)
(* plan's invariant, and that hands the plan back when it is refused.      *)
LEMMA TransitionInv ==
  ASSUME DeskInv, NEW result, NEW p \in Plans, NEW arming \in BOOLEAN,
         PlanInv(p, result.plan), result.ok \in BOOLEAN,
         ~result.ok => result.plan = plans[p],
         transition(result, p, arming)
  PROVE  DeskInv'
<1>. DEFINE after == [plans EXCEPT ![p] = result.plan]
<1>1. PlansInv(after)
  BY DEF PlansInv, PlanInv, DeskInv
<1>2. UNCHANGED <<brent, selected, rank, view>>
  BY DEF transition
<1>3. CASE result.ok
  <2>1. update_market(after, brent)
    BY <1>3 DEF transition
  <2>2. PlansInv(plans)' /\ NoMissedTrigger' /\ shocked' \in Brents
    BY <1>1, <1>2, <2>1, UpdateMarketInv DEF DeskInv, TypeOK
  <2>3. screen' \in Screens /\ error' \in BOOLEAN
    BY <1>3 DEF transition, DeskInv, TypeOK, Screens
  <2>4. QED
    BY <1>2, <2>2, <2>3 DEF DeskInv, TypeOK, PlansInv
<1>4. CASE ~result.ok
  <2>1. after = plans
    BY <1>4 DEF DeskInv, TypeOK
  <2>2. plans' = plans /\ error' = TRUE /\ UNCHANGED <<shocked, screen>>
    BY <1>4, <2>1 DEF transition
  <2>3. QED
    BY <1>2, <2>2 DEF DeskInv, TypeOK, PlansInv, NoMissedTrigger
<1>5. QED
  BY <1>3, <1>4

LEMMA InitInv == Init => DeskInv
<1>. SUFFICES ASSUME Init PROVE DeskInv
  OBVIOUS
<1>1. PlansInv(plans) /\ NoMissedTrigger
  BY LoadInv, SweepInv, PlanStoreAssumption DEF Init, NoMissedTrigger
<1>2. TypeOK
  BY <1>1, PlanStoreAssumption, DeskAssumption DEF Init, TypeOK, PlansInv, Screens, Rendered
<1>3. QED
  BY <1>1, <1>2 DEF DeskInv

LEMMA NextInv == DeskInv /\ [Next]_vars => DeskInv'
<1>. SUFFICES ASSUME DeskInv, [Next]_vars PROVE DeskInv'
  OBVIOUS
<1>. USE PlanStoreAssumption, DeskAssumption
<1>1. ASSUME NEW b \in Brents, move_dial(b) PROVE DeskInv'
  <2>1. PlansInv(plans)' /\ NoMissedTrigger' /\ shocked' \in Brents
    BY <1>1, UpdateMarketInv DEF move_dial, DeskInv
  <2>2. QED
    BY <1>1, <2>1 DEF move_dial, DeskInv, TypeOK, PlansInv
<1>2. ASSUME NEW b \in Presets, preset(b) PROVE DeskInv'
  <2>1. PlansInv(plans)' /\ NoMissedTrigger' /\ shocked' \in Brents
    BY <1>2, UpdateMarketInv DEF preset, DeskInv
  <2>2. QED
    BY <1>2, <2>1 DEF preset, DeskInv, TypeOK, PlansInv, Screens
<1>3. ASSUME NEW p \in Plans, NEW level \in LevelsOf[p], arm_plan(p, level) PROVE DeskInv'
  <2>1. PlanInv(p, plans[p]) /\ level \in Levels
    BY DEF DeskInv, PlansInv, Levels
  <2>2. PlanInv(p, arm(plans[p], RM, level).plan)
    BY <2>1, ArmInv
  <2>3. arm(plans[p], RM, level).ok \in BOOLEAN
        /\ (~arm(plans[p], RM, level).ok => arm(plans[p], RM, level).plan = plans[p])
    BY DEF arm, Done, Refused
  <2>4. QED
    BY <1>3, <2>2, <2>3, TransitionInv DEF arm_plan
<1>4. ASSUME NEW p \in Plans, NEW reason \in Reasons, dismiss_plan(p, reason) PROVE DeskInv'
  <2>1. PlanInv(p, dismiss(plans[p], RM, reason).plan)
    BY DismissInv DEF DeskInv, PlansInv
  <2>2. dismiss(plans[p], RM, reason).ok \in BOOLEAN
        /\ (~dismiss(plans[p], RM, reason).ok => dismiss(plans[p], RM, reason).plan = plans[p])
    BY DEF dismiss, Done, Refused
  <2>3. QED
    BY <1>4, <2>1, <2>2, TransitionInv DEF dismiss_plan
<1>5. ASSUME NEW p \in Plans, action_plan(p) PROVE DeskInv'
  <2>1. PlanInv(p, action(plans[p], RM, rank[p]).plan)
    BY ActionInv DEF DeskInv, PlansInv
  <2>2. action(plans[p], RM, rank[p]).ok \in BOOLEAN
        /\ (~action(plans[p], RM, rank[p]).ok => action(plans[p], RM, rank[p]).plan = plans[p])
    BY DEF action, Done, Refused
  <2>3. QED
    BY <1>5, <2>1, <2>2, TransitionInv DEF action_plan
<1>6. ASSUME NEW p \in Plans, NEW r \in Ranks, select_rank(p, r) PROVE DeskInv'
  BY <1>6 DEF select_rank, DeskInv, TypeOK, PlansInv, NoMissedTrigger
<1>7. ASSUME NEW scr \in Screens, navigate(scr) PROVE DeskInv'
  BY <1>7 DEF navigate, DeskInv, TypeOK, PlansInv, NoMissedTrigger
<1>8. ASSUME NEW p \in Plans, open_plan(p) PROVE DeskInv'
  BY <1>8 DEF open_plan, DeskInv, TypeOK, PlansInv, NoMissedTrigger, Screens
<1>9. CASE Render
  <2>1. plans[selected].state \in States
    BY DEF DeskInv, TypeOK, PlanRecord
  <2>2. CurrentView \in [screen : Screens, plan : Plans \cup {None}, state : States \cup {None}]
    BY <2>1 DEF CurrentView, Rendered, DeskInv, TypeOK
  <2>3. rank' \in [Plans -> Ranks \cup {None}]
    BY <1>9 DEF Render, DeskInv, TypeOK
  <2>4. QED
    BY <1>9, <2>2, <2>3 DEF Render, DeskInv, TypeOK, PlansInv, NoMissedTrigger
<1>10. ASSUME brent' = BrentNow, update_market(load_plans, BrentNow),
              selected' = FirstPlan, rank' = [p \in Plans |-> None], error' = FALSE,
              screen' \in Screens,
              view' \in [screen : Screens, plan : Plans \cup {None}, state : States \cup {None}]
       PROVE  DeskInv'
  <2>1. PlansInv(plans)' /\ NoMissedTrigger' /\ shocked' \in Brents
    BY <1>10, LoadInv, UpdateMarketInv
  <2>2. QED
    BY <1>10, <2>1 DEF DeskInv, TypeOK, PlansInv
<1>11. CASE reset_demo
  BY <1>10, <1>11 DEF reset_demo, DeskInv, TypeOK
<1>12. CASE NewSession
  BY <1>10, <1>12 DEF NewSession, Screens, Rendered
<1>13. CASE UNCHANGED vars
  BY <1>13 DEF vars, DeskInv, TypeOK, PlansInv, NoMissedTrigger
<1>14. QED
  BY <1>1, <1>2, <1>3, <1>4, <1>5, <1>6, <1>7, <1>8, <1>9, <1>11, <1>12, <1>13
     DEF Next, DialStep, HumanStep, ScreenStep, StartOver

LEMMA Invariance == Spec => []DeskInv
<1>1. QED
  BY InitInv, NextInv, PTL DEF Spec

-----------------------------------------------------------------------------
(* Every value of the session keeps its type, whatever is clicked in       *)
(* whatever order, on whatever screen was rendered last.                   *)
THEOREM Typing == Spec => []TypeOK
<1>1. DeskInv => TypeOK
  BY DEF DeskInv
<1>2. QED
  BY <1>1, Invariance, PTL

(* No plan is ever left watching a trigger that holds: every callback ends *)
(* in the sweep of the market it leaves behind.                            *)
THEOREM TriggerNeverMissed == Spec => []NoMissedTrigger
<1>1. DeskInv => NoMissedTrigger
  BY DEF DeskInv
<1>2. QED
  BY <1>1, Invariance, PTL

(* What fired or was executed was signed first, fired on the terms signed, *)
(* and carries a signature that still verifies.                            *)
THEOREM FiresOnlyOnSignedTerms == Spec => []FiredOnSignedTerms
<1>1. DeskInv => FiredOnSignedTerms
  <2>. SUFFICES ASSUME DeskInv, NEW p \in Plans
                PROVE  LET card == armed_vs_now(plans[p])
                       IN  /\ plans[p].state \in {"FIRED", "ACTIONED"} =>
                                plans[p].fired_observation # None
                           /\ plans[p].fired_observation # None =>
                                /\ card.armed_by = RM
                                /\ card.signature_ok = TRUE
                                /\ Hit(Trigger[p], Collateral[p], card.armed_level, card.observed)
    BY DEF FiredOnSignedTerms
  <2>. DEFINE plan == plans[p]
  <2>1. PlanInv(p, plan)
    BY DEF DeskInv, PlansInv
  <2>2. CASE plan.fired_observation = None
    BY <2>1, <2>2 DEF PlanInv
  <2>3. CASE plan.fired_observation # None
    <3>1. plan.state \in {"FIRED", "ACTIONED", "DISMISSED"}
      BY <2>1, <2>3 DEF PlanInv, PlanRecord, States
    <3>2. armed_vs_now(plan) =
            [armed_by |-> plan.armed_by, armed_level |-> plan.armed_trigger_level,
             signature_ok |-> verify_signature(plan),
             observed |-> plan.fired_observation.brent]
      BY <2>3, <3>1 DEF armed_vs_now
    <3>3. /\ plan.armed_by = RM
          /\ plan.armed_signature = Trigger[p] /\ plan.trigger = Trigger[p]
          /\ Hit(Trigger[p], Collateral[p], plan.armed_trigger_level, plan.fired_observation.brent)
      BY <2>1, <2>3 DEF PlanInv
    <3>4. verify_signature(plan) = TRUE
      BY <3>3, PlanStoreAssumption DEF verify_signature, signature
    <3>5. QED
      BY <2>3, <3>2, <3>3, <3>4
  <2>4. QED
    BY <2>2, <2>3
<1>2. QED
  BY <1>1, Invariance, PTL

-----------------------------------------------------------------------------
(* The refinement.  A step of the desk is one decision, or none, followed  *)
(* by a sweep; so it is enough that an operation that goes through is a    *)
(* move of the lifecycle, that a sweep keeps a plan or fires it, and that  *)
(* the second may follow the first within one step.                        *)

View(plan) == [stage |-> plan.state, terms |-> plan.armed_trigger_level]

LEMMA LivesView ==
  ASSUME NEW ps, NEW p \in Plans
  PROVE  Lives(ps)[p] = View(ps[p])
BY DEF Lives, View

LEMMA SweepMoves ==
  ASSUME NEW ps, PlansInv(ps), NEW b \in Brents, NEW p \in Plans
  PROVE  \/ Lifecycle!Keep(View(ps[p]), View(sweep(ps, b)[p]))
         \/ Lifecycle!Fire(View(ps[p]), View(sweep(ps, b)[p]))
<1>1. CASE ps[p].state = "WATCHING" /\ Holds(p, ps[p], b)
  <2> DEFINE seen  == [level |-> EffectiveLevel(ps[p]), brent |-> b]
             fired == [ps[p] EXCEPT !.fired_observation = seen]
             done  == Transition(fired, "FIRED", "watcher")
  <2>1. sweep(ps, b)[p] = done
    BY <1>1 DEF sweep, fire
  <2>2. done.state = "FIRED" /\ done.armed_trigger_level = ps[p].armed_trigger_level
    BY DEF Transition, PlansInv, PlanInv, PlanRecord
  <2> HIDE DEF done
  <2>3. QED
    BY <1>1, <2>1, <2>2 DEF View, Lifecycle!Fire
<1>2. CASE ~(ps[p].state = "WATCHING" /\ Holds(p, ps[p], b))
  BY <1>2 DEF sweep, Lifecycle!Keep
<1>3. QED
  BY <1>1, <1>2

LEMMA ArmMoves ==
  ASSUME NEW p \in Plans, NEW plan, PlanInv(p, plan), NEW level \in Levels,
         arm(plan, RM, level).ok
  PROVE  Lifecycle!Sign(View(plan), View(arm(plan, RM, level).plan))
<1> DEFINE signed == [plan EXCEPT !.armed_by = RM, !.armed_trigger_level = level,
                                  !.armed_signature = signature(plan)]
           done   == Transition(Transition(signed, "ARMED", RM), "WATCHING", "system")
<1>1. "ARMED" \in Allowed[plan.state] /\ arm(plan, RM, level).plan = done
  BY DEF arm, Done, Refused
<1>2. plan.state = "DRAFTED"
  BY <1>1 DEF Allowed, PlanInv, PlanRecord, States
<1>3. done.state = "WATCHING" /\ done.armed_trigger_level = level
  BY DEF Transition, PlanInv, PlanRecord
<1> HIDE DEF done
<1>4. QED
  BY <1>1, <1>2, <1>3 DEF View, Lifecycle!Sign

LEMMA DismissMoves ==
  ASSUME NEW p \in Plans, NEW plan, PlanInv(p, plan), NEW reason, dismiss(plan, RM, reason).ok
  PROVE  Lifecycle!Dismiss(View(plan), View(dismiss(plan, RM, reason).plan))
<1> DEFINE resolved == [plan EXCEPT !.resolution = "DISMISSED", !.resolution_reason = reason]
           done     == Transition(resolved, "DISMISSED", RM)
<1>1. "DISMISSED" \in Allowed[plan.state] /\ dismiss(plan, RM, reason).plan = done
  BY DEF dismiss, Done, Refused
<1>2. plan.state \in {"DRAFTED", "FIRED"}
  BY <1>1 DEF Allowed, PlanInv, PlanRecord, States
<1>3. done.state = "DISMISSED" /\ done.armed_trigger_level = plan.armed_trigger_level
  BY DEF Transition, PlanInv, PlanRecord
<1> HIDE DEF done
<1>4. QED
  BY <1>1, <1>2, <1>3 DEF View, Lifecycle!Dismiss

LEMMA ActionMoves ==
  ASSUME NEW p \in Plans, NEW plan, PlanInv(p, plan), NEW r, action(plan, RM, r).ok
  PROVE  Lifecycle!Execute(View(plan), View(action(plan, RM, r).plan))
<1> DEFINE resolved == [plan EXCEPT !.resolution = "ACTIONED", !.resolution_reason = r]
           done     == Transition(resolved, "ACTIONED", RM)
<1>1. "ACTIONED" \in Allowed[plan.state] /\ action(plan, RM, r).plan = done
  BY DEF action, Done, Refused
<1>2. plan.state = "FIRED"
  BY <1>1 DEF Allowed, PlanInv, PlanRecord, States
<1>3. done.state = "ACTIONED" /\ done.armed_trigger_level = plan.armed_trigger_level
  BY DEF Transition, PlanInv, PlanRecord
<1> HIDE DEF done
<1>4. QED
  BY <1>1, <1>2, <1>3 DEF View, Lifecycle!Execute

\* A plan that was just decided may fire in the same step, if it watches.
LEMMA DecidedThenSwept ==
  ASSUME NEW before, NEW decided, NEW after,
         Lifecycle!Decide(View(before), View(decided)),
         Lifecycle!Keep(View(decided), View(after)) \/ Lifecycle!Fire(View(decided), View(after))
  PROVE  Lifecycle!Decide(View(before), View(after))
<1>1. CASE Lifecycle!Keep(View(decided), View(after))
  BY <1>1 DEF Lifecycle!Keep
<1>2. CASE Lifecycle!Fire(View(decided), View(after))
  <2>1. decided.state = "WATCHING" /\ View(after).stage = "FIRED"
        /\ View(after).terms = View(decided).terms
    BY <1>2 DEF Lifecycle!Fire, View
  <2>2. CASE Lifecycle!Sign(View(before), View(decided))
    BY <2>1, <2>2 DEF Lifecycle!Sign, Lifecycle!Decide
  <2>3. /\ ~Lifecycle!Execute(View(before), View(decided))
        /\ ~Lifecycle!Dismiss(View(before), View(decided))
    BY <2>1 DEF Lifecycle!Execute, Lifecycle!Dismiss, View
  <2>4. QED
    BY <2>2, <2>3 DEF Lifecycle!Decide
<1>3. QED
  BY <1>1, <1>2

LEMMA SweepRefines ==
  ASSUME DeskInv, NEW b \in Brents, plans' = sweep(plans, b)
  PROVE  Lifecycle!Market
<1>1. ASSUME NEW p \in Plans
      PROVE  \/ Lifecycle!Keep(Lives(plans)[p], Lives(plans')[p])
             \/ Lifecycle!Fire(Lives(plans)[p], Lives(plans')[p])
  BY SweepMoves, LivesView DEF DeskInv
<1>2. QED
  BY <1>1 DEF Lifecycle!Market

LEMMA DecisionRefines ==
  ASSUME DeskInv, NEW result, NEW p \in Plans, NEW arming,
         PlanInv(p, result.plan), result.ok \in BOOLEAN,
         result.ok => Lifecycle!Decide(View(plans[p]), View(result.plan)),
         ~result.ok => result.plan = plans[p],
         transition(result, p, arming)
  PROVE  Lifecycle!Decision \/ UNCHANGED Lives(plans)
<1> DEFINE after == [plans EXCEPT ![p] = result.plan]
<1>1. CASE result.ok
  <2>1. plans' = sweep(after, brent) /\ brent \in Brents
    BY <1>1 DEF transition, update_market, DeskInv, TypeOK
  <2>2. PlansInv(after) /\ after[p] = result.plan /\ \A q \in Plans \ {p} : after[q] = plans[q]
    BY DEF PlansInv, PlanInv, DeskInv
  <2> HIDE DEF after
  <2>3. ASSUME NEW q \in Plans
        PROVE  \/ Lifecycle!Keep(View(after[q]), View(plans'[q]))
               \/ Lifecycle!Fire(View(after[q]), View(plans'[q]))
    BY <2>1, <2>2, SweepMoves
  <2>4. Lifecycle!Decide(Lives(plans)[p], Lives(plans')[p])
    BY <1>1, <2>2, <2>3, DecidedThenSwept, LivesView
  <2>5. \A q \in Plans \ {p} : \/ Lifecycle!Keep(Lives(plans)[q], Lives(plans')[q])
                               \/ Lifecycle!Fire(Lives(plans)[q], Lives(plans')[q])
    BY <2>2, <2>3, LivesView
  <2>6. QED
    BY <2>4, <2>5 DEF Lifecycle!Decision
<1>2. CASE ~result.ok
  <2>1. plans' = plans
    BY <1>2 DEF transition, DeskInv, TypeOK
  <2>2. QED
    BY <2>1
<1>3. QED
  BY <1>1, <1>2

LEMMA StepRefines ==
  ASSUME DeskInv, [Next]_vars
  PROVE  [Lifecycle!Market \/ Lifecycle!Decision \/ Lifecycle!StartOver]_(Lives(plans))
<1> DEFINE Goal == [Lifecycle!Market \/ Lifecycle!Decision \/ Lifecycle!StartOver]_(Lives(plans))
<1>0. ASSUME NEW p \in Plans PROVE PlanInv(p, plans[p])
  BY DEF DeskInv, PlansInv
<1>1. CASE DialStep
  <2>1. PICK b \in Brents : plans' = sweep(plans, b)
    BY <1>1, DeskAssumption DEF DialStep, move_dial, preset, update_market
  <2>2. QED
    BY <2>1, SweepRefines
<1>2. ASSUME NEW p \in Plans, NEW level \in LevelsOf[p], arm_plan(p, level) PROVE Goal
  <2> DEFINE result == arm(plans[p], RM, level)
  <2>1. level \in Levels
    BY DEF Levels
  <2>2. /\ PlanInv(p, result.plan) /\ result.ok \in BOOLEAN
        /\ ~result.ok => result.plan = plans[p]
    BY <1>0, <2>1, ArmInv DEF arm, Done, Refused
  <2>3. result.ok => Lifecycle!Decide(View(plans[p]), View(result.plan))
    BY <1>0, <2>1, ArmMoves DEF Lifecycle!Decide
  <2>4. transition(result, p, TRUE)
    BY <1>2 DEF arm_plan
  <2> HIDE DEF result
  <2>5. QED
    BY <2>2, <2>3, <2>4, DecisionRefines
<1>3. ASSUME NEW p \in Plans, NEW reason \in Reasons, dismiss_plan(p, reason) PROVE Goal
  <2> DEFINE result == dismiss(plans[p], RM, reason)
  <2>1. /\ PlanInv(p, result.plan) /\ result.ok \in BOOLEAN
        /\ ~result.ok => result.plan = plans[p]
    BY <1>0, DismissInv DEF dismiss, Done, Refused
  <2>2. result.ok => Lifecycle!Decide(View(plans[p]), View(result.plan))
    BY <1>0, DismissMoves DEF Lifecycle!Decide
  <2>3. transition(result, p, FALSE)
    BY <1>3 DEF dismiss_plan
  <2> HIDE DEF result
  <2>4. QED
    BY <2>1, <2>2, <2>3, DecisionRefines
<1>4. ASSUME NEW p \in Plans, action_plan(p) PROVE Goal
  <2> DEFINE result == action(plans[p], RM, rank[p])
  <2>1. /\ PlanInv(p, result.plan) /\ result.ok \in BOOLEAN
        /\ ~result.ok => result.plan = plans[p]
    BY <1>0, ActionInv DEF action, Done, Refused
  <2>2. result.ok => Lifecycle!Decide(View(plans[p]), View(result.plan))
    BY <1>0, ActionMoves DEF Lifecycle!Decide
  <2>3. transition(result, p, FALSE)
    BY <1>4 DEF action_plan
  <2> HIDE DEF result
  <2>4. QED
    BY <2>1, <2>2, <2>3, DecisionRefines
<1>5. CASE StartOver
  <2>1. plans' = sweep(load_plans, BrentNow)
    BY <1>5 DEF StartOver, reset_demo, NewSession, update_market
  <2>2. QED
    BY <2>1 DEF Lifecycle!StartOver
<1>6. CASE UNCHANGED plans
  BY <1>6
<1>7. QED
  BY <1>1, <1>2, <1>3, <1>4, <1>5, <1>6
  DEF Next, HumanStep, ScreenStep, select_rank, navigate, open_plan, Render, vars

(* Callbacks, late clicks, sweeps and resets implement the lifecycle of    *)
(* schema/state_machine.md, for every set of plans and every market.       *)
THEOREM DeskImplementsLifecycle == Spec => ImplementsLifecycle
<1>1. Init => Lives(plans) = Lives(sweep(load_plans, BrentNow))
  BY DEF Init
<1>2. DeskInv /\ [Next]_vars =>
        [Lifecycle!Market \/ Lifecycle!Decision \/ Lifecycle!StartOver]_(Lives(plans))
  BY StepRefines
<1>3. QED
  BY <1>1, <1>2, Invariance, PTL DEF Spec, ImplementsLifecycle, Lifecycle!Spec
=============================================================================
