------------------------------ MODULE PlanStore ------------------------------
(***************************************************************************)
(* contingency-desk/store.py: "the only place a plan's state changes".     *)
(*                                                                         *)
(* A plan is a record.  Each operation of the store takes a plan, works on *)
(* a deep copy of it and either returns the copy or raises                 *)
(* TransitionError; here it returns [ok, plan], with ok = FALSE and the    *)
(* caller's own plan, untouched, when the code raises.                     *)
(***************************************************************************)
EXTENDS Engine, Sequences

CONSTANTS
  Plans,          \* plan ids
  Trigger,        \* [Plans -> [variable, operator, level]], as drafted
  Collateral,     \* [Plans -> Facility], the facility an LTV trigger names
  PreArmed,       \* the plans that ship armed (build_plans.py)
  RM,             \* the relationship manager of the session
  Ranks,          \* ranks of a plan's actions, 1 .. n
  LevelsOf,       \* [Plans -> the trigger levels the RM may type when arming]
  Brents,         \* Brent levels the dial and the presets can set
  Reasons,        \* texts the RM may type into the reason field
  BlankReason,    \* the one that is empty or all spaces
  None            \* Python's None

Levels == UNION {LevelsOf[p] : p \in Plans}

(* The lending value stays positive over the range of the dial: at zero    *)
(* shock() would divide by it.                                             *)
ASSUME PlanStoreAssumption ==
  /\ PreArmed \subseteq Plans
  /\ Trigger \in [Plans -> [variable : Variables, operator : Operators, level : Levels]]
  /\ Collateral \in [Plans -> Facility]
  /\ \A p \in Plans : /\ Trigger[p].level \in LevelsOf[p]
                      /\ \A b \in Brents : LendingValue(Collateral[p], b) > 0
  /\ BlankReason \in Reasons
  /\ None \notin Levels \cup Brents \cup Ranks \cup Reasons \cup {RM}
  /\ \A p \in Plans : None # Trigger[p]
  /\ \A level \in Levels, b \in Brents : None # [level |-> level, brent |-> b]
  /\ BrentNow \in Brents

States == {"DRAFTED", "ARMED", "WATCHING", "FIRED", "ACTIONED", "DISMISSED"}

\* Mutant: a plan may be dismissed while it watches.
Allowed_DismissWatching ==
  [DRAFTED   |-> {"ARMED", "DISMISSED"},
   ARMED     |-> {"WATCHING"},
   WATCHING  |-> {"FIRED", "DISMISSED"},
   FIRED     |-> {"ACTIONED", "DISMISSED"},
   ACTIONED  |-> {},
   DISMISSED |-> {}]

Allowed ==
  [DRAFTED   |-> {"ARMED", "DISMISSED"},
   ARMED     |-> {"WATCHING"},
   WATCHING  |-> {"FIRED"},
   FIRED     |-> {"ACTIONED", "DISMISSED"},
   ACTIONED  |-> {},
   DISMISSED |-> {}]

Actors == {RM, "system", "watcher", "agent"}

\* The RM is a person's address, a rank a number, and None is no state.
ASSUME NamesAssumption ==
  /\ RM \notin {"system", "watcher", "agent"}
  /\ BlankReason \notin Ranks
  /\ None \notin States

(* sha256 over the plan body.  Of the body only the trigger could be       *)
(* written by an operation of the store, so it stands for the whole; two   *)
(* bodies have the same signature exactly when they are equal.             *)
signature(plan) == plan.trigger

\* verify_signature(plan)["ok"]: None for a plan that was never armed
verify_signature(plan) ==
  IF plan.armed_signature = None THEN None ELSE plan.armed_signature = signature(plan)

-----------------------------------------------------------------------------
Refused(plan) == [ok |-> FALSE, plan |-> plan]
Done(plan)    == [ok |-> TRUE,  plan |-> plan]

\* Mutant: the state moves before the entry is written.
Transition_StateFirst(plan, to, actor) ==
  [plan EXCEPT !.state = to,
               !.log = Append(@, [actor |-> actor, from |-> to, to |-> to])]

\* _log and _transition: the entry is appended before the state moves
Transition(plan, to, actor) ==
  [plan EXCEPT !.state = to,
               !.log = Append(@, [actor |-> actor, from |-> plan.state, to |-> to])]

\* Mutant: no deep copy, so a refused arming has written its fields already.
arm_InPlace(plan, rm, level) ==
  LET signed == [plan EXCEPT !.armed_by = rm,
                             !.armed_trigger_level = level,
                             !.armed_signature = signature(plan)]
  IN  IF "ARMED" \in Allowed[plan.state]
      THEN Done(Transition(Transition(signed, "ARMED", rm), "WATCHING", "system"))
      ELSE Refused(signed)

(* arm(): the RM signs at a level of her own, and the system registers the *)
(* trigger with the watcher in the same call.                              *)
arm(plan, rm, level) ==
  IF "ARMED" \in Allowed[plan.state]
  THEN LET signed == [plan EXCEPT !.armed_by = rm,
                                  !.armed_trigger_level = level,
                                  !.armed_signature = signature(plan)]
       IN  Done(Transition(Transition(signed, "ARMED", rm), "WATCHING", "system"))
  ELSE Refused(plan)

\* Mutant: no deep copy, so a refused dismissal has written the resolution.
dismiss_InPlace(plan, rm, reason) ==
  LET resolved == [plan EXCEPT !.resolution = "DISMISSED", !.resolution_reason = reason]
  IN  IF reason = BlankReason THEN Refused(plan)
      ELSE IF "DISMISSED" \in Allowed[plan.state]
           THEN Done(Transition(resolved, "DISMISSED", rm)) ELSE Refused(resolved)

dismiss(plan, rm, reason) ==
  IF reason # BlankReason /\ "DISMISSED" \in Allowed[plan.state]
  THEN Done(Transition([plan EXCEPT !.resolution = "DISMISSED",
                                    !.resolution_reason = reason], "DISMISSED", rm))
  ELSE Refused(plan)

action(plan, rm, rank) ==
  IF rank \in Ranks /\ "ACTIONED" \in Allowed[plan.state]
  THEN Done(Transition([plan EXCEPT !.resolution = "ACTIONED",
                                    !.resolution_reason = rank], "ACTIONED", rm))
  ELSE Refused(plan)

fire(plan, observation) ==
  Transition([plan EXCEPT !.fired_observation = observation], "FIRED", "watcher")

\* Mutant: the watcher uses the drafted level, not the one the RM signed.
EffectiveLevel_Drafted(plan) == plan.trigger.level

(* The level evaluate_trigger compares with: the armed one when there is   *)
(* one, the drafted one otherwise.                                         *)
EffectiveLevel(plan) ==
  IF plan.armed_trigger_level = None THEN plan.trigger.level ELSE plan.armed_trigger_level

Holds(pid, plan, brent) == Hit(plan.trigger, Collateral[pid], EffectiveLevel(plan), brent)

\* Mutant: drafts are evaluated as well as the plans that are watching.
sweep_Drafts(plans, brent) ==
  [p \in Plans |->
     IF plans[p].state \in {"DRAFTED", "WATCHING"} /\ Holds(p, plans[p], brent)
     THEN fire(plans[p], [level |-> EffectiveLevel(plans[p]), brent |-> brent])
     ELSE plans[p]]

(* sweep(): every WATCHING plan is evaluated at the shocked market, and    *)
(* fired with the observation when its trigger is hit.                     *)
sweep(plans, brent) ==
  [p \in Plans |->
     IF plans[p].state = "WATCHING" /\ Holds(p, plans[p], brent)
     THEN fire(plans[p], [level |-> EffectiveLevel(plans[p]), brent |-> brent])
     ELSE plans[p]]

(* armed_vs_now(): what a fired card shows, None for a plan that never     *)
(* fired.                                                                  *)
armed_vs_now(plan) ==
  IF plan.state \in {"FIRED", "ACTIONED", "DISMISSED"} /\ plan.fired_observation # None
  THEN [armed_by |-> plan.armed_by, armed_level |-> plan.armed_trigger_level,
        signature_ok |-> verify_signature(plan), observed |-> plan.fired_observation.brent]
  ELSE None

-----------------------------------------------------------------------------
(* The plan files the desk loads (plans/PLAN-*.json): authored by the      *)
(* agent, and armed at the drafted level where build_plans.py armed them.  *)

Draft(p) ==
  [state |-> "DRAFTED", trigger |-> Trigger[p],
   armed_by |-> None, armed_trigger_level |-> None, armed_signature |-> None,
   fired_observation |-> None, resolution |-> None, resolution_reason |-> None,
   log |-> << [actor |-> "agent", from |-> None, to |-> "DRAFTED"] >>]

load_plans ==
  [p \in Plans |-> IF p \in PreArmed
                   THEN arm(Draft(p), RM, Trigger[p].level).plan ELSE Draft(p)]

TriggerRecord == [variable : Variables, operator : Operators, level : Levels]

LogEntry == [actor : Actors, from : States \cup {None}, to : States]

PlanRecord ==
  [state : States,
   trigger : TriggerRecord,
   armed_by : {RM, None},
   armed_trigger_level : Levels \cup {None},
   armed_signature : TriggerRecord \cup {None},
   fired_observation : [level : Levels, brent : Brents] \cup {None},
   resolution : {"ACTIONED", "DISMISSED", None},
   resolution_reason : Ranks \cup Reasons \cup {None},
   log : Seq(LogEntry)]
=============================================================================
