--------------------------- MODULE ContingencyDesk ---------------------------
(***************************************************************************)
(* contingency-desk/app.py: one browser session of the desk.               *)
(*                                                                         *)
(* Streamlit runs a callback for the widget that was clicked, then the     *)
(* whole script again, which registers the widgets of the new screen.  A   *)
(* click is therefore always a click on the screen that was rendered LAST: *)
(* when it lands before the script has run again, its callback meets a     *)
(* session that has already moved on.  `view` is that rendered screen, and *)
(* Render is the script's run; every other action is one callback, with    *)
(* the market sweep the callback ends in.                                  *)
(***************************************************************************)
EXTENDS PlanStore

CONSTANTS
  FirstPlan,      \* next(iter(plans)): the plan selected at the start
  Presets         \* the pre-conflict and today's Brent, buttons of the dial

ASSUME DeskAssumption ==
  /\ FirstPlan \in Plans
  /\ Presets \subseteq Brents
  /\ 1 \in Ranks

VARIABLES
  plans,          \* st.session_state.plans
  brent,          \* st.session_state.brent, where the dial stands
  shocked,        \* the Brent level st.session_state.shocked was computed at
  screen,         \* st.session_state.screen
  selected,       \* st.session_state.selected_plan
  rank,           \* st.session_state[rank_<plan>], None while the key is absent
  error,          \* whether st.session_state.error is set
  view            \* the screen rendered last: what can be clicked

vars == <<plans, brent, shocked, screen, selected, rank, error, view>>

Screens == {"Board", "Plan", "Dial"}

\* What main() renders: the plan screen offers widgets by the plan's state.
Rendered(scr, pid, state) ==
  IF scr = "Plan" THEN [screen |-> scr, plan |-> pid, state |-> state]
                  ELSE [screen |-> scr, plan |-> None, state |-> None]

CurrentView == Rendered(screen, selected, plans[selected].state)

TypeOK ==
  /\ plans \in [Plans -> PlanRecord]
  /\ brent \in Brents
  /\ shocked \in Brents
  /\ screen \in Screens
  /\ selected \in Plans
  /\ rank \in [Plans -> Ranks \cup {None}]
  /\ error \in BOOLEAN
  /\ view \in [screen : Screens, plan : Plans \cup {None}, state : States \cup {None}]

-----------------------------------------------------------------------------
(* update_market(): shock the book at the dial's level and sweep.          *)
update_market(ps, b) ==
  /\ shocked' = b
  /\ plans' = sweep(ps, b)

(* main() on a fresh session: the plan files as they are on disk.          *)
Init ==
  /\ plans = sweep(load_plans, BrentNow)
  /\ brent = BrentNow
  /\ shocked = BrentNow
  /\ screen = "Board"
  /\ selected = FirstPlan
  /\ rank = [p \in Plans |-> None]
  /\ error = FALSE
  /\ view = Rendered("Board", FirstPlan, None)

(* A reload, a reconnect or a restart of the process: session_state is     *)
(* gone, and main() initialises a new one.                                 *)
NewSession ==
  /\ update_market(load_plans, BrentNow)
  /\ brent' = BrentNow
  /\ screen' = "Board"
  /\ selected' = FirstPlan
  /\ rank' = [p \in Plans |-> None]
  /\ error' = FALSE
  /\ view' = Rendered("Board", FirstPlan, None)

\* Mutant: the default is the position of the first action, not its rank.
Render_FirstIndex ==
  /\ view # CurrentView
  /\ view' = CurrentView
  /\ rank' = IF CurrentView.state = "FIRED" /\ rank[selected] = None
             THEN [rank EXCEPT ![selected] = 0] ELSE rank
  /\ UNCHANGED <<plans, brent, shocked, screen, selected, error>>

(* The script runs to its end.  action_bar() gives a fired plan's rank its *)
(* default, the first of the plan's actions.                               *)
Render ==
  /\ view # CurrentView
  /\ view' = CurrentView
  /\ rank' = IF CurrentView.state = "FIRED" /\ rank[selected] = None
             THEN [rank EXCEPT ![selected] = 1] ELSE rank
  /\ UNCHANGED <<plans, brent, shocked, screen, selected, error>>

-----------------------------------------------------------------------------
(* Callbacks.                                                              *)

navigate(scr) ==
  /\ screen' = scr
  /\ UNCHANGED <<plans, brent, shocked, selected, rank, error, view>>

open_plan(p) ==
  /\ screen' = "Plan"
  /\ selected' = p
  /\ UNCHANGED <<plans, brent, shocked, rank, error, view>>

move_dial(b) ==
  /\ view.screen = "Dial"
  /\ brent' = b
  /\ update_market(plans, b)
  /\ UNCHANGED <<screen, selected, rank, error, view>>

preset(b) ==
  /\ view.screen = "Dial"
  /\ brent' = b
  /\ update_market(plans, b)
  /\ screen' = IF plans'[selected].state = "FIRED" THEN "Plan" ELSE screen
  /\ UNCHANGED <<selected, rank, error, view>>

reset_demo ==
  /\ view.screen = "Dial"
  /\ brent' = BrentNow
  /\ update_market(load_plans, BrentNow)
  /\ selected' = FirstPlan
  /\ rank' = [p \in Plans |-> None]
  /\ error' = FALSE
  /\ UNCHANGED <<screen, view>>

\* Mutant: a decision does not end in update_market().
transition_NoSweep(result, p, arming) ==
  /\ plans' = [plans EXCEPT ![p] = result.plan]
  /\ error' = ~result.ok
  /\ screen' = IF result.ok /\ arming THEN "Dial" ELSE screen
  /\ UNCHANGED <<brent, shocked, selected, rank, view>>

(* transition(operation, plan_id): a refusal sets the error and nothing    *)
(* else; a success clears it, sweeps, and an arming that is still watching *)
(* after the sweep goes to the dial.                                       *)
transition(result, p, arming) ==
  /\ IF result.ok
     THEN /\ update_market([plans EXCEPT ![p] = result.plan], brent)
          /\ error' = FALSE
          /\ screen' = IF arming /\ plans'[p].state = "WATCHING" THEN "Dial" ELSE screen
     ELSE /\ plans' = [plans EXCEPT ![p] = result.plan]
          /\ error' = TRUE
          /\ UNCHANGED <<shocked, screen>>
  /\ UNCHANGED <<brent, selected, rank, view>>

\* action_bar(): the buttons a plan's rendered state offers
Offers(p, states) == view.screen = "Plan" /\ view.plan = p /\ view.state \in states

arm_plan(p, level) ==
  /\ Offers(p, {"DRAFTED"})
  /\ transition(arm(plans[p], RM, level), p, TRUE)

dismiss_plan(p, reason) ==
  /\ Offers(p, {"DRAFTED", "FIRED"})
  /\ transition(dismiss(plans[p], RM, reason), p, FALSE)

action_plan(p) ==
  /\ Offers(p, {"FIRED"})
  /\ transition(action(plans[p], RM, rank[p]), p, FALSE)

select_rank(p, r) ==
  /\ Offers(p, {"FIRED"})
  /\ rank' = [rank EXCEPT ![p] = r]
  /\ UNCHANGED <<plans, brent, shocked, screen, selected, error, view>>

-----------------------------------------------------------------------------
DialStep  == (\E b \in Brents : move_dial(b)) \/ (\E b \in Presets : preset(b))
HumanStep == \E p \in Plans :
               \/ \E level \in LevelsOf[p] : arm_plan(p, level)
               \/ \E reason \in Reasons : dismiss_plan(p, reason)
               \/ action_plan(p)
               \/ \E r \in Ranks : select_rank(p, r)
ScreenStep == \/ \E scr \in Screens : navigate(scr)
              \/ \E p \in Plans : open_plan(p)
              \/ Render
StartOver  == reset_demo \/ NewSession

Next == DialStep \/ HumanStep \/ ScreenStep \/ StartOver

Spec == Init /\ [][Next]_vars

-----------------------------------------------------------------------------
(* A trigger cannot be missed: whatever callback ran last, the market the  *)
(* screens show is the one the dial stands at, and no plan is left         *)
(* watching while its trigger, at the level the RM signed, holds there.    *)
(* Every callback that changes plans or the market must end in the sweep.  *)
NoMissedTrigger ==
  /\ shocked = brent
  /\ \A p \in Plans : plans[p].state = "WATCHING" => ~Holds(p, plans[p], shocked)

(* A plan that fired or was actioned was signed by the RM first, its       *)
(* signature still verifies against the body on screen, and the market     *)
(* that fired it satisfied the trigger at the level she signed, whatever   *)
(* level was drafted (armed_vs_now is what the fired card shows).          *)
FiredOnSignedTerms ==
  \A p \in Plans :
    LET card == armed_vs_now(plans[p])
    IN  /\ plans[p].state \in {"FIRED", "ACTIONED"} => plans[p].fired_observation # None
        /\ plans[p].fired_observation # None =>
             /\ card.armed_by = RM
             /\ card.signature_ok = TRUE
             /\ Hit(Trigger[p], Collateral[p], card.armed_level, card.observed)

(* The decision log is the plan's history: it starts at the authoring,     *)
(* each entry leaves the state the one before reached, along ALLOWED, only *)
(* the RM arms, actions or dismisses, only the watcher fires, and the last *)
(* entry is the state the plan is in.  A plan carries a resolution exactly *)
(* when that state is a resolved one: a refused decision leaves no trace   *)
(* of a resolution on a plan that goes on.                                 *)
ActorOf == [ARMED |-> RM, WATCHING |-> "system", FIRED |-> "watcher",
            ACTIONED |-> RM, DISMISSED |-> RM, DRAFTED |-> "agent"]

DecisionLogIsTheHistory ==
  \A p \in Plans :
    LET log == plans[p].log
    IN  /\ log # << >>
        /\ log[1].from = None /\ log[1].to = "DRAFTED"
        /\ log[Len(log)].to = plans[p].state
        /\ \A i \in 1 .. Len(log) : log[i].actor = ActorOf[log[i].to]
        /\ \A i \in 2 .. Len(log) : /\ log[i].from = log[i - 1].to
                                    /\ log[i].to \in Allowed[log[i].from]
        /\ plans[p].resolution = IF plans[p].state \in {"ACTIONED", "DISMISSED"}
                                 THEN plans[p].state ELSE None
        /\ (plans[p].resolution = None) = (plans[p].resolution_reason = None)
        /\ plans[p].resolution_reason # BlankReason

(* "The log is append-only.  Nothing is ever edited in place": unless the  *)
(* session starts over, no step takes an entry off a log or rewrites one,  *)
(* and a signature, an observation or a resolution, once written, stays as *)
(* it is -- a second click on a button the screen still shows included.    *)
Grows(before, after) ==
  /\ \A field \in {"armed_by", "armed_trigger_level", "armed_signature",
                   "fired_observation", "resolution", "resolution_reason"} :
       before[field] # None => after[field] = before[field]
  /\ Len(before.log) <= Len(after.log)
  /\ SubSeq(after.log, 1, Len(before.log)) = before.log

RecordsOnlyGrow ==
  [][StartOver \/ \A p \in Plans : Grows(plans[p], plans'[p])]_vars

(* A plan changes only by a decision of the RM or by firing: a callback    *)
(* carries at most one decision, on one plan, and a move of the dial       *)
(* none; every other plan it touches was watching and fires, at the market *)
(* of that moment.                                                         *)
Decided(before, after) ==
  /\ Len(after.log) > Len(before.log)
  /\ after.log[Len(before.log) + 1].actor = RM

FiredAt(before, after, b) ==
  /\ before.state = "WATCHING" /\ after.state = "FIRED"
  /\ after.fired_observation.brent = b

OneDecisionAtATime ==
  [][StartOver \/
       /\ \A p \in Plans : \/ plans'[p] = plans[p]
                           \/ FiredAt(plans[p], plans'[p], shocked')
                           \/ Decided(plans[p], plans'[p]) /\ brent' = brent
       /\ \A p, q \in Plans :
            Decided(plans[p], plans'[p]) /\ Decided(plans[q], plans'[q]) => p = q]_vars

-----------------------------------------------------------------------------
(* What the documents say and the code does not do.                        *)

(* "DRAFTED -> ARMED: the RM signs reasoning she can inspect, BEFORE the   *)
(* event" (store.py): when a plan is signed, its trigger does not hold     *)
(* yet.  arm() has no such guard, and the callback that arms fires at once.*)
ArmedBeforeTheEvent ==
  [][\A p \in Plans :
       ~StartOver /\ plans[p].armed_by = None /\ plans'[p].armed_by # None
         => ~Holds(p, plans'[p], shocked)]_vars

(* "An armed plan survives process restarts and deploys without losing its *)
(* state or its arming record" (requirements N3.1).  The session holds the *)
(* plans in memory only, and a new one loads the files.                    *)
ArmedPlanSurvivesRestart ==
  [][NewSession =>
       \A p \in Plans : plans[p].state = "WATCHING" =>
         /\ plans'[p].state \in {"WATCHING", "FIRED"}
         /\ plans'[p].armed_trigger_level = plans[p].armed_trigger_level]_vars

-----------------------------------------------------------------------------
(* The desk implements the lifecycle of schema/state_machine.md: a plan's  *)
(* stage, and the terms it was signed on.                                  *)
Lives(ps) == [p \in Plans |-> [stage |-> ps[p].state, terms |-> ps[p].armed_trigger_level]]

Lifecycle == INSTANCE PlanLifecycle WITH
  PlanIds <- Plans,
  Terms   <- Levels,
  NoTerms <- None,
  Shipped <- Lives(sweep(load_plans, BrentNow)),
  life    <- Lives(plans)

ImplementsLifecycle == Lifecycle!Spec
=============================================================================
