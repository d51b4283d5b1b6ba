---------------------------- MODULE PlanLifecycle ----------------------------
(***************************************************************************)
(* What the desk promises of its plans, after the state diagram of         *)
(* contingency-desk/schema/state_machine.md: a plan is signed once, on     *)
(* terms that never change, fires only if it was signed, is executed only  *)
(* after it fired, and one human decision is taken at a time.  Markets,    *)
(* screens, signatures and logs are left to the module that implements it. *)
(* ARMED never shows: the signing call registers the trigger before it     *)
(* returns, and firings caused by a step happen with it.                   *)
(***************************************************************************)
CONSTANTS
  PlanIds,
  Terms,      \* what a plan can be signed on
  NoTerms,    \* the terms of a plan that was not signed
  Shipped     \* [PlanIds -> [stage, terms]], the plans as their files have them

VARIABLE life     \* [PlanIds -> [stage, terms]]

(* The moves of one plan.                                                  *)
Keep(now, next)   == next = now
Sign(now, next)   == /\ now.stage = "DRAFTED"
                     /\ next.stage \in {"WATCHING", "FIRED"}
                     /\ next.terms \in Terms
Fire(now, next)   == now.stage = "WATCHING" /\ next = [now EXCEPT !.stage = "FIRED"]
Execute(now, next) == now.stage = "FIRED" /\ next = [now EXCEPT !.stage = "ACTIONED"]
Dismiss(now, next) == /\ now.stage \in {"DRAFTED", "FIRED"}
                      /\ next = [now EXCEPT !.stage = "DISMISSED"]

Decide(now, next) == Sign(now, next) \/ Execute(now, next) \/ Dismiss(now, next)

(* The market fires any of the plans that watch.                           *)
Market == \A p \in PlanIds : Keep(life[p], life'[p]) \/ Fire(life[p], life'[p])

(* A decision on one plan, and the firings it lets through.                *)
Decision ==
  \E d \in PlanIds :
    /\ Decide(life[d], life'[d])
    /\ \A p \in PlanIds \ {d} : Keep(life[p], life'[p]) \/ Fire(life[p], life'[p])

(* The demo is reset, or a new session loads the plan files.               *)
StartOver == life' = Shipped

Spec == /\ life = Shipped
        /\ [][Market \/ Decision \/ StartOver]_life
=============================================================================
