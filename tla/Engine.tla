------------------------------- MODULE Engine -------------------------------
(***************************************************************************)
(* contingency-desk/engine.py: the deterministic arithmetic of the desk.   *)
(*                                                                         *)
(* The code divides: mult = brent / b0 - 1, ltv = 100 * drawn / lv.  Here  *)
(* every quantity is an integer multiplied by the denominator it would be  *)
(* divided by, and a comparison of two quotients is the comparison of the  *)
(* cross products, so nothing is rounded.  Brent is in tenths of a dollar, *)
(* money in thousands, an LTV level in percent.                            *)
(***************************************************************************)
EXTENDS Integers

CONSTANT BrentNow    \* brent_now(facts): the fixing of BASE_DATE, b0

ASSUME BrentNowAssumption == BrentNow \in Nat \ {0}

Variables == {"BRENT", "LTV", "HEADROOM"}
Operators == {"<", "<=", ">", ">="}

(* One row of facts["facilities"] as the code reads it: the lending value  *)
(* today, its sensitivity C to a relative move of Brent, the amount drawn  *)
(* and the margin-call LTV.                                                *)
Facility == [lending : Nat, C : Int, drawn : Nat \ {0}, trigger_ltv : Nat \ {0}]

-----------------------------------------------------------------------------
(* shock(): the revalued facility, each line scaled as it says.            *)

\* Mutant: the shock is applied with the wrong sign.
LendingValue_Inverted(f, brent) == f.lending * BrentNow + f.C * (BrentNow - brent)

\* b0 * lv
LendingValue(f, brent) == f.lending * BrentNow + f.C * (brent - BrentNow)

\* b0 * drawn * 100, the other side of every comparison with an LTV
DrawnPercent(f) == 100 * f.drawn * BrentNow

\* ltv >= trigger_ltv.  A negative lending value makes the LTV negative.
Breached(f, brent) ==
  /\ LendingValue(f, brent) > 0
  /\ DrawnPercent(f) >= f.trigger_ltv * LendingValue(f, brent)

\* 100 * b0 * headroom
Headroom(f, brent) == f.trigger_ltv * LendingValue(f, brent) - DrawnPercent(f)

\* Mutant: without max(0.0, ...).
CureCash_Unclamped(f, brent) == DrawnPercent(f) - f.trigger_ltv * LendingValue(f, brent)

\* 100 * b0 * cure_cash
CureCash(f, brent) == LET short == DrawnPercent(f) - f.trigger_ltv * LendingValue(f, brent)
                      IN  IF short > 0 THEN short ELSE 0

\* Mutant: the move is applied to the target, not to the distance from today.
BrentTrigger_FromZero(f) ==
  [num |-> BrentNow * (f.C * f.trigger_ltv + 100 * f.drawn),
   den |-> f.C * f.trigger_ltv]

(* verify.py brent_trigger(), read back by brent_for_facility_trigger():   *)
(* B0 * (1 + (LV_target - LV0) / C), multiplied by C * trigger_ltv; there  *)
(* is no such level when C is 0.                                           *)
BrentTrigger(f) ==
  [num |-> BrentNow * (f.C * f.trigger_ltv + 100 * f.drawn - f.lending * f.trigger_ltv),
   den |-> f.C * f.trigger_ltv]

-----------------------------------------------------------------------------
(* resolve() and evaluate_trigger().                                       *)

Compare(operator, a, b) ==
  \/ operator = "<"  /\ a < b
  \/ operator = "<=" /\ a <= b
  \/ operator = ">"  /\ a > b
  \/ operator = ">=" /\ a >= b

\* Mutant: an LTV or a HEADROOM is read from facts.json as loaded, not from
\* the book revalued at the level under test.
Hit_BeforeTheShock(trigger, f, level, brent) ==
  \/ trigger.variable = "BRENT" /\ Compare(trigger.operator, brent, level)
  \/ /\ trigger.variable = "LTV"
     /\ Compare(trigger.operator, DrawnPercent(f), level * LendingValue(f, BrentNow))
  \/ /\ trigger.variable = "HEADROOM"
     /\ Compare(trigger.operator, Headroom(f, BrentNow), level * 100 * BrentNow)

(* The two sides of the comparison, scaled alike: a BRENT level is in      *)
(* tenths of a dollar, an LTV level in percent, a HEADROOM level in money. *)
(* The LTV of a facility without lending value is not defined (the code    *)
(* divides by it), so an LTV trigger is evaluated only where it is.        *)
Hit(trigger, f, level, brent) ==
  \/ /\ trigger.variable = "BRENT"
     /\ Compare(trigger.operator, brent, level)
  \/ /\ trigger.variable = "LTV"
     /\ Compare(trigger.operator, DrawnPercent(f), level * LendingValue(f, brent))
  \/ /\ trigger.variable = "HEADROOM"
     /\ Compare(trigger.operator, Headroom(f, brent), level * 100 * BrentNow)
=============================================================================
