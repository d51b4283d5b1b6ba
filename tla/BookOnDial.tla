------------------------------ MODULE BookOnDial ------------------------------
(***************************************************************************)
(* The credit book under the scenario dial: the facilities of facts.json,  *)
(* revalued by engine.shock() wherever app.py's dial is moved.  The desk's *)
(* other module takes the numbers as given; this one asks whether they fit *)
(* together: the breach on screen, the headroom and the cure beside it,    *)
(* the Brent level verify.py derived for each facility, and the levels the *)
(* plans were drafted at.                                                  *)
(***************************************************************************)
EXTENDS Engine

CONSTANTS
  Book,        \* facility ids
  Facilities,  \* [Book -> Facility]
  Dial,        \* the Brent levels the slider and the presets can set
  Warnings     \* drafted triggers: [facility, variable, operator, level]

ASSUME BookAssumption ==
  /\ Facilities \in [Book -> Facility]
  /\ Dial \subseteq Nat
  /\ BrentNow \in Dial
  /\ \A id \in Book, b \in Dial : LendingValue(Facilities[id], b) > 0
  /\ Warnings \subseteq [facility : Book, variable : Variables, operator : Operators, level : Nat]

(* The drafted triggers, as build_plans.py sets them: an LTV short of the  *)
(* facility's own, a Brent level at which the facility still has headroom, *)
(* or any headroom at all.                                                 *)
Early(w) ==
  LET f == Facilities[w.facility]
      early == Headroom(f, w.level) > 0
  IN  \/ w.variable = "LTV" /\ w.operator \in {">", ">="} /\ w.level < f.trigger_ltv
      \/ w.variable = "BRENT" /\ f.C > 0 /\ w.operator \in {"<", "<="} /\ early
      \/ w.variable = "BRENT" /\ f.C < 0 /\ w.operator \in {">", ">="} /\ early
      \/ w.variable = "HEADROOM" /\ w.operator \in {"<", "<="} /\ w.level > 0

ASSUME WarningsAssumption == \A w \in Warnings : Early(w)

VARIABLE brent

Init == brent = BrentNow

\* Mutant: the slider goes one step past where it was put.
move_dial_Overshoot(b) == brent' = b + 5

\* move_dial() and preset(): any level, from any level
move_dial(b) == brent' = b

Next == \E b \in Dial : move_dial(b)

Spec == Init /\ [][Next]_brent

TypeOK == brent \in Dial

-----------------------------------------------------------------------------
(* What a facility's row says is consistent: it is breached exactly when   *)
(* it has no headroom left, and the cure is the cash that brings the       *)
(* headroom back to zero and no more than that.                            *)
BreachHeadroomCureAgree ==
  \A id \in Book :
    LET f == Facilities[id]
    IN  /\ Breached(f, brent) <=> Headroom(f, brent) <= 0
        /\ CureCash(f, brent) > 0 => Headroom(f, brent) + CureCash(f, brent) = 0
        /\ CureCash(f, brent) = 0 <=> Headroom(f, brent) >= 0

(* The level verify.py solved for is where shock() puts the facility on    *)
(* margin call: at or below it when its collateral is long oil (C > 0), at *)
(* or above it when it is short (C < 0, and the denominator with it turns  *)
(* the inequality), and nowhere else.                                      *)
Beyond(f) == brent * BrentTrigger(f).den <= BrentTrigger(f).num

TriggerInvertsShock ==
  \A id \in Book :
    Facilities[id].C # 0 => (Breached(Facilities[id], brent) <=> Beyond(Facilities[id]))

(* "Warning level: 65% - five points before the 70% margin call", "79.00   *)
(* (rounded ... for margin)": no drafted trigger is still silent when the  *)
(* facility it watches is on margin call.                                  *)
WarnedBeforeTheCall ==
  \A w \in Warnings :
    Breached(Facilities[w.facility], brent) => Hit(w, Facilities[w.facility], w.level, brent)

(* A fall of Brent never takes a facility that is long oil off margin      *)
(* call, nor a rise one that is short: the dial has one dangerous end for  *)
(* each facility.                                                          *)
OneDangerousEnd ==
  [][\A id \in Book :
       LET f == Facilities[id]
       IN  (brent' - brent) * f.C <= 0 /\ Breached(f, brent) => Breached(f, brent')]_brent
=============================================================================
