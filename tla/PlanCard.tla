------------------------------- MODULE PlanCard -------------------------------
(***************************************************************************)
(* What the desk's screens say of a plan: ui.py's card, board row and      *)
(* fired band, and the column app.py's board puts the plan in.  They are   *)
(* functions of the session, rendered by every run of the script; the      *)
(* wording, the layout and what is copied from the plan file are left out. *)
(***************************************************************************)
EXTENDS ContingencyDesk

\* Levels and markets are numbers, and None is neither a flag nor what is shown.
ASSUME CardAssumption ==
  /\ Levels \subseteq Int /\ Brents \subseteq Nat
  /\ None \notin BOOLEAN
  /\ None \notin [armed_by : {RM, None}, armed_level : Levels \cup {None},
                  signature_ok : BOOLEAN \cup {None}, observed : Brents]
  /\ None \notin [drafted : Levels, armed : Levels \cup {None}, observed : Brents,
                  signature : {"Not armed", "signature verified", "SIGNATURE MISMATCH"}]

Column(p) ==
  CASE plans[p].state \in {"FIRED", "ACTIONED"}  -> "Fired"
    [] plans[p].state \in {"ARMED", "WATCHING"}  -> "Armed and watching"
    [] plans[p].state = "DRAFTED"                -> "Drafts awaiting you"
    [] plans[p].state = "DISMISSED"              -> "Dismissed"

(* resolve(): what the trigger watches, and the level in the same scale.   *)
Observed(p, b) ==
  CASE Trigger[p].variable = "BRENT"    -> b
    [] Trigger[p].variable = "LTV"      -> DrawnPercent(Collateral[p])
    [] Trigger[p].variable = "HEADROOM" -> Headroom(Collateral[p], b)

LevelAlike(p, level, b) ==
  CASE Trigger[p].variable = "BRENT"    -> level
    [] Trigger[p].variable = "LTV"      -> level * LendingValue(Collateral[p], b)
    [] Trigger[p].variable = "HEADROOM" -> level * 100 * BrentNow

\* distance_pct / 100, level / observed - 1 as a quotient
Distance(p, level, b) ==
  IF Observed(p, b) = 0 THEN None
  ELSE [num |-> LevelAlike(p, level, b) - Observed(p, b), den |-> Observed(p, b)]

\* Mutant: the card is evaluated at the drafted level.
observation_Drafted(p) ==
  [level |-> Trigger[p].level,
   hit |-> Hit(Trigger[p], Collateral[p], Trigger[p].level, shocked),
   distance |-> Distance(p, Trigger[p].level, shocked)]

\* evaluate_trigger() at the armed level, or the drafted one before arming
observation(p) ==
  [level |-> EffectiveLevel(plans[p]),
   hit |-> Holds(p, plans[p], shocked),
   distance |-> Distance(p, EffectiveLevel(plans[p]), shocked)]

\* _signature()
Signature(p) ==
  CASE verify_signature(plans[p]) = None  -> "Not armed"
    [] verify_signature(plans[p]) = TRUE  -> "signature verified"
    [] verify_signature(plans[p]) = FALSE -> "SIGNATURE MISMATCH"

(* render_plan_card(): the fired band on top where there is a comparison,  *)
(* with the signature in it; the header carries it while the plan watches. *)
FiredBand(p) ==
  LET comparison == armed_vs_now(plans[p])
  IN  IF comparison = None THEN None
      ELSE [drafted |-> Trigger[p].level, armed |-> comparison.armed_level,
            observed |-> comparison.observed, signature |-> Signature(p)]

Card(p) ==
  [band |-> FiredBand(p),
   head |-> IF plans[p].state = "WATCHING" THEN Signature(p) ELSE None,
   level |-> observation(p).level]

-----------------------------------------------------------------------------
Reached(p, state) == \E i \in DOMAIN plans[p].log : plans[p].log[i].to = state

(* The card tells the story the decision log tells: a signature is shown   *)
(* verified exactly once the RM armed the plan, and the level on the card  *)
(* is the one she signed; a plan that is shown watching has not been hit   *)
(* and its distance is on the safe side of the trigger; the fired band is  *)
(* there exactly for plans that fired, through whatever was decided after, *)
(* and shows a market beyond the armed level and no other.                 *)
CardTellsTheLog ==
  \A p \in Plans :
    LET o    == observation(p)
        card == Card(p)
        up   == Trigger[p].operator \in {">", ">="}
    IN  /\ Signature(p) = IF Reached(p, "ARMED") THEN "signature verified" ELSE "Not armed"
        /\ Reached(p, "ARMED") => card.level = plans[p].armed_trigger_level
        /\ Column(p) = "Armed and watching" =>
             /\ card.head = "signature verified" /\ card.band = None
             /\ ~o.hit
             /\ o.distance # None /\ o.distance.den > 0 =>
                  IF up THEN o.distance.num >= 0 ELSE o.distance.num <= 0
        /\ Reached(p, "FIRED") <=> card.band # None
        /\ Column(p) = "Fired" => card.band # None
        /\ card.band # None =>
             /\ card.band.armed = card.level /\ card.band.drafted = Trigger[p].level
             /\ Hit(Trigger[p], Collateral[p], card.level, card.band.observed)
=============================================================================
