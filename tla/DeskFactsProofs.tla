---------------------------- MODULE DeskFactsProofs ----------------------------
(***************************************************************************)
(* For every book whose lending values stay positive over the dial, the    *)
(* arithmetic of the desk fits together, and what verify.py and            *)
(* build_plans.py computed is what the dial shows, for any files.          *)
(*                                                                         *)
(* The level brent_trigger() solves for and the headroom of shock() are    *)
(* one linear function of Brent, monotone with the sign of the facility's  *)
(* sensitivity.  The numbers of the scripts are sums over snapshots and    *)
(* holdings: the lemmas of FiniteSums turn each claim about sums into one  *)
(* about the terms.  The scripts themselves do not disturb the dial.       *)
(***************************************************************************)
EXTENDS DeskFacts, FiniteSums

LEMMA RowTypes ==
  ASSUME NEW id \in Book, NEW b \in Dial
  PROVE  /\ Facilities[id].lending \in Int /\ Facilities[id].C \in Int
         /\ Facilities[id].drawn \in Int /\ Facilities[id].trigger_ltv \in Nat
         /\ b \in Int /\ BrentNow \in Int
         /\ LendingValue(Facilities[id], b) > 0
<1>1. Facilities[id] \in Facility
  BY BookAssumption
<1>2. QED
  BY <1>1, BookAssumption, BrentNowAssumption DEF Facility

(* The headroom at b, against the distance of b from the solved level.     *)
LEMMA SolvedLevel ==
  ASSUME NEW l \in Int, NEW C \in Int, NEW d \in Int, NEW T \in Int, NEW B \in Int, NEW b \in Int
  PROVE  T * (l * B + C * (b - B)) - 100 * d * B
           = b * (C * T) - B * (C * T + 100 * d - l * T)
  BY SMT

LEMMA TimesMonotone ==
  ASSUME NEW T \in Nat, NEW x \in Int, NEW y \in Int, x <= y
  PROVE  T * x <= T * y
  BY SMT

LEMMA FallsWithC ==
  ASSUME NEW l \in Int, NEW C \in Int, NEW T \in Nat, NEW B \in Int,
         NEW b \in Int, NEW c \in Int, (c - b) * C <= 0
  PROVE  T * (l * B + C * (c - B)) <= T * (l * B + C * (b - B))
<1>1. l * B + C * (c - B) = (l * B + C * (b - B)) + (c - b) * C
  BY SMT
<1>2. l * B + C * (c - B) <= l * B + C * (b - B)
  BY <1>1, SMT
<1>3. QED
  BY <1>2, TimesMonotone

(* The dial stays on the levels it offers.                                 *)
THEOREM DialTyping == Spec => []TypeOK
<1>1. Init => TypeOK
  BY BookAssumption DEF Init, TypeOK
<1>2. TypeOK /\ [Next]_brent => TypeOK'
  BY DEF TypeOK, Next, move_dial
<1>3. QED
  BY <1>1, <1>2, PTL DEF Spec

(* shock() calls a margin call exactly at or beyond the level that         *)
(* brent_trigger() solved for.                                             *)
THEOREM SolvedLevelIsTheMarginCall == Spec => []TriggerInvertsShock
<1>1. TypeOK => TriggerInvertsShock
  <2>1. SUFFICES ASSUME TypeOK, NEW id \in Book
                 PROVE  Breached(Facilities[id], brent) <=> Beyond(Facilities[id])
    BY DEF TriggerInvertsShock
  <2> DEFINE f == Facilities[id]
  <2>2. brent \in Dial
    BY <2>1 DEF TypeOK
  <2>3. /\ f.lending \in Int /\ f.C \in Int /\ f.drawn \in Int /\ f.trigger_ltv \in Int
        /\ brent \in Int /\ BrentNow \in Int /\ LendingValue(f, brent) > 0
    BY <2>2, RowTypes
  <2>4. f.trigger_ltv * LendingValue(f, brent) - DrawnPercent(f)
          = brent * BrentTrigger(f).den - BrentTrigger(f).num
    BY <2>3, SolvedLevel DEF LendingValue, DrawnPercent, BrentTrigger
  <2>5. /\ f.trigger_ltv * LendingValue(f, brent) \in Int /\ DrawnPercent(f) \in Int
        /\ brent * BrentTrigger(f).den \in Int /\ BrentTrigger(f).num \in Int
    BY <2>3 DEF LendingValue, DrawnPercent, BrentTrigger
  <2>6. QED
    BY <2>3, <2>4, <2>5 DEF Breached, Beyond
<1>2. QED
  BY <1>1, DialTyping, PTL

(* A facility's row never contradicts itself.                              *)
THEOREM RowIsConsistent == Spec => []BreachHeadroomCureAgree
<1>1. TypeOK => BreachHeadroomCureAgree
  <2>1. SUFFICES ASSUME TypeOK, NEW id \in Book
                 PROVE  LET f == Facilities[id]
                        IN  /\ Breached(f, brent) <=> Headroom(f, brent) <= 0
                            /\ CureCash(f, brent) > 0
                                 => Headroom(f, brent) + CureCash(f, brent) = 0
                            /\ CureCash(f, brent) = 0 <=> Headroom(f, brent) >= 0
    BY DEF BreachHeadroomCureAgree
  <2> DEFINE f == Facilities[id]
  <2>2. LendingValue(f, brent) > 0
    BY <2>1, RowTypes DEF TypeOK
  <2>3. f.trigger_ltv * LendingValue(f, brent) \in Int /\ DrawnPercent(f) \in Int
    BY <2>1, RowTypes DEF TypeOK, LendingValue, DrawnPercent
  <2>4. QED
    BY <2>2, <2>3 DEF Breached, Headroom, CureCash
<1>2. QED
  BY <1>1, DialTyping, PTL

LEMMA LowerLevel ==
  ASSUME NEW l \in Int, NEW T \in Int, NEW V \in Int, l < T, V > 0
  PROVE  l * V < T * V
BY SMT

LEMMA NearSide ==
  ASSUME NEW b \in Int, NEW l \in Int, NEW D \in Int, b * D < l * D
  PROVE  /\ D > 0 => b < l
         /\ D < 0 => b > l
<1>1. l * D - b * D = (l - b) * D
  BY SMT
<1>2. PICK x \in Int : x = l - b
  OBVIOUS
<1>3. x * D > 0
  <2>1. b * D \in Int /\ l * D \in Int
    OBVIOUS
  <2>2. QED BY <1>1, <1>2, <2>1
<1>4. D > 0 => x > 0
  BY <1>2, <1>3, SMT
<1>5. D < 0 => x < 0
  BY <1>2, <1>3, SMT
<1>6. QED BY <1>2, <1>4, <1>5

(* Nowhere on the dial is a drafted trigger silent while the facility it   *)
(* watches is on margin call.                                              *)
THEOREM WarningsComeFirst == Spec => []WarnedBeforeTheCall
<1>1. TypeOK => WarnedBeforeTheCall
  <2>. SUFFICES ASSUME TypeOK, NEW w \in Warnings, Breached(Facilities[w.facility], brent)
                PROVE  Hit(w, Facilities[w.facility], w.level, brent)
    BY DEF WarnedBeforeTheCall
  <2>. DEFINE f == Facilities[w.facility]
  <2>1. w.facility \in Book /\ w.level \in Nat /\ brent \in Dial
    BY BookAssumption DEF TypeOK
  <2>2. PICK l \in Int, C \in Int, d \in Int, T \in Nat, B \in Int, b \in Int, V \in Int :
          /\ l = f.lending /\ C = f.C /\ d = f.drawn /\ T = f.trigger_ltv
          /\ B = BrentNow /\ b = brent /\ V = LendingValue(f, brent) /\ V > 0
    <3>1. /\ f.lending \in Int /\ f.C \in Int /\ f.drawn \in Int /\ f.trigger_ltv \in Nat
          /\ brent \in Int /\ BrentNow \in Int /\ LendingValue(f, brent) > 0
      BY <2>1, RowTypes
    <3>2. LendingValue(f, brent) \in Int
      BY <3>1 DEF LendingValue
    <3>. HIDE DEF f
    <3>3. QED BY <3>1, <3>2
  <2>3. T > 0 /\ Facilities[w.facility] \in Facility
    BY <2>1, <2>2, BookAssumption DEF Facility
  <2>4. T * V <= DrawnPercent(f) /\ DrawnPercent(f) \in Int /\ T * V \in Int
    BY <2>2 DEF Breached, DrawnPercent
  <2>5. CASE w.variable = "LTV" /\ w.operator \in {">", ">="} /\ w.level < f.trigger_ltv
    <3>1. w.level * V < T * V /\ w.level * V \in Int
      BY <2>1, <2>2, <2>5, LowerLevel
    <3>2. DrawnPercent(f) > w.level * V
      BY <2>4, <3>1
    <3>3. DrawnPercent(f) >= w.level * V
      BY <2>4, <3>1
    <3>4. QED BY <2>2, <2>5, <3>2, <3>3 DEF Hit, Compare
  <2>6. CASE w.variable = "HEADROOM" /\ w.operator \in {"<", "<="} /\ w.level > 0
    <3>1. Headroom(f, brent) <= 0 /\ Headroom(f, brent) \in Int
      BY <2>2, <2>4 DEF Headroom
    <3>2. w.level * 100 * BrentNow > 0 /\ w.level * 100 * BrentNow \in Int
      <4>1. \A m, n \in Nat \ {0} : m * 100 * n \in Nat \ {0}
        BY SMT
      <4>2. w.level \in Nat \ {0} /\ BrentNow \in Nat \ {0}
        BY <2>1, <2>6, BrentNowAssumption
      <4>3. w.level * 100 * BrentNow \in Nat \ {0}
        BY <4>1, <4>2
      <4>4. QED BY <4>3
    <3>3. Headroom(f, brent) < w.level * 100 * BrentNow
      BY <3>1, <3>2
    <3>4. Headroom(f, brent) <= w.level * 100 * BrentNow
      BY <3>1, <3>2
    <3>5. QED BY <2>6, <3>3, <3>4 DEF Hit, Compare
  <2>7. CASE w.variable = "BRENT" /\ f.C # 0 /\ Headroom(f, w.level) > 0
    <3>1. PICK D \in Int, num \in Int : D = C * T /\ num = B * (C * T + 100 * d - l * T)
      <4>1. C * T \in Int /\ B * (C * T + 100 * d - l * T) \in Int
        OBVIOUS
      <4>2. QED BY <4>1
    <3>2. \A level \in Int :
            f.trigger_ltv * LendingValue(f, level) - DrawnPercent(f) = level * D - num
      <4>. SUFFICES ASSUME NEW level \in Int
                    PROVE  f.trigger_ltv * LendingValue(f, level) - DrawnPercent(f)
                             = level * D - num
        OBVIOUS
      <4>1. LendingValue(f, level) = l * B + C * (level - B) /\ DrawnPercent(f) = 100 * d * B
        BY <2>2 DEF LendingValue, DrawnPercent
      <4>2. T * (l * B + C * (level - B)) - 100 * d * B
              = level * (C * T) - B * (C * T + 100 * d - l * T)
        <5>1. T \in Int
          OBVIOUS
        <5>2. QED BY <5>1, SolvedLevel
      <4>3. PICK x \in Int : x = LendingValue(f, level) /\ x = l * B + C * (level - B)
        BY <4>1
      <4>4. T * x - 100 * d * B = level * D - num
        BY <3>1, <4>2, <4>3
      <4>5. f.trigger_ltv = T
        BY <2>2
      <4>. HIDE DEF f
      <4>6. QED BY <4>1, <4>3, <4>4, <4>5
    <3>3. b * D <= num /\ num < w.level * D
      <4>1. T * V - DrawnPercent(f) = b * D - num
        BY <2>2, <3>2
      <4>2. Headroom(f, w.level) = w.level * D - num
        BY <2>1, <3>2 DEF Headroom
      <4>3. b * D \in Int /\ w.level * D \in Int
        BY <2>1, <2>2, <3>1
      <4>4. QED BY <2>4, <2>7, <3>1, <4>1, <4>2, <4>3
    <3>4. b * D < w.level * D
      <4>1. b * D \in Int /\ w.level * D \in Int
        BY <2>1, <2>2, <3>1
      <4>2. QED BY <3>1, <3>3, <4>1
    <3>5. (C > 0 => D > 0) /\ (C < 0 => D < 0)
      BY <2>2, <2>3, <3>1, SMT
    <3>6. (C > 0 => b < w.level) /\ (C < 0 => b > w.level)
      BY <2>1, <2>2, <3>1, <3>4, <3>5, NearSide
    <3>7. /\ C > 0 => b < w.level /\ b <= w.level
          /\ C < 0 => b > w.level /\ b >= w.level
      BY <2>1, <2>2, <3>6
    <3>8. \/ C > 0 /\ w.operator \in {"<", "<="}
          \/ C < 0 /\ w.operator \in {">", ">="}
      BY <2>2, <2>7, WarningsAssumption DEF Early
    <3>9. QED BY <2>2, <2>7, <3>7, <3>8 DEF Hit, Compare
  <2>8. Early(w)
    BY WarningsAssumption
  <2>9. f.C > 0 \/ f.C < 0 => f.C # 0
    BY <2>2
  <2>10. QED BY <2>5, <2>6, <2>7, <2>8, <2>9 DEF Early
<1>2. QED
  BY <1>1, DialTyping, PTL

(* Moving the dial the way a facility is exposed never lifts its margin    *)
(* call.                                                                   *)
THEOREM MarginCallsAreMonotone == Spec => OneDangerousEnd
<1> DEFINE Worse == \A id \in Book :
      LET f == Facilities[id]
      IN  (brent' - brent) * f.C <= 0 /\ Breached(f, brent) => Breached(f, brent')
<1>1. TypeOK /\ TypeOK' => Worse
  <2>1. SUFFICES ASSUME TypeOK, TypeOK', NEW id \in Book,
                        (brent' - brent) * Facilities[id].C <= 0,
                        Breached(Facilities[id], brent)
                 PROVE  Breached(Facilities[id], brent')
    OBVIOUS
  <2> DEFINE f == Facilities[id]
  <2>2. brent \in Dial /\ brent' \in Dial
    BY <2>1 DEF TypeOK
  <2>3. /\ f.lending \in Int /\ f.C \in Int /\ f.drawn \in Int /\ f.trigger_ltv \in Nat
        /\ brent \in Int /\ brent' \in Int /\ BrentNow \in Int
        /\ LendingValue(f, brent') > 0
    BY <2>2, RowTypes
  <2>4. f.trigger_ltv * LendingValue(f, brent') <= f.trigger_ltv * LendingValue(f, brent)
    BY <2>1, <2>3, FallsWithC DEF LendingValue
  <2>5. /\ f.trigger_ltv * LendingValue(f, brent) \in Int /\ DrawnPercent(f) \in Int
        /\ f.trigger_ltv * LendingValue(f, brent') \in Int
    BY <2>3 DEF LendingValue, DrawnPercent
  <2>6. QED
    BY <2>1, <2>3, <2>4, <2>5 DEF Breached
<1>2. QED
  BY <1>1, DialTyping, PTL DEF OneDangerousEnd

-----------------------------------------------------------------------------
(* The files, facts.json, the plans and what a session loaded are always   *)
(* of a version the bank delivered, and the dial is where it can be.       *)
THEOREM FactsTyping == FactsSpec => []FactsTypeOK
<1>1. FactsInit => FactsTypeOK
  BY BookAssumption DEF FactsInit, Init, FactsTypeOK, TypeOK
<1>2. ASSUME FactsTypeOK, [FactsNext]_factsVars
      PROVE  FactsTypeOK'
  <2>1. CASE \E v \in Versions : Delivery(v)
    BY <1>2, <2>1 DEF Delivery, FactsTypeOK, TypeOK
  <2>2. CASE RunVerify \/ RunBuildPlans
    BY <1>2, <2>2 DEF RunVerify, RunBuildPlans, FactsTypeOK, TypeOK
  <2>3. CASE NewSession \/ reset_demo
    BY <1>2, <2>3, BookAssumption DEF NewSession, reset_demo, FactsTypeOK, TypeOK
  <2>4. CASE \E b \in Dial : Turn(b)
    BY <1>2, <2>4 DEF Turn, move_dial, FactsTypeOK, TypeOK
  <2>5. CASE UNCHANGED factsVars
    BY <1>2, <2>5 DEF factsVars, FactsTypeOK, TypeOK
  <2>6. QED
    BY <1>2, <2>1, <2>2, <2>3, <2>4, <2>5 DEF FactsNext
<1>3. QED
  BY <1>1, <1>2, PTL DEF FactsSpec

(* The desk with its scripts implements the dial: a new session and a      *)
(* reset turn it to today's Brent, and nothing else but the user does.     *)
THEOREM ScriptsImplementTheDial == FactsSpec => Spec
<1>1. FactsInit => Init
  BY DEF FactsInit
<1>2. [FactsNext]_factsVars => [Next]_brent
  BY BookAssumption
  DEF FactsNext, Delivery, RunVerify, RunBuildPlans, NewSession, reset_demo, Turn, factsVars,
      Next, move_dial
<1>3. QED
  BY <1>1, <1>2, PTL DEF FactsSpec, Spec

(* So the solved level is where the facility breaches, and its row         *)
(* consistent, in every session beside the scripts.                        *)
THEOREM BookBesideTheScripts ==
  /\ FactsSpec => [](TriggerInvertsShock /\ BreachHeadroomCureAgree /\ WarnedBeforeTheCall)
  /\ FactsSpec => OneDangerousEnd
BY ScriptsImplementTheDial, SolvedLevelIsTheMarginCall, RowIsConsistent, WarningsComeFirst,
   MarginCallsAreMonotone, PTL

-----------------------------------------------------------------------------
(* The betas of verify.py.                                                 *)

LEMMA SquaresAreNatural == ASSUME NEW r \in Int PROVE r * r \in Nat
BY SMT

LEMMA ReturnTypes ==
  ASSUME NEW d, FilesOK(d), NEW i \in Snapshots(d)
  PROVE  /\ Return(d.brent, i) \in Int
         /\ \A x \in DOMAIN d.price : Return(d.price[x], i) \in Int
<1>1. ASSUME NEW p \in {d.brent} \cup {d.price[x] : x \in DOMAIN d.price}
      PROVE  Return(p, i) \in Int
  <2>1. p \in Seq(Nat \ {0}) /\ Len(p) = Len(d.brent) /\ Len(p) \in Nat
    BY DEF FilesOK
  <2>2. i \in 1 .. Len(p) /\ i + 1 \in 1 .. Len(p)
    BY <2>1 DEF Snapshots
  <2>3. p[i] \in Nat \ {0} /\ p[i + 1] \in Nat \ {0}
    BY <2>1, <2>2
  <2>4. ReturnUnit * (p[i + 1] - p[i]) \in Int
    BY <2>3, DataAssumption
  <2>5. QED BY <2>3, <2>4 DEF Return
<1>2. QED BY <1>1

LEMMA SnapshotsAreFinite ==
  ASSUME NEW d, FilesOK(d)
  PROVE  IsFiniteSet(Snapshots(d))
<1>1. Len(d.brent) \in Nat
  BY DEF FilesOK
<1>2. QED BY <1>1, FS_Interval DEF Snapshots

LEMMA BetaTypes ==
  ASSUME NEW d, FilesOK(d)
  PROVE  /\ BrentSquares(d) \in Nat /\ BetaDen(d) \in Nat \ {0}
         /\ \A x : beta_to_brent(d, x) \in Int
<1>1. BrentSquares(d) \in Nat
  <2>. DEFINE rr == [i \in Snapshots(d) |-> Return(d.brent, i) * Return(d.brent, i)]
  <2>1. \A i \in Snapshots(d) : rr[i] \in Nat
    BY ReturnTypes, SquaresAreNatural
  <2>2. SumFunctionOnSet(rr, Snapshots(d)) \in Nat
    BY <2>1, SnapshotsAreFinite, SumType
  <2>3. QED BY <2>2 DEF BrentSquares, SumFunction
<1>2. ASSUME NEW x PROVE beta_to_brent(d, x) \in Int
  <2>1. CASE HasBeta(d, x)
    <3>. DEFINE ry == [i \in Snapshots(d) |-> Return(d.brent, i) * Return(d.price[x], i)]
    <3>1. \A i \in Snapshots(d) : ry[i] \in Int
      BY <2>1, ReturnTypes DEF HasBeta
    <3>2. SumFunctionOnSet(ry, Snapshots(d)) \in Int
      BY <3>1, SnapshotsAreFinite, SumType
    <3>3. QED BY <2>1, <3>2 DEF beta_to_brent, SumFunction
  <2>2. CASE ~HasBeta(d, x)
    BY <2>2 DEF beta_to_brent
  <2>3. QED BY <2>1, <2>2
<1>3. QED BY <1>1, <1>2 DEF BetaDen

(* The sum of squares is a quadratic function of the slope.                *)
Products(d, x) == SumFunction([i \in Snapshots(d) |-> Return(d.brent, i) * Return(d.price[x], i)])
Squares(d, x)  == SumFunction([i \in Snapshots(d) |-> Return(d.price[x], i) * Return(d.price[x], i)])

LEMMA OneResidual ==
  ASSUME NEW D \in Int, NEW s \in Int, NEW r \in Int, NEW y \in Int
  PROVE  (D * y - s * r) * (D * y - s * r)
           = 1 * ((D * D) * (y * y) + (-2 * s * D) * (r * y)) + (s * s) * (r * r)
BY SMT

LEMMA ResidualIsQuadratic ==
  ASSUME NEW d, FilesOK(d), NEW x \in DOMAIN d.price, NEW s \in Int
  PROVE  /\ Squares(d, x) \in Int /\ Products(d, x) \in Int
         /\ Residual(d, x, s) = ((BetaDen(d) * BetaDen(d)) * Squares(d, x)
                                   + (-2 * s * BetaDen(d)) * Products(d, x))
                                  + (s * s) * BrentSquares(d)
<1>. DEFINE S == Snapshots(d)
            r(i) == Return(d.brent, i)
            y(i) == Return(d.price[x], i)
            rr == [i \in S |-> r(i) * r(i)]
            ry == [i \in S |-> r(i) * y(i)]
            yy == [i \in S |-> y(i) * y(i)]
            Sum(f) == SumFunctionOnSet(f, S)
<1>1. PICK D \in Int : D = BetaDen(d)
  BY BetaTypes
<1>. DEFINE part == [i \in S |-> (D * D) * yy[i] + (-2 * s * D) * ry[i]]
            e == [i \in S |-> (D * y(i) - s * r(i)) * (D * y(i) - s * r(i))]
<1>2. IsFiniteSet(S) /\ \A i \in S : r(i) \in Int /\ y(i) \in Int
  BY ReturnTypes, SnapshotsAreFinite
<1>3. /\ \A i \in S : rr[i] = r(i) * r(i) /\ ry[i] = r(i) * y(i) /\ yy[i] = y(i) * y(i)
      /\ \A i \in S : rr[i] \in Int /\ ry[i] \in Int /\ yy[i] \in Int
  BY <1>2
<1>4. D * D \in Int /\ -2 * s * D \in Int /\ s * s \in Int
  BY <1>1
<1>5. \A i \in S : part[i] \in Int /\ part[i] = (D * D) * yy[i] + (-2 * s * D) * ry[i]
  <2>1. \A i \in S : part[i] = (D * D) * yy[i] + (-2 * s * D) * ry[i]
    OBVIOUS
  <2>. HIDE DEF part
  <2>2. QED BY <1>3, <1>4, <2>1
<1>6. \A i \in S : e[i] = 1 * part[i] + (s * s) * rr[i]
  <2>. SUFFICES ASSUME NEW i \in S PROVE e[i] = 1 * part[i] + (s * s) * rr[i]
    OBVIOUS
  <2>1. e[i] = (D * y(i) - s * r(i)) * (D * y(i) - s * r(i))
    OBVIOUS
  <2>2. PICK u \in Int, v \in Int : u = r(i) /\ v = y(i)
    BY <1>2
  <2>3. rr[i] = u * u /\ part[i] = (D * D) * (v * v) + (-2 * s * D) * (u * v) /\ e[i] = (D * v - s * u) * (D * v - s * u)
    BY <1>3, <1>5, <2>1, <2>2
  <2>. HIDE DEF e, part, rr
  <2>4. QED BY <1>1, <2>2, <2>3, OneResidual
<1>7. Residual(d, x, s) = Sum(e)
  BY <1>1 DEF Residual, SumFunction
<1>8. Sum(rr) = BrentSquares(d) /\ Sum(ry) = Products(d, x) /\ Sum(yy) = Squares(d, x)
  BY DEF BrentSquares, Products, Squares, SumFunction
<1>. HIDE DEF e, part, rr, ry, yy, S
<1>9. Sum(part) = (D * D) * Sum(yy) + (-2 * s * D) * Sum(ry)
  BY <1>2, <1>3, <1>4, <1>5, SumIsLinear
<1>10. Sum(e) = 1 * Sum(part) + (s * s) * Sum(rr)
  BY <1>2, <1>3, <1>4, <1>5, <1>6, SumIsLinear
<1>11. Sum(part) \in Int /\ Sum(yy) \in Int /\ Sum(ry) \in Int
  BY <1>2, <1>3, <1>5, SumType
<1>12. 1 * Sum(part) = Sum(part)
  BY <1>11
<1>13. QED BY <1>1, <1>7, <1>8, <1>9, <1>10, <1>11, <1>12

(* Between two slopes the sums differ by a square, when one is the beta.   *)
LEMMA CompleteTheSquare ==
  ASSUME NEW D \in Nat, NEW Y \in Int, NEW B \in Int, NEW s \in Int
  PROVE  (((D * D) * Y + (-2 * B * D) * B) + (B * B) * D)
           <= (((D * D) * Y + (-2 * s * D) * B) + (s * s) * D)
<1>1. (((D * D) * Y + (-2 * s * D) * B) + (s * s) * D)
        = (((D * D) * Y + (-2 * B * D) * B) + (B * B) * D) + D * ((s - B) * (s - B))
  BY SMT
<1>2. PICK q \in Nat : q = (s - B) * (s - B)
  BY SquaresAreNatural
<1>3. D * q \in Nat
  BY <1>2, SMT
<1>4. PICK m \in Int : m = ((D * D) * Y + (-2 * B * D) * B) + (B * B) * D
  BY SMT
<1>5. QED BY <1>1, <1>2, <1>3, <1>4

\* Without a beta, Brent did not move.
LEMMA FlatBrent ==
  ASSUME NEW d, FilesOK(d), NEW x \in DOMAIN d.price, BrentSquares(d) = 0
  PROVE  Products(d, x) = 0
<1>. DEFINE S == Snapshots(d)
            rr == [i \in S |-> Return(d.brent, i) * Return(d.brent, i)]
            ry == [i \in S |-> Return(d.brent, i) * Return(d.price[x], i)]
<1>1. IsFiniteSet(S) /\ \A i \in S : rr[i] \in Nat
  BY ReturnTypes, SnapshotsAreFinite, SquaresAreNatural
<1>2. SumFunctionOnSet(rr, S) = 0
  BY DEF BrentSquares, SumFunction
<1>3. ASSUME NEW i \in S PROVE ry[i] = 0
  <2>1. rr[i] = 0
    <3>1. PICK rest \in Nat : rest = SumFunctionOnSet(rr, S \ {i})
      <4>. HIDE DEF rr
      <4>1. QED BY <1>1, SumType
    <3>2. SumFunctionOnSet(rr, S) = rr[i] + rest
      <4>. HIDE DEF rr
      <4>1. QED BY <1>1, <3>1, SumTakesOut
    <3>3. rr[i] \in Nat
      BY <1>1
    <3>. HIDE DEF rr
    <3>4. QED BY <1>2, <3>1, <3>2, <3>3
  <2>2. PICK u \in Int, v \in Int : u = Return(d.brent, i) /\ v = Return(d.price[x], i)
    BY ReturnTypes
  <2>3. u * u = 0
    BY <2>1, <2>2
  <2>4. u = 0
    BY <2>2, <2>3, SMT
  <2>5. ry[i] = u * v
    BY <2>2
  <2>6. QED BY <2>4, <2>5
<1>. HIDE DEF ry
<1>4. PICK n \in Nat : n = Cardinality(S)
  BY <1>1, FS_CardinalityType
<1>5. \A i \in S : ry[i] \in Int /\ ry[i] <= 0 /\ -0 <= ry[i]
  BY <1>3
<1>6. /\ SumFunctionOnSet(ry, S) <= 0 * n /\ -(0 * n) <= SumFunctionOnSet(ry, S)
      /\ SumFunctionOnSet(ry, S) \in Int
  BY <1>1, <1>4, <1>5, SumIsBounded, SumType
<1>7. SumFunctionOnSet(ry, S) = 0
  BY <1>4, <1>6
<1>8. QED BY <1>7 DEF Products, SumFunction, ry

LEMMA BetaIsBest ==
  ASSUME NEW d, FilesOK(d), NEW x \in DOMAIN d.price, NEW s \in Int
  PROVE  Residual(d, x, beta_to_brent(d, x)) <= Residual(d, x, s)
<1>1. PICK D \in Nat, B \in Int : D = BetaDen(d) /\ B = beta_to_brent(d, x)
  BY BetaTypes
<1>2. PICK Y \in Int : Y = Squares(d, x)
  BY ResidualIsQuadratic
<1>3. \A t \in Int : Residual(d, x, t)
         = ((D * D) * Y + (-2 * t * D) * Products(d, x)) + (t * t) * BrentSquares(d)
  BY <1>1, <1>2, ResidualIsQuadratic
<1>4. CASE BrentSquares(d) # 0
  <2>1. BrentSquares(d) = D /\ Products(d, x) = B
    BY <1>1, <1>4 DEF BetaDen, beta_to_brent, HasBeta, Products
  <2>2. QED BY <1>1, <1>2, <1>3, <2>1, CompleteTheSquare
<1>5. CASE BrentSquares(d) = 0
  <2>1. Products(d, x) = 0
    BY <1>5, FlatBrent
  <2>2. \A t \in Int : Residual(d, x, t) = ((D * D) * Y + (-2 * t * D) * 0) + (t * t) * 0
    BY <1>3, <1>5, <2>1
  <2>3. PICK m \in Int : m = (D * D) * Y
    BY <1>1, <1>2
  <2>4. \A t \in Int : (m + (-2 * t * D) * 0) + (t * t) * 0 = m
    BY <1>1, <2>3
  <2>5. QED BY <1>1, <2>2, <2>3, <2>4
<1>6. QED BY <1>4, <1>5

(* In every session, whatever files were delivered, the reported beta is   *)
(* the slope of least squares among all the slopes of its denominator.     *)
THEOREM BetaFitsBest == FactsSpec => []BetaIsLeastSquares
<1>1. FactsTypeOK => BetaIsLeastSquares
  <2>. SUFFICES ASSUME FactsTypeOK, NEW x \in DOMAIN Data[session.facts].price,
                       NEW s \in (-2 * BetaDen(Data[session.facts]))
                                   .. (2 * BetaDen(Data[session.facts]))
                PROVE  Residual(Data[session.facts], x, beta_to_brent(Data[session.facts], x))
                         <= Residual(Data[session.facts], x, s)
    BY DEF BetaIsLeastSquares
  <2>1. FilesOK(Data[session.facts])
    BY DataAssumption DEF FactsTypeOK
  <2>2. s \in Int
    BY <2>1, BetaTypes
  <2>3. QED BY <2>1, <2>2, BetaIsBest
<1>2. QED
  BY <1>1, FactsTyping, PTL

-----------------------------------------------------------------------------
(* One number for a pool.                                                  *)

LEMMA OneLeg ==
  ASSUME NEW l \in Int, NEW beta \in Int, NEW D \in Int, NEW B \in Int, NEW b \in Int
  PROVE  l * (D * B + beta * (b - B)) = (D * B) * l + (b - B) * (l * beta)
BY SMT

LEMMA PoolSum ==
  ASSUME NEW L \in Int, NEW C \in Int, NEW D \in Int, NEW B \in Int, NEW b \in Int
  PROVE  (D * L) * B + C * (b - B) = (D * B) * L + (b - B) * C
BY SMT

LEMMA HoldingTypes ==
  ASSUME NEW d, FilesOK(d), NEW h \in d.holdings
  PROVE  /\ h.mv \in Int /\ h.lv \in Int /\ h.rate \in Int
         /\ beta_to_brent(d, h.instrument) \in Int
BY BetaTypes DEF FilesOK

LEMMA PoolRevalued ==
  ASSUME NEW d, FilesOK(d), NEW id, NEW b \in Int
  PROVE  /\ LendingValue(facility_row(d, id), b)
              = SumFunction([h \in Pool(d, id) |->
                  h.lv * (BetaDen(d) * BrentNow
                            + beta_to_brent(d, h.instrument) * (b - BrentNow))])
         /\ LendingValue(facility_row(d, id), b) \in Int
<1>. DEFINE S == Pool(d, id)
            lvs == [h \in S |-> h.lv]
            legs == [h \in S |-> h.lv * beta_to_brent(d, h.instrument)]
            Sum(f) == SumFunctionOnSet(f, S)
<1>1. PICK D \in Int, B \in Int : D = BetaDen(d) /\ B = BrentNow
  BY BetaTypes, BrentNowAssumption
<1>. DEFINE vals == [h \in S |-> h.lv * (D * B + beta_to_brent(d, h.instrument) * (b - B))]
<1>2. S \subseteq d.holdings /\ IsFiniteSet(S)
  BY FS_Subset DEF Pool, FilesOK
<1>3. \A h \in S : lvs[h] \in Int /\ legs[h] \in Int
  BY <1>2, HoldingTypes
<1>4. D * B \in Int /\ b - B \in Int
  BY <1>1
<1>5. \A h \in S : vals[h] = (D * B) * lvs[h] + (b - B) * legs[h]
  <2>. SUFFICES ASSUME NEW h \in S PROVE vals[h] = (D * B) * lvs[h] + (b - B) * legs[h]
    OBVIOUS
  <2>1. PICK l \in Int, beta \in Int : l = h.lv /\ beta = beta_to_brent(d, h.instrument)
    BY <1>2, HoldingTypes
  <2>2. vals[h] = l * (D * B + beta * (b - B)) /\ lvs[h] = l /\ legs[h] = l * beta
    BY <2>1
  <2>. HIDE DEF vals, lvs, legs
  <2>3. QED BY <1>1, <2>1, <2>2, OneLeg
<1>6. /\ facility_row(d, id).lending = D * Sum(lvs) /\ facility_row(d, id).C = Sum(legs)
  BY <1>1 DEF facility_row, SumFunction
<1>7. SumFunction([h \in Pool(d, id) |->
         h.lv * (BetaDen(d) * BrentNow + beta_to_brent(d, h.instrument) * (b - BrentNow))])
        = Sum(vals)
  BY <1>1 DEF SumFunction
<1>. HIDE DEF S, vals, lvs, legs
<1>8. Sum(vals) = (D * B) * Sum(lvs) + (b - B) * Sum(legs)
  <2>1. PICK k \in Int, m \in Int : k = D * B /\ m = b - B
    BY <1>4
  <2>2. \A h \in S : lvs[h] \in Int /\ legs[h] \in Int /\ vals[h] = k * lvs[h] + m * legs[h]
    BY <1>3, <1>5, <2>1
  <2>3. Sum(vals) = k * Sum(lvs) + m * Sum(legs)
    BY <1>2, <2>2, SumIsLinear
  <2>4. QED BY <2>1, <2>3
<1>9. PICK L \in Int, C \in Int : L = Sum(lvs) /\ C = Sum(legs)
  BY <1>2, <1>3, SumType
<1>10. LendingValue(facility_row(d, id), b) = (D * L) * B + C * (b - B)
  BY <1>1, <1>6, <1>9 DEF LendingValue
<1>11. (D * L) * B + C * (b - B) \in Int
  BY <1>1, <1>9
<1>12. QED BY <1>1, <1>7, <1>8, <1>9, <1>10, <1>11, PoolSum

(* In every session, and wherever its dial stands, the one sensitivity of  *)
(* a facility gives what revaluing its pool holding by holding would.      *)
THEOREM SensitivityRevaluesThePool == FactsSpec => []PoolIsRevalued
<1>1. FactsTypeOK => PoolIsRevalued
  <2>. SUFFICES ASSUME FactsTypeOK PROVE PoolIsRevalued
    OBVIOUS
  <2>1. PICK d : d = Data[session.facts] /\ FilesOK(d)
    BY DataAssumption DEF FactsTypeOK
  <2>2. PICK b \in Int : b = brent
    BY BookAssumption DEF FactsTypeOK, TypeOK
  <2>3. \A id \in DOMAIN d.cf : Loaded.facilities[id] = facility_row(d, id)
    BY <2>1 DEF Loaded, FactsOf, FactsTypeOK
  <2>4. QED BY <2>1, <2>2, <2>3, PoolRevalued DEF PoolIsRevalued
<1>2. QED
  BY <1>1, FactsTyping, PTL

-----------------------------------------------------------------------------
(* The household: the session sums over the positions in facts.json, which *)
(* verify.py wrote one per holding; its own shock leaves out small moves.  *)

PositionOf(d, h) ==
  [client |-> h.client, portfolio |-> h.portfolio, holding |-> h.instrument,
   mv |-> h.mv, rate |-> h.rate, beta |-> beta_to_brent(d, h.instrument)]

LEMMA PositionsAreHoldings ==
  ASSUME NEW v \in Versions, NEW c \in Clients, NEW b \in Int
  PROVE  LET d == Data[v]
             S == HoldingsOf(d, c)
             moves == [h \in S |-> Move(d, h, b)]
         IN  /\ IsFiniteSet(S) /\ \A h \in S : moves[h] \in Int
             /\ ClientDelta(FactsOf[v], c, b) = SumFunctionOnSet(moves, S)
             /\ Cardinality(PositionsOf(FactsOf[v], c)) = Cardinality(S)
<1>1. PICK d : d = Data[v] /\ FilesOK(d)
  BY DataAssumption
<1>. DEFINE S == HoldingsOf(d, c)
            moves == [h \in S |-> Move(d, h, b)]
            name == [h \in S |-> PositionOf(d, h)]
            N == {name[h] : h \in S}
            deltas == [p \in N |-> p.mv * p.beta * (b - BrentNow)]
<1>2. S \subseteq d.holdings /\ IsFiniteSet(S)
  BY <1>1, FS_Subset DEF HoldingsOf, FilesOK
<1>3. \A h \in S : moves[h] \in Int
  BY <1>1, <1>2, HoldingTypes, BrentNowAssumption DEF Move
<1>4. \A g, h \in S : name[g] = name[h] => g = h
  <2>. SUFFICES ASSUME NEW g \in S, NEW h \in S, name[g] = name[h] PROVE g = h
    OBVIOUS
  <2>1. g.portfolio = h.portfolio /\ g.instrument = h.instrument
    BY DEF PositionOf
  <2>2. QED BY <1>1, <1>2, <2>1 DEF FilesOK
<1>5. \A h \in S : deltas[name[h]] = moves[h]
  BY DEF PositionOf, Move
<1>6. PositionsOf(FactsOf[v], c) = N
  <2>1. FactsOf[v].positions = {PositionOf(d, h) : h \in {x \in d.holdings : x.client \in Clients}}
    BY <1>1 DEF FactsOf, PositionOf
  <2>2. PositionsOf(FactsOf[v], c) = {PositionOf(d, h) : h \in HoldingsOf(d, c)}
    <3>1. \A h : PositionOf(d, h).client = h.client
      BY DEF PositionOf
    <3>2. QED BY <2>1, <3>1 DEF PositionsOf, HoldingsOf
  <2>3. QED BY <2>2
<1>7. ClientDelta(FactsOf[v], c, b) = SumFunctionOnSet(deltas, N)
  BY <1>6 DEF ClientDelta, SumFunction
<1>. HIDE DEF deltas, moves, name
<1>8. /\ Cardinality(N) = Cardinality(S)
      /\ SumFunctionOnSet(deltas, N) = SumFunctionOnSet(moves, S)
  BY <1>2, <1>3, <1>4, <1>5, SumRenames
<1>9. QED BY <1>1, <1>2, <1>3, <1>6, <1>7, <1>8 DEF moves

LEMMA SmallMovesAreLeftOut ==
  ASSUME NEW v \in Versions, NEW c \in Clients, NEW b \in Int
  PROVE  LET small == SmallMove * BetaDen(Data[v]) * BrentNow
             off   == verify_shock(Data[v], c, b) - ClientDelta(FactsOf[v], c, b)
             most  == small * Cardinality(PositionsOf(FactsOf[v], c))
         IN  off <= most /\ -off <= most
<1>1. PICK d : d = Data[v] /\ FilesOK(d)
  BY DataAssumption
<1>. DEFINE S == HoldingsOf(d, c)
            moves == [h \in S |-> Move(d, h, b)]
            Sum(f, T) == SumFunctionOnSet(f, T)
<1>2. /\ IsFiniteSet(S) /\ \A h \in S : moves[h] \in Int
      /\ ClientDelta(FactsOf[v], c, b) = Sum(moves, S)
      /\ Cardinality(PositionsOf(FactsOf[v], c)) = Cardinality(S)
  BY <1>1, PositionsAreHoldings
<1>3. PICK small \in Nat : small = SmallMove * BetaDen(d) * BrentNow
  <2>1. BetaDen(d) \in Nat /\ SmallMove \in Nat /\ BrentNow \in Nat
    BY <1>1, BetaTypes, DataAssumption, BrentNowAssumption
  <2>2. \A m, n, k \in Nat : m * n * k \in Nat
    BY SMT
  <2>3. QED BY <2>1, <2>2
<1>. DEFINE Large == {h \in S : Move(d, h, b) > small \/ Move(d, h, b) < -small}
            large == [h \in Large |-> Move(d, h, b)]
<1>4. verify_shock(d, c, b) = Sum(large, Large)
  BY <1>3 DEF verify_shock, SumFunction
<1>5. Sum(large, Large) = Sum(moves, Large)
  <2>1. IsFiniteSet(Large)
    BY <1>2, FS_Subset
  <2>2. \A h \in Large : moves[h] \in Int /\ large[h] = moves[h]
    BY <1>2
  <2>. HIDE DEF large, moves, Large
  <2>3. QED BY <2>1, <2>2, SumAgrees
<1>6. \A h \in S \ Large : moves[h] \in Int /\ moves[h] <= small /\ -small <= moves[h]
  <2>. SUFFICES ASSUME NEW h \in S \ Large
                PROVE  moves[h] \in Int /\ moves[h] <= small /\ -small <= moves[h]
    OBVIOUS
  <2>1. PICK m \in Int : m = moves[h] /\ m = Move(d, h, b)
    BY <1>2
  <2>2. ~(m > small) /\ ~(m < -small)
    BY <2>1
  <2>3. QED BY <1>3, <2>1, <2>2
<1>. HIDE DEF moves
<1>7. PICK n \in Nat, r \in Nat : n = Cardinality(S) /\ r = Cardinality(S \ Large) /\ r <= n
  BY <1>2, FS_Subset, FS_CardinalityType
<1>8. PICK x \in Int, y \in Int : x = Sum(moves, Large) /\ y = Sum(moves, S \ Large)
  BY <1>2, SumType
<1>9. Sum(moves, S) = x + y
  <2>1. Large \in SUBSET S
    OBVIOUS
  <2>2. QED BY <1>2, <1>8, <2>1, SumSplits
<1>10. y <= small * r /\ -(small * r) <= y
  <2>1. IsFiniteSet(S \ Large)
    BY <1>2, FS_Subset
  <2>2. QED BY <1>3, <1>6, <1>7, <1>8, <2>1, SumIsBounded
<1>11. small * r <= small * n /\ small * r \in Int /\ small * n \in Int
  <2>1. \A k, m, q \in Nat : m <= q => k * m <= k * q
    BY TimesMonotone
  <2>2. QED BY <1>3, <1>7, <2>1
<1>12. PICK most \in Int : most = small * n /\ y <= most /\ -most <= y
  <2>1. PICK k \in Int, m \in Int : k = small * r /\ m = small * n
    BY <1>11
  <2>2. k <= m /\ y <= k /\ -k <= y
    BY <1>10, <1>11, <2>1
  <2>3. y <= m /\ -m <= y
    BY <1>8, <2>1, <2>2
  <2>4. QED BY <2>1, <2>3
<1>13. x - (x + y) <= most /\ -(x - (x + y)) <= most
  BY <1>8, <1>12
<1>14. verify_shock(d, c, b) - ClientDelta(FactsOf[v], c, b) = x - (x + y)
  BY <1>2, <1>4, <1>5, <1>8, <1>9
<1>15. QED BY <1>1, <1>2, <1>3, <1>7, <1>12, <1>13, <1>14

(* There is one top-up holding at most, so its advance rate is the one     *)
(* at_brent() divides by.                                                  *)
LEMMA OneTopUp ==
  ASSUME NEW v \in Versions
  PROVE  \A p, q \in TopUpHolding(FactsOf[v]) : p = q
<1>1. PICK d : d = Data[v] /\ FilesOK(d)
  BY DataAssumption
<1>2. FactsOf[v].positions = {PositionOf(d, h) : h \in {x \in d.holdings : x.client \in Clients}}
  BY <1>1 DEF FactsOf, PositionOf
<1>. SUFFICES ASSUME NEW p \in TopUpHolding(FactsOf[v]), NEW q \in TopUpHolding(FactsOf[v])
              PROVE  p = q
  OBVIOUS
<1>3. PICK g \in d.holdings, h \in d.holdings : p = PositionOf(d, g) /\ q = PositionOf(d, h)
  BY <1>2 DEF TopUpHolding
<1>4. g.portfolio = h.portfolio /\ g.instrument = h.instrument
  BY <1>3 DEF TopUpHolding, PositionOf
<1>5. QED BY <1>1, <1>3, <1>4 DEF FilesOK

(* In every session whose plans were built from the facts it loaded, the   *)
(* numbers frozen into the card are those the dial shows at their level.   *)
THEOREM FrozenNumbersHold == FactsSpec => []FrozenIsWhatTheDialShows
<1>1. FactsTypeOK => FrozenIsWhatTheDialShows
  <2>. DEFINE v == session.facts
              d == Data[v]
              plan  == PlanOf(Loaded)
              row   == Loaded.facilities[DemoFacility]
              small == SmallMove * BetaDen(d) * BrentNow
              off   == plan.household_delta - ClientDelta(Loaded, DemoClient, brent)
              most  == small * Cardinality(PositionsOf(Loaded, DemoClient))
  <2>. SUFFICES ASSUME FactsTypeOK
                PROVE  /\ brent = PreConflict =>
                            /\ plan.at.lending = LendingValue(row, brent)
                            /\ row.trigger_ltv = MarginCallLiteral /\ CureCash(row, brent) > 0 =>
                                 /\ plan.at.cure_cash = CureCash(row, brent)
                                 /\ \A p \in TopUpHolding(Loaded) :
                                      plan.at.topup_mv.num * p.rate
                                        = 10 * plan.at.topup_mv.den * CureCash(row, brent)
                       /\ brent = ScenarioLevel => off <= most /\ -off <= most
    BY DEF FrozenIsWhatTheDialShows
  <2>1. v \in Versions /\ Loaded = FactsOf[v] /\ FilesOK(d) /\ brent \in Int
    BY DataAssumption, BookAssumption DEF FactsTypeOK, TypeOK, Loaded
  <2>2. row = facility_row(d, DemoFacility)
    BY <2>1 DEF FactsOf, FilesOK
  <2>3. ASSUME brent = PreConflict PROVE plan.at.lending = LendingValue(row, brent)
    BY <2>3 DEF PlanOf, at_brent
  <2>4. ASSUME brent = PreConflict, row.trigger_ltv = MarginCallLiteral, CureCash(row, brent) > 0
        PROVE  /\ plan.at.cure_cash = CureCash(row, brent)
               /\ \A p \in TopUpHolding(Loaded) :
                    plan.at.topup_mv.num * p.rate
                      = 10 * plan.at.topup_mv.den * CureCash(row, brent)
    <3>1. PICK gap \in Int : gap = DrawnPercent(row) - MarginCallLiteral * LendingValue(row, brent)
      <4>1. LendingValue(row, brent) \in Int
        BY <2>1, <2>2, PoolRevalued
      <4>2. row.drawn \in Int
        <5>1. d.cf[DemoFacility].drawn \in Int
          BY <2>1 DEF FilesOK
        <5>2. BetaDen(d) \in Int
          BY <2>1, BetaTypes
        <5>3. row.drawn = BetaDen(d) * d.cf[DemoFacility].drawn
          BY <2>2 DEF facility_row
        <5>4. QED BY <5>1, <5>2, <5>3
      <4>3. QED BY <4>1, <4>2, BrentNowAssumption DEF DrawnPercent, MarginCallLiteral
    <3>2. CureCash(row, brent) = gap
      BY <2>4, <3>1 DEF CureCash
    <3>3. plan.at.cure_cash = gap
      BY <2>4, <3>1 DEF PlanOf, at_brent
    <3>4. ASSUME NEW p \in TopUpHolding(Loaded)
          PROVE  plan.at.topup_mv.num * p.rate = 10 * plan.at.topup_mv.den * CureCash(row, brent)
      <4>1. (CHOOSE q \in TopUpHolding(Loaded) : TRUE) = p
        BY <2>1, OneTopUp
      <4>2. plan.at.topup_mv = [num |-> 10 * gap, den |-> p.rate]
        BY <2>4, <3>1, <4>1 DEF PlanOf, at_brent
      <4>3. PICK rate \in Int : rate = p.rate
        <5>1. PICK h \in d.holdings : p = PositionOf(d, h)
          BY <2>1 DEF TopUpHolding, FactsOf, PositionOf
        <5>2. QED BY <2>1, <5>1, HoldingTypes DEF PositionOf
      <4>4. plan.at.topup_mv.num = 10 * gap /\ plan.at.topup_mv.den = rate
        BY <4>2, <4>3
      <4>5. (10 * gap) * rate = (10 * rate) * gap
        BY <3>1, <4>3, SMT
      <4>6. QED BY <3>2, <4>3, <4>4, <4>5
    <3>5. QED BY <3>2, <3>3, <3>4
  <2>5. ASSUME brent = ScenarioLevel PROVE off <= most /\ -off <= most
    <3>1. plan.household_delta = verify_shock(d, DemoClient, brent)
      BY <2>1, <2>5, DataAssumption DEF PlanOf, FactsOf
    <3>2. PICK b \in Int : b = brent
      BY <2>1
    <3>3. QED BY <2>1, <3>1, <3>2, SmallMovesAreLeftOut, DataAssumption
  <2>6. QED BY <2>3, <2>4, <2>5
<1>2. QED
  BY <1>1, FactsTyping, PTL
=============================================================================
