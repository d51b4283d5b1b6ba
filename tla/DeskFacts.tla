------------------------------- MODULE DeskFacts -------------------------------
(***************************************************************************)
(* Where the desk's numbers come from: verify.py computes facts.json from  *)
(* the bank's CSV files, build_plans.py freezes some of its numbers into   *)
(* the plan files, and a session of app.py loads both, shows the frozen    *)
(* numbers on a plan's card and recomputes the same ones on the dial.      *)
(* Three programs, run by hand, with two implementations of the shock.     *)
(*                                                                         *)
(* Money is in thousands and multiplied by the denominator of the betas,   *)
(* which all instruments share; a facility's row is then one of Engine's.  *)
(***************************************************************************)
EXTENDS BookOnDial, Sequences, FiniteSets, Functions

CONSTANTS
  Versions,       \* the contents the CSV files have in turn
  Data,           \* [Versions -> [brent, price, holdings, cf]]
  ReturnUnit,     \* every return is a multiple of 1 / ReturnUnit
  Watch,          \* WATCH: instruments whose beta the report prints
  Clients,        \* the clients verify.py computes positions for
  DemoFacility, DemoClient,   \* CF-0005, CL-0001
  TopUp, TopUpPortfolio,      \* SYN-FI-0208 in PF-0001
  ScenarioLevel,  \* DIAL of verify.py and TRIG of build_plans.py
  PreConflict,    \* the Brent fixing of 2026-02-27
  SmallMove       \* verify.py leaves out moves that are not larger (USD 1,000)

\* build_plans.py writes the margin call of the demo facility as 0.70.
MarginCallLiteral == 70

Return(p, i) == (ReturnUnit * (p[i + 1] - p[i])) \div p[i]
Snapshots(d) == 1 .. Len(d.brent) - 1

(* Fixings and prices are positive, one per snapshot, the last fixing is   *)
(* today's; a portfolio has one row per instrument.                        *)
FilesOK(d) ==
  /\ d.brent[Len(d.brent)] = BrentNow
  /\ \A p \in {d.brent} \cup {d.price[x] : x \in DOMAIN d.price} :
       /\ p \in Seq(Nat \ {0}) /\ Len(p) = Len(d.brent)
       /\ \A i \in Snapshots(d) : (ReturnUnit * (p[i + 1] - p[i])) % p[i] = 0
  /\ IsFiniteSet(d.holdings)
  /\ \A h \in d.holdings : h.mv \in Int /\ h.lv \in Int /\ h.rate \in Int
  /\ \A h, k \in d.holdings : h.portfolio = k.portfolio /\ h.instrument = k.instrument => h = k
  /\ DemoFacility \in DOMAIN d.cf
  /\ \A id \in DOMAIN d.cf : d.cf[id].drawn \in Nat /\ d.cf[id].trigger_ltv \in Nat

ASSUME DataAssumption ==
  /\ {ScenarioLevel, PreConflict} \subseteq Dial
  /\ ReturnUnit \in Nat \ {0} /\ SmallMove \in Nat /\ DemoClient \in Clients
  /\ \A v \in Versions : FilesOK(Data[v])

VARIABLES
  data,     \* the version of the CSV files
  facts,    \* the version facts.json was computed from
  plans,    \* the version of facts.json the plan files were built from
  session   \* [facts, plans]: what the session has loaded

factsVars == <<brent, data, facts, plans, session>>

-----------------------------------------------------------------------------
(* verify.py.                                                              *)

BrentSquares(d) ==
  SumFunction([i \in Snapshots(d) |-> Return(d.brent, i) * Return(d.brent, i)])

\* den; there is no beta where it is 0 or the instrument has no prices
BetaDen(d) == IF BrentSquares(d) = 0 THEN 1 ELSE BrentSquares(d)
HasBeta(d, x) == x \in DOMAIN d.price /\ BrentSquares(d) # 0

\* Mutant: the first of the returns is lost.
beta_to_brent_OneShort(d, x) ==
  IF HasBeta(d, x)
  THEN SumFunction([i \in Snapshots(d) \ {1} |-> Return(d.brent, i) * Return(d.price[x], i)])
  ELSE 0

\* beta * den, and 0 where the callers find None
beta_to_brent(d, x) ==
  IF HasBeta(d, x)
  THEN SumFunction([i \in Snapshots(d) |-> Return(d.brent, i) * Return(d.price[x], i)])
  ELSE 0

Pool(d, id) == {h \in d.holdings : h.portfolio = d.cf[id].pool}

\* Mutant: the sensitivity weighs market values, not what the bank lends on them.
facility_row_MarketValues(d, id) ==
  [lending |-> BetaDen(d) * SumFunction([h \in Pool(d, id) |-> h.lv]),
   C |-> SumFunction([h \in Pool(d, id) |-> h.mv * beta_to_brent(d, h.instrument)]),
   drawn |-> BetaDen(d) * d.cf[id].drawn, trigger_ltv |-> d.cf[id].trigger_ltv]

\* brent_trigger(): LV0, C over the legs of the pool, drawn and the trigger
facility_row(d, id) ==
  [lending |-> BetaDen(d) * SumFunction([h \in Pool(d, id) |-> h.lv]),
   C |-> SumFunction([h \in Pool(d, id) |-> h.lv * beta_to_brent(d, h.instrument)]),
   drawn |-> BetaDen(d) * d.cf[id].drawn, trigger_ltv |-> d.cf[id].trigger_ltv]

\* Everything in money below is multiplied by den and by B0.
Move(d, h, b) == h.mv * beta_to_brent(d, h.instrument) * (b - BrentNow)
HoldingsOf(d, c) == {h \in d.holdings : h.client = c}

\* Mutant: the sign of a move is not taken off before it is compared.
verify_shock_GainsOnly(d, c, b) ==
  SumFunction([h \in {x \in HoldingsOf(d, c) : Move(d, x, b) > SmallMove * BetaDen(d) * BrentNow}
                 |-> Move(d, h, b)])

\* shock(): usd_delta, without the small moves
verify_shock(d, c, b) ==
  LET small == SmallMove * BetaDen(d) * BrentNow
      large == {h \in HoldingsOf(d, c) : Move(d, h, b) > small \/ Move(d, h, b) < -small}
  IN  SumFunction([h \in large |-> Move(d, h, b)])

\* facts.json, for each version of the data
FactsOf ==
  [v \in Versions |->
     LET d == Data[v]
     IN  [facilities |-> [id \in DOMAIN d.cf |-> facility_row(d, id)],
          positions  |-> {[client |-> h.client, portfolio |-> h.portfolio,
                           holding |-> h.instrument, mv |-> h.mv, rate |-> h.rate,
                           beta |-> beta_to_brent(d, h.instrument)] :
                            h \in {x \in d.holdings : x.client \in Clients}},
          scenario   |-> [c \in Clients |-> verify_shock(d, c, ScenarioLevel)]]]

\* The report prints b['beta'] of the instruments on watch, which fails on None.
Verifiable(d) == \A x \in Watch : HasBeta(d, x)

-----------------------------------------------------------------------------
(* engine.py on facts.json: the clients' side of shock().                  *)

PositionsOf(f, c) == {p \in f.positions : p.client = c}
ClientDelta(f, c, b) ==
  SumFunction([p \in PositionsOf(f, c) |-> p.mv * p.beta * (b - BrentNow)])

-----------------------------------------------------------------------------
(* build_plans.py.                                                         *)

TopUpHolding(f) == {p \in f.positions : p.holding = TopUp /\ p.portfolio = TopUpPortfolio}

\* Mutant: the gap is taken for an amount of market value.
at_brent_NoAdvanceRate(f, b) ==
  LET row == f.facilities[DemoFacility]
      gap == DrawnPercent(row) - MarginCallLiteral * LendingValue(row, b)
  IN  [lending |-> LendingValue(row, b), cure_cash |-> gap, lv_gap |-> gap,
       topup_mv |-> [num |-> gap, den |-> 1]]

(* at_brent(): the lending value, the cash and the lending value missing   *)
(* from 0.70 (times 100 and times 70 the same number), and the market      *)
(* value of the top-up holding whose advance rate, in tenths, gives that.  *)
at_brent(f, b) ==
  LET row == f.facilities[DemoFacility]
      gap == DrawnPercent(row) - MarginCallLiteral * LendingValue(row, b)
  IN  [lending |-> LendingValue(row, b), cure_cash |-> gap, lv_gap |-> gap,
       topup_mv |-> [num |-> 10 * gap, den |-> (CHOOSE p \in TopUpHolding(f) : TRUE).rate]]

Buildable(f) == TopUpHolding(f) # {}

\* projected_consequence and the first action of PLAN-001
PlanOf(f) == [at |-> at_brent(f, PreConflict), household_delta |-> f.scenario[DemoClient]]

-----------------------------------------------------------------------------
FactsInit ==
  /\ Init
  /\ data \in {v \in Versions : Verifiable(Data[v]) /\ Buildable(FactsOf[v])}
  /\ facts = data /\ plans = data
  /\ session = [facts |-> data, plans |-> data]

\* The bank delivers new files.
Delivery(v) == data' = v /\ UNCHANGED <<brent, facts, plans, session>>

\* verify.py --write writes at its end, or not at all.
RunVerify ==
  /\ Verifiable(Data[data])
  /\ facts' = data
  /\ UNCHANGED <<brent, data, plans, session>>

RunBuildPlans ==
  /\ Buildable(FactsOf[facts])
  /\ plans' = facts
  /\ UNCHANGED <<brent, data, facts, session>>

NewSession ==
  /\ session' = [facts |-> facts, plans |-> plans]
  /\ brent' = BrentNow
  /\ UNCHANGED <<data, facts, plans>>

\* Reset demo loads the plan files again, and not facts.json.
reset_demo ==
  /\ session' = [session EXCEPT !.plans = plans]
  /\ brent' = BrentNow
  /\ UNCHANGED <<data, facts, plans>>

Turn(b) == move_dial(b) /\ UNCHANGED <<data, facts, plans, session>>

FactsNext == \/ \E v \in Versions : Delivery(v)
             \/ RunVerify \/ RunBuildPlans
             \/ NewSession \/ reset_demo
             \/ \E b \in Dial : Turn(b)

FactsSpec == FactsInit /\ [][FactsNext]_factsVars

Loaded == FactsOf[session.facts]

-----------------------------------------------------------------------------
(* "OLS through the origin": of all slopes the reported beta leaves the    *)
(* smallest sum of squares between an instrument's returns and Brent's.    *)
Residual(d, x, slope) ==
  SumFunction([i \in Snapshots(d) |->
                 LET e == BetaDen(d) * Return(d.price[x], i) - slope * Return(d.brent, i)
                 IN  e * e])

BetaIsLeastSquares ==
  LET d == Data[session.facts]
  IN  \A x \in DOMAIN d.price : \A slope \in (-2 * BetaDen(d)) .. (2 * BetaDen(d)) :
        Residual(d, x, beta_to_brent(d, x)) <= Residual(d, x, slope)

(* "a facility's lending value is the beta-weighted sum of its collateral's *)
(* lending values" (engine.py): wherever the dial stands, the one number C  *)
(* gives what revaluing the pool holding by holding would.                  *)
PoolIsRevalued ==
  LET d == Data[session.facts]
  IN  \A id \in DOMAIN d.cf :
        LendingValue(Loaded.facilities[id], brent) =
          SumFunction([h \in Pool(d, id) |->
            h.lv * (BetaDen(d) * BrentNow + beta_to_brent(d, h.instrument) * (brent - BrentNow))])

(* The numbers frozen into a card are those the dial shows beside it: in a  *)
(* session whose plans were built from the facts it loaded, the lending     *)
(* value, the cash cure and the top-up of the pre-conflict scenario are the *)
(* dial's at that level, and the household's loss is the dial's but for at  *)
(* most SmallMove per position that verify.py left out.                     *)
FrozenIsWhatTheDialShows ==
  session.plans = session.facts =>
    LET plan  == PlanOf(Loaded)
        row   == Loaded.facilities[DemoFacility]
        small == SmallMove * BetaDen(Data[session.facts]) * BrentNow
        off   == plan.household_delta - ClientDelta(Loaded, DemoClient, brent)
        most  == small * Cardinality(PositionsOf(Loaded, DemoClient))
    IN  /\ brent = PreConflict =>
             /\ plan.at.lending = LendingValue(row, brent)
             /\ row.trigger_ltv = MarginCallLiteral /\ CureCash(row, brent) > 0 =>
                  /\ plan.at.cure_cash = CureCash(row, brent)
                  /\ \A p \in TopUpHolding(Loaded) :
                       plan.at.topup_mv.num * p.rate = 10 * plan.at.topup_mv.den * CureCash(row, brent)
        /\ brent = ScenarioLevel => off <= most /\ -off <= most

FactsTypeOK ==
  /\ TypeOK
  /\ data \in Versions /\ facts \in Versions /\ plans \in Versions
  /\ session \in [facts : Versions, plans : Versions]
=============================================================================
