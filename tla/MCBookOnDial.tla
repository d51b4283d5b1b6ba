----------------------------- MODULE MCBookOnDial -----------------------------
(* The book of out/facts.json in thousands (CF-0002, in Hong Kong dollars, *)
(* in ten thousands), the dial in steps of a dollar with the presets and   *)
(* the levels around the derived trigger of 78.85, and the triggers of the *)
(* three plans: PLAN-001 and PLAN-003 share one.                           *)
(*                                                                         *)
(* The scripts run on a bank of two clients and seven holdings, whose      *)
(* files change three times: a larger pool on credit that gains when Brent *)
(* falls, Brent fixings that never moved (no beta exists), and a top-up    *)
(* holding that was sold.                                                  *)
EXTENDS DeskFacts

Row(lending, C, drawn, trigger_ltv) ==
  [lending |-> lending, C |-> C, drawn |-> drawn, trigger_ltv |-> trigger_ltv]

MCBook == {"CF-0001", "CF-0002", "CF-0003", "CF-0004", "CF-0005"}

MCFacilities ==
  [id \in MCBook |->
     CASE id = "CF-0001" -> Row(8819, -568, 6500, 75)
       [] id = "CF-0002" -> Row(8357, -1451, 5800, 70)
       [] id = "CF-0003" -> Row(20600, -1421, 4200, 75)
       [] id = "CF-0004" -> Row(18583, -1249, 6000, 80)
       [] id = "CF-0005" -> Row(13525, 9397, 8000, 70)]

MCDial == {10 * usd : usd \in 60 .. 120} \cup {724, 788, 789, 1015}

MCWarnings ==
  {[facility |-> "CF-0005", variable |-> "BRENT", operator |-> "<", level |-> 790],
   [facility |-> "CF-0005", variable |-> "LTV", operator |-> ">", level |-> 65]}

-----------------------------------------------------------------------------
Holding(client, portfolio, instrument, mv, rate) ==
  [client |-> client, portfolio |-> portfolio, instrument |-> instrument,
   mv |-> mv, rate |-> rate, lv |-> (mv * rate) \div 10]

Prices(bara) ==
  [Bara |-> bara,                 \* beta 1, or -1
   Fund |-> <<8, 4, 4, 4, 4>>,    \* beta 1/6
   Tech |-> <<4, 8, 8, 4, 8>>,    \* beta -1
   Bond |-> <<4, 4, 4, 4, 4>>]    \* beta 0; the deposit has no price at all

Bank(fixings, bara, holdings, drawn) ==
  [brent |-> fixings, price |-> Prices(bara), holdings |-> holdings,
   cf |-> [Long  |-> [pool |-> "Custody", drawn |-> drawn, trigger_ltv |-> 70],
           Short |-> [pool |-> "Other",   drawn |-> 9,     trigger_ltv |-> 75]]]

Moving == <<2030, 1015, 1015, 2030, 1015>>
Flat   == <<1015, 1015, 1015, 1015, 1015>>
Falls  == <<8, 4, 4, 8, 4>>
Rises  == <<4, 8, 8, 4, 8>>

Held(bara) == {Holding("C1", "Custody", "Bara", bara, 5), Holding("C1", "Custody", "Deposit", 10, 9),
               Holding("C1", "Mandate", "Tech", 4, 5),    Holding("C1", "Mandate", "Fund", 10, 6),
               Holding("C1", "Mandate", "Bond", 20, 8),
               Holding("C2", "Other", "Tech", 30, 5),     Holding("C2", "Other", "Fund", 6, 5)}

MCVersions == 1 .. 4
MCData ==
  << Bank(Moving, Falls, Held(26), 13), Bank(Moving, Rises, Held(36), 17),
     Bank(Flat, Falls, Held(26), 13),
     Bank(Moving, Falls, {h \in Held(26) : h.instrument # "Bond"}, 13) >>
MCWatch   == {"Bara", "Tech"}
MCClients == {"C1", "C2"}
=============================================================================
