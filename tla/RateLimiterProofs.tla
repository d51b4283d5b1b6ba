--------------------------- MODULE RateLimiterProofs ---------------------------
(***************************************************************************)
(* Proofs about RateLimiter, for any limit, window and number of callers.  *)
(***************************************************************************)
EXTENDS RateLimiter, FiniteSums

(* The script's two commands belong together: a counter that counts has a  *)
(* time to live, and what was admitted in this tick was counted in this    *)
(* window.                                                                 *)
CallerInv(c) ==
  /\ count[c] > 0 => ttl[c] > 0
  /\ admitted[c][0] <= count[c]

LimiterInv == TypeOK /\ \A c \in Callers : CallerInv(c)

LEMMA ScriptInv ==
  ASSUME TypeOK, NEW c \in Callers, Script(c)
  PROVE  /\ count' \in [Callers -> 0 .. MaxCount] /\ ttl' \in [Callers -> 0 .. Window]
         /\ \A d \in Callers \ {c} : count'[d] = count[d] /\ ttl'[d] = ttl[d]
         /\ count'[c] = IF count[c] < MaxCount THEN count[c] + 1 ELSE count[c]
         /\ count[c] = 0 => ttl'[c] = Window
         /\ count[c] > 0 => ttl'[c] = ttl[c]
<1>1. count' = [count EXCEPT ![c] = IF count[c] < MaxCount THEN count[c] + 1 ELSE count[c]]
  BY DEF Script, Incr
<1>2. count[c] \in 0 .. MaxCount /\ MaxCount \in Nat /\ MaxCount > 0
  BY LimiterAssumption DEF TypeOK
<1>3. (IF count[c] < MaxCount THEN count[c] + 1 ELSE count[c]) \in 0 .. MaxCount
  BY <1>2
<1>4. count' \in [Callers -> 0 .. MaxCount]
  BY <1>1, <1>3 DEF TypeOK
<1>5. count'[c] = (IF count[c] < MaxCount THEN count[c] + 1 ELSE count[c])
      /\ \A d \in Callers \ {c} : count'[d] = count[d]
  BY <1>1 DEF TypeOK
<1>6. Window \in 0 .. Window /\ ttl \in [Callers -> 0 .. Window]
  BY LimiterAssumption DEF TypeOK
<1>7. CASE count'[c] = 1
  <2>1. ttl' = [ttl EXCEPT ![c] = Window]
    BY <1>7 DEF Script
  <2>2. count[c] = 0
    BY <1>2, <1>5, <1>7, LimiterAssumption
  <2>3. QED BY <1>4, <1>5, <1>6, <2>1, <2>2
<1>8. CASE count'[c] # 1
  <2>1. ttl' = ttl
    BY <1>8 DEF Script
  <2>2. count[c] # 0
    BY <1>2, <1>5, <1>8
  <2>3. QED BY <1>4, <1>5, <1>6, <2>1, <2>2
<1>9. QED BY <1>7, <1>8

LEMMA AllowInv == ASSUME LimiterInv, NEW c \in Callers, Allow(c) PROVE LimiterInv'
<1>. DEFINE n == admitted[c][0]
<1>0. TypeOK /\ CallerInv(c) /\ Script(c) /\ up' = up
  BY DEF LimiterInv, Allow
<1>1. /\ count' \in [Callers -> 0 .. MaxCount] /\ ttl' \in [Callers -> 0 .. Window]
      /\ \A d \in Callers \ {c} : count'[d] = count[d] /\ ttl'[d] = ttl[d]
      /\ count'[c] = IF count[c] < MaxCount THEN count[c] + 1 ELSE count[c]
      /\ count[c] = 0 => ttl'[c] = Window
      /\ count[c] > 0 => ttl'[c] = ttl[c]
  BY <1>0, ScriptInv
<1>2. /\ count[c] \in 0 .. MaxCount /\ ttl[c] \in 0 .. Window /\ n \in 0 .. Limit
      /\ Window \in Nat \ {0} /\ MaxCount \in Nat /\ Limit \in Nat /\ MaxCount > Limit
      /\ 0 \in 0 .. Window - 1
  BY <1>0, LimiterAssumption DEF TypeOK
<1>3. count'[c] > 0 => ttl'[c] > 0
  BY <1>0, <1>1, <1>2 DEF CallerInv
<1>4. CASE Within(count'[c])
  <2>1. admitted' = [admitted EXCEPT ![c][0] = n + 1]
    BY <1>4 DEF Allow
  <2>2. n + 1 <= count'[c] /\ n + 1 \in 0 .. Limit
    BY <1>0, <1>1, <1>2, <1>4 DEF CallerInv, Within
  <2>3. admitted[c] \in [0 .. Window - 1 -> 0 .. Limit]
    BY <1>0 DEF TypeOK
  <2>4. [admitted[c] EXCEPT ![0] = n + 1] \in [0 .. Window - 1 -> 0 .. Limit]
    BY <2>2, <2>3
  <2>5. admitted' = [admitted EXCEPT ![c] = [admitted[c] EXCEPT ![0] = n + 1]]
    BY <2>1
  <2>6. /\ admitted' \in [Callers -> [0 .. Window - 1 -> 0 .. Limit]]
        /\ admitted'[c][0] = n + 1
        /\ \A d \in Callers \ {c} : admitted'[d] = admitted[d]
    BY <1>0, <1>2, <2>3, <2>4, <2>5 DEF TypeOK
  <2>7. TypeOK'
    BY <1>0, <1>1, <2>6 DEF TypeOK
  <2>8. \A d \in Callers : CallerInv(d)'
    BY <1>1, <1>3, <2>2, <2>6 DEF CallerInv, LimiterInv
  <2>9. QED BY <2>7, <2>8 DEF LimiterInv
<1>5. CASE ~Within(count'[c])
  <2>1. admitted' = admitted
    BY <1>5 DEF Allow
  <2>2. TypeOK'
    BY <1>0, <1>1, <2>1 DEF TypeOK
  <2>3. n <= count'[c]
    BY <1>0, <1>1, <1>2 DEF CallerInv
  <2>4. \A d \in Callers : CallerInv(d)'
    BY <1>1, <1>3, <2>1, <2>3 DEF CallerInv, LimiterInv
  <2>5. QED BY <2>2, <2>4 DEF LimiterInv
<1>6. QED BY <1>4, <1>5

LEMMA UnansweredInv ==
  ASSUME LimiterInv, NEW c \in Callers, AllowUnanswered(c) PROVE LimiterInv'
<1>0. TypeOK /\ CallerInv(c) /\ Script(c) /\ up' = up /\ admitted' = admitted
  BY DEF LimiterInv, AllowUnanswered
<1>1. /\ count' \in [Callers -> 0 .. MaxCount] /\ ttl' \in [Callers -> 0 .. Window]
      /\ \A d \in Callers \ {c} : count'[d] = count[d] /\ ttl'[d] = ttl[d]
      /\ count'[c] = IF count[c] < MaxCount THEN count[c] + 1 ELSE count[c]
      /\ count[c] = 0 => ttl'[c] = Window
      /\ count[c] > 0 => ttl'[c] = ttl[c]
  BY <1>0, ScriptInv
<1>2. /\ count[c] \in 0 .. MaxCount /\ ttl[c] \in 0 .. Window
      /\ admitted[c][0] \in 0 .. Limit
      /\ Window \in Nat \ {0} /\ MaxCount \in Nat /\ Limit \in Nat
  BY <1>0, LimiterAssumption DEF TypeOK
<1>3. (count'[c] > 0 => ttl'[c] > 0) /\ admitted[c][0] <= count'[c]
  BY <1>0, <1>1, <1>2 DEF CallerInv
<1>4. TypeOK'
  BY <1>0, <1>1 DEF TypeOK
<1>5. \A d \in Callers : CallerInv(d)'
  BY <1>0, <1>1, <1>3 DEF CallerInv, LimiterInv
<1>6. QED BY <1>4, <1>5 DEF LimiterInv

LEMMA TickInv == ASSUME LimiterInv, Tick PROVE LimiterInv'
<1>1. /\ count \in [Callers -> 0 .. MaxCount] /\ ttl \in [Callers -> 0 .. Window]
      /\ up' = up /\ up \in BOOLEAN
      /\ admitted \in [Callers -> [0 .. Window - 1 -> 0 .. Limit]]
      /\ Window \in Nat \ {0} /\ Limit \in Nat /\ MaxCount \in Nat
  BY LimiterAssumption DEF LimiterInv, TypeOK, Tick
<1>2. ttl' \in [Callers -> 0 .. Window] /\ count' \in [Callers -> 0 .. MaxCount]
  BY <1>1 DEF Tick
<1>3. admitted' \in [Callers -> [0 .. Window - 1 -> 0 .. Limit]]
  <2>1. ASSUME NEW c \in Callers, NEW age \in 0 .. Window - 1
        PROVE  (IF age = 0 THEN 0 ELSE admitted[c][age - 1]) \in 0 .. Limit
    BY <1>1
  <2>2. QED BY <2>1 DEF Tick
<1>4. ASSUME NEW c \in Callers PROVE CallerInv(c)'
  <2>1. /\ count'[c] = (IF ttl[c] = 1 THEN 0 ELSE count[c])
        /\ ttl'[c] = (IF ttl[c] = 0 THEN 0 ELSE ttl[c] - 1)
        /\ admitted'[c][0] = 0
    BY <1>1 DEF Tick
  <2>2. count[c] > 0 => ttl[c] > 0
    BY DEF LimiterInv, CallerInv
  <2>3. QED BY <1>1, <2>1, <2>2 DEF CallerInv
<1>5. QED BY <1>1, <1>2, <1>3, <1>4 DEF LimiterInv, TypeOK

\* A Redis without data is where the limiter starts.
Empty ==
  /\ count = [c \in Callers |-> 0] /\ ttl = [c \in Callers |-> 0]
  /\ admitted = [c \in Callers |-> [age \in 0 .. Window - 1 |-> 0]]

LEMMA EmptyInv == Empty /\ up \in BOOLEAN => LimiterInv
  BY LimiterAssumption DEF Empty, LimiterInv, TypeOK, CallerInv

LEMMA InitInv == Init => LimiterInv
  BY EmptyInv DEF Init, Empty

LEMMA NextInv == LimiterInv /\ [Next]_vars => LimiterInv'
<1>. SUFFICES ASSUME LimiterInv, [Next]_vars PROVE LimiterInv'
  OBVIOUS
<1>1. ASSUME NEW c \in Callers, Allow(c) \/ AllowUnanswered(c) PROVE LimiterInv'
  BY <1>1, AllowInv, UnansweredInv
<1>2. CASE Tick
  BY <1>2, TickInv
<1>3. ASSUME UNCHANGED <<count, ttl, admitted>>, up' \in BOOLEAN PROVE LimiterInv'
  BY <1>3 DEF LimiterInv, TypeOK, CallerInv
<1>4. CASE Outage \/ UNCHANGED vars
  BY <1>3, <1>4 DEF Outage, vars, LimiterInv, TypeOK
<1>5. CASE Recovery
  <2>1. Empty' => LimiterInv'
    <3>1. up' \in BOOLEAN
      BY <1>5 DEF Recovery
    <3>2. QED BY <3>1, EmptyInv, LimiterAssumption
              DEF Empty, LimiterInv, TypeOK, CallerInv
  <2>2. QED BY <1>3, <1>5, <2>1 DEF Recovery, Empty
<1>6. QED BY <1>1, <1>2, <1>4, <1>5 DEF Next

LEMMA Invariance == Spec => []LimiterInv
<1>1. QED
  BY InitInv, NextInv, PTL DEF Spec

(* Counts, times to live and admissions stay in range: in particular the   *)
(* limiter never admits more than the limit between two ticks.             *)
THEOREM Typing == Spec => []TypeOK
<1>1. LimiterInv => TypeOK
  BY DEF LimiterInv
<1>2. QED
  BY <1>1, Invariance, PTL

(* Whatever fails between a gateway and Redis, no key is left without an   *)
(* expiry, so nobody is locked out for good.                               *)
THEOREM CountersExpire == Spec => []EveryCounterExpires
<1>1. LimiterInv => EveryCounterExpires
  BY DEF LimiterInv, CallerInv, EveryCounterExpires
<1>2. QED
  BY <1>1, Invariance, PTL

-----------------------------------------------------------------------------
(* Bursts.  What was admitted in the caller's window was counted in it,    *)
(* and what is older than the window came from the one before it.          *)
Ages == 0 .. Window - 1
Earlier(c) == Ages \ ThisWindow(c)

BurstInv(c) ==
  /\ ttl[c] > 0 => count[c] > 0
  /\ Recent(c, ThisWindow(c)) <= count[c] /\ Recent(c, ThisWindow(c)) <= Limit
  /\ Recent(c, Earlier(c)) <= Limit

LEMMA AgesAreFinite ==
  /\ IsFiniteSet(Ages) /\ 0 \in Ages
  /\ \A A \in SUBSET Ages : IsFiniteSet(A)
<1>1. IsFiniteSet(Ages) /\ 0 \in Ages
  BY FS_Interval, LimiterAssumption DEF Ages
<1>2. QED BY <1>1, FS_Subset

LEMMA ThisWindowAges ==
  ASSUME TypeOK, NEW c \in Callers
  PROVE  ThisWindow(c) \in SUBSET Ages /\ Earlier(c) \in SUBSET Ages
BY LimiterAssumption DEF TypeOK, ThisWindow, Earlier, Ages

Admissions == [Ages -> 0 .. Limit]

LEMMA AdmissionSums ==
  ASSUME NEW a \in Admissions, NEW A \in SUBSET Ages
  PROVE  /\ SumFunctionOnSet(a, A) \in Nat
         /\ SumFunctionOnSet(a, A) <= SumFunctionOnSet(a, Ages)
         /\ SumFunctionOnSet(a, Ages) = SumFunctionOnSet(a, A) + SumFunctionOnSet(a, Ages \ A)
         /\ SumFunctionOnSet(a, Ages \ A) \in Nat
<1>1. \A x \in Ages : a[x] \in Nat /\ a[x] \in Int
  BY LimiterAssumption DEF Admissions
<1>2. /\ SumFunctionOnSet(a, A) \in Nat /\ SumFunctionOnSet(a, Ages \ A) \in Nat
  BY <1>1, AgesAreFinite, SumType
<1>3. SumFunctionOnSet(a, A) <= SumFunctionOnSet(a, Ages)
  BY <1>1, AgesAreFinite, SumGrows
<1>4. SumFunctionOnSet(a, Ages) = SumFunctionOnSet(a, A) + SumFunctionOnSet(a, Ages \ A)
  BY <1>1, AgesAreFinite, SumSplits
<1>5. QED BY <1>2, <1>3, <1>4

(* A request that opens a window finds everything older in the one before. *)
LEMMA WindowOpens ==
  ASSUME NEW a \in Admissions, NEW b \in Admissions, a[0] = 0, b[0] <= 1,
         \A x \in Ages \ {0} : b[x] = a[x], SumFunctionOnSet(a, Ages) <= Limit
  PROVE  /\ SumFunctionOnSet(b, {0}) <= 1
         /\ SumFunctionOnSet(b, Ages \ {0}) <= Limit
<1>1. \A x \in Ages : a[x] \in Int /\ b[x] \in Int
  BY LimiterAssumption DEF Admissions
<1>2. SumFunctionOnSet(b, {0}) = b[0] + SumFunctionOnSet(b, {0} \ {0})
  BY <1>1, AgesAreFinite, SumTakesOut
<1>3. SumFunctionOnSet(b, {0} \ {0}) = 0
  <2>1. {0} \ {0} = {}
    OBVIOUS
  <2>2. QED BY <2>1, EmptySum
<1>4. SumFunctionOnSet(b, Ages \ {0}) = SumFunctionOnSet(a, Ages \ {0})
  BY <1>1, AgesAreFinite, SumAgrees
<1>5. /\ SumFunctionOnSet(a, Ages \ {0}) \in Nat /\ SumFunctionOnSet(a, Ages) \in Nat
      /\ SumFunctionOnSet(a, Ages \ {0}) <= SumFunctionOnSet(a, Ages)
  BY AdmissionSums
<1>6. Limit \in Nat /\ b[0] \in Int
  BY <1>1, AgesAreFinite, LimiterAssumption
<1>7. QED BY <1>2, <1>3, <1>4, <1>5, <1>6

(* A request that is admitted later counts in the open window only.        *)
LEMMA WindowCounts ==
  ASSUME NEW a \in Admissions, NEW b \in Admissions, b[0] = a[0] + 1,
         \A x \in Ages \ {0} : b[x] = a[x], NEW A \in SUBSET Ages, 0 \in A
  PROVE  /\ SumFunctionOnSet(b, A) = SumFunctionOnSet(a, A) + 1
         /\ SumFunctionOnSet(b, Ages \ A) = SumFunctionOnSet(a, Ages \ A)
<1>1. \A x \in Ages : a[x] \in Int /\ b[x] = IF x = 0 THEN a[x] + 1 ELSE a[x]
  BY LimiterAssumption DEF Admissions
<1>2. SumFunctionOnSet(b, A) = SumFunctionOnSet(a, A) + 1
  BY <1>1, AgesAreFinite, SumCounts
<1>3. \A x \in Ages \ A : a[x] \in Int /\ b[x] = a[x]
  BY <1>1
<1>4. IsFiniteSet(Ages \ A)
  BY AgesAreFinite
<1>5. SumFunctionOnSet(b, Ages \ A) = SumFunctionOnSet(a, Ages \ A)
  BY <1>3, <1>4, SumAgrees
<1>6. QED BY <1>2, <1>5

(* A tick makes everything one tick older, and forgets the oldest.         *)
LEMMA AdmissionsAge ==
  ASSUME NEW a \in Admissions, NEW b \in Admissions, b[0] = 0,
         \A n \in 0 .. Window - 2 : b[n + 1] = a[n],
         NEW i \in 0 .. Window, NEW j \in Int, j <= Window - 2
  PROVE  SumFunctionOnSet(b, i + 1 .. j + 1) = SumFunctionOnSet(a, i .. j)
<1>. DEFINE older == [n \in i .. j |-> n + 1]
<1>0. Window \in Nat \ {0}
  BY LimiterAssumption
<1>1. i .. j \subseteq Ages /\ IsFiniteSet(i .. j)
  BY <1>0, AgesAreFinite DEF Ages
<1>2. \A n \in i .. j : a[n] \in Int /\ b[older[n]] = a[n]
  BY <1>0, <1>1, LimiterAssumption DEF Admissions
<1>3. \A m, n \in i .. j : older[m] = older[n] => m = n
  BY <1>0
<1>4. {older[n] : n \in i .. j} = i + 1 .. j + 1
  <2>1. ASSUME NEW m \in i + 1 .. j + 1
        PROVE  m - 1 \in i .. j /\ older[m - 1] = m
    BY <1>0, <2>1
  <2>2. ASSUME NEW n \in i .. j PROVE older[n] \in i + 1 .. j + 1
    BY <1>0, <2>2
  <2>. HIDE DEF older
  <2>3. QED BY <2>1, <2>2
<1>. HIDE DEF older
<1>5. SumFunctionOnSet(b, {older[n] : n \in i .. j}) = SumFunctionOnSet(a, i .. j)
  BY <1>1, <1>2, <1>3, SumRenames
<1>6. QED BY <1>4, <1>5

(* The script, whether its answer arrives and admits the request or not.   *)
LEMMA ScriptBurst ==
  ASSUME LimiterInv, LimiterInv', NEW c \in Callers, BurstInv(c), Script(c),
         \/ admitted' = admitted
         \/ Within(count'[c]) /\ admitted' = [admitted EXCEPT ![c][0] = @ + 1]
  PROVE  BurstInv(c)'
<1>1. /\ TypeOK /\ CallerInv(c) /\ CallerInv(c)' /\ TypeOK'
  BY DEF LimiterInv
<1>2. PICK a \in Admissions, b \in Admissions : a = admitted[c] /\ b = admitted'[c]
  BY <1>1 DEF TypeOK, Admissions, Ages
<1>3. /\ count[c] \in Nat /\ ttl[c] \in 0 .. Window
      /\ Window \in Nat \ {0} /\ Limit \in Nat \ {0} /\ MaxCount \in Nat /\ MaxCount > Limit
  BY <1>1, LimiterAssumption DEF TypeOK
<1>4. /\ count'[c] = IF count[c] < MaxCount THEN count[c] + 1 ELSE count[c]
      /\ count[c] = 0 => ttl'[c] = Window
      /\ count[c] > 0 => ttl'[c] = ttl[c]
  BY <1>1, ScriptInv
<1>5. /\ \A x \in Ages \ {0} : b[x] = a[x]
      /\ b[0] = a[0] \/ (Within(count'[c]) /\ b[0] = a[0] + 1)
  <2>1. CASE admitted' = admitted
    BY <1>2, <2>1
  <2>2. CASE Within(count'[c]) /\ admitted' = [admitted EXCEPT ![c][0] = @ + 1]
    <3>1. admitted'[c] = [a EXCEPT ![0] = a[0] + 1]
      BY <1>1, <1>2, <2>2 DEF TypeOK
    <3>2. QED BY <1>2, <2>2, <3>1, AgesAreFinite DEF Admissions
  <2>3. QED BY <2>1, <2>2
<1>6. a[0] \in Nat /\ b[0] \in Nat
  BY AgesAreFinite, <1>3 DEF Admissions
<1>7. CASE count[c] = 0
  <2>1. ttl[c] = 0 /\ a[0] = 0 /\ count'[c] = 1 /\ ttl'[c] = Window
    BY <1>1, <1>2, <1>3, <1>4, <1>6, <1>7 DEF CallerInv, BurstInv
  <2>2. ThisWindow(c) = {} /\ Earlier(c) = Ages
    BY <2>1 DEF ThisWindow, Earlier
  <2>3. ThisWindow(c)' = {0} /\ Earlier(c)' = Ages \ {0}
    BY <1>3, <2>1 DEF ThisWindow, Earlier, Ages
  <2>4. SumFunctionOnSet(a, Ages) <= Limit
    BY <1>2, <2>2 DEF BurstInv, Recent
  <2>5. b[0] <= 1
    BY <1>5, <2>1
  <2>6. SumFunctionOnSet(b, {0}) <= 1 /\ SumFunctionOnSet(b, Ages \ {0}) <= Limit
    BY <1>5, <2>1, <2>4, <2>5, WindowOpens
  <2>7. SumFunctionOnSet(b, {0}) \in Nat
    BY AgesAreFinite, AdmissionSums
  <2>8. QED BY <1>2, <1>3, <2>1, <2>3, <2>6, <2>7 DEF BurstInv, Recent
<1>8. CASE count[c] > 0
  <2>1. PICK A \in SUBSET Ages : A = ThisWindow(c)
    BY <1>1, ThisWindowAges
  <2>2. /\ ThisWindow(c)' = A /\ Earlier(c) = Ages \ A /\ Earlier(c)' = Ages \ A /\ 0 \in A
        /\ count'[c] > 0 /\ count'[c] >= count[c] /\ count'[c] \in Nat
    BY <1>1, <1>3, <1>4, <1>8, <2>1 DEF ThisWindow, Earlier, Ages, CallerInv
  <2>3. PICK s \in Nat, r \in Nat : s = SumFunctionOnSet(a, A) /\ r = SumFunctionOnSet(a, Ages \ A)
    BY AdmissionSums
  <2>4. s <= count[c] /\ s <= Limit /\ r <= Limit
    BY <1>2, <2>1, <2>2, <2>3 DEF BurstInv, Recent
  <2>5. CASE b[0] = a[0]
    <3>1. \A x \in Ages : b[x] = a[x]
      BY <1>5, <2>5
    <3>2. b = a
      BY <3>1 DEF Admissions
    <3>3. QED BY <1>2, <1>3, <2>2, <2>3, <2>4, <3>2 DEF BurstInv, Recent
  <2>6. CASE Within(count'[c]) /\ b[0] = a[0] + 1
    <3>1. SumFunctionOnSet(b, A) = s + 1 /\ SumFunctionOnSet(b, Ages \ A) = r
      BY <1>5, <2>2, <2>3, <2>6, WindowCounts
    <3>2. count'[c] = count[c] + 1 /\ count'[c] <= Limit
      BY <1>3, <1>4, <2>6 DEF Within
    <3>3. QED BY <1>2, <1>3, <2>2, <2>4, <3>1, <3>2 DEF BurstInv, Recent
  <2>7. QED BY <1>5, <2>5, <2>6
<1>9. QED BY <1>3, <1>7, <1>8

LEMMA TickBurst ==
  ASSUME LimiterInv, LimiterInv', NEW c \in Callers, BurstInv(c), Tick
  PROVE  BurstInv(c)'
<1>1. TypeOK /\ TypeOK' /\ CallerInv(c)
  BY DEF LimiterInv
<1>2. PICK a \in Admissions, b \in Admissions : a = admitted[c] /\ b = admitted'[c]
  BY <1>1 DEF TypeOK, Admissions, Ages
<1>3. /\ count[c] \in Nat /\ ttl[c] \in 0 .. Window /\ Window \in Nat \ {0} /\ Limit \in Nat
  BY <1>1, LimiterAssumption DEF TypeOK
<1>4. /\ ttl'[c] = IF ttl[c] = 0 THEN 0 ELSE ttl[c] - 1
      /\ count'[c] = IF ttl[c] = 1 THEN 0 ELSE count[c]
  BY DEF Tick
<1>5. b[0] = 0 /\ \A n \in 0 .. Window - 2 : b[n + 1] = a[n]
  <2>1. b = [age \in 0 .. Window - 1 |-> IF age = 0 THEN 0 ELSE a[age - 1]]
    BY <1>2 DEF Tick
  <2>2. QED BY <1>3, <2>1
<1>6. \A i \in 0 .. Window : \A j \in Int : j <= Window - 2 =>
        SumFunctionOnSet(b, i + 1 .. j + 1) = SumFunctionOnSet(a, i .. j)
  BY <1>5, AdmissionsAge
<1>7. \A x \in Ages : b[x] \in Int
  BY <1>3 DEF Admissions
<1>8. CASE ttl[c] > 1
  <2>1. PICK g \in 0 .. Window - 2 : g = Window - ttl[c]
    BY <1>3, <1>8
  <2>2. /\ ThisWindow(c) = 0 .. g /\ Earlier(c) = g + 1 .. Window - 1
        /\ ThisWindow(c)' = 0 .. g + 1 /\ Earlier(c)' = g + 2 .. Window - 1
        /\ count'[c] = count[c] /\ count[c] > 0 /\ ttl'[c] > 0
    BY <1>3, <1>4, <1>8, <2>1 DEF ThisWindow, Earlier, Ages, BurstInv
  <2>3. SumFunctionOnSet(b, 0 .. g + 1) = SumFunctionOnSet(a, 0 .. g)
    <3>1. SumFunctionOnSet(b, 1 .. g + 1) = SumFunctionOnSet(a, 0 .. g)
      BY <1>3, <1>6, <2>1
    <3>2. /\ 0 .. g + 1 \in SUBSET Ages /\ 0 \in 0 .. g + 1 /\ (0 .. g + 1) \ {0} = 1 .. g + 1
          /\ 0 .. g \in SUBSET Ages
      BY <1>3, <2>1 DEF Ages
    <3>3. SumFunctionOnSet(b, 0 .. g + 1) = b[0] + SumFunctionOnSet(b, 1 .. g + 1)
      BY <1>7, <3>2, AgesAreFinite, SumTakesOut
    <3>4. SumFunctionOnSet(a, 0 .. g) \in Nat
      BY <3>2, AdmissionSums
    <3>5. QED BY <1>5, <3>1, <3>3, <3>4
  <2>4. SumFunctionOnSet(b, g + 2 .. Window - 1) <= SumFunctionOnSet(a, g + 1 .. Window - 1)
    <3>1. SumFunctionOnSet(b, (g + 1) + 1 .. (Window - 2) + 1)
            = SumFunctionOnSet(a, g + 1 .. Window - 2)
      <4>1. g + 1 \in 0 .. Window /\ Window - 2 \in Int /\ Window - 2 <= Window - 2
        BY <1>3, <2>1
      <4>2. QED BY <1>6, <4>1
    <3>2. (g + 1) + 1 .. (Window - 2) + 1 = g + 2 .. Window - 1
      BY <1>3, <2>1
    <3>3. /\ g + 1 .. Window - 1 \in SUBSET Ages
          /\ g + 1 .. Window - 2 \in SUBSET (g + 1 .. Window - 1)
      BY <1>3, <2>1 DEF Ages
    <3>4. IsFiniteSet(g + 1 .. Window - 1) /\ \A x \in g + 1 .. Window - 1 : a[x] \in Nat
      BY <1>3, <3>3, AgesAreFinite DEF Admissions
    <3>5. SumFunctionOnSet(a, g + 1 .. Window - 2) <= SumFunctionOnSet(a, g + 1 .. Window - 1)
      BY <3>3, <3>4, SumGrows
    <3>6. QED BY <3>1, <3>2, <3>5
  <2>5. /\ SumFunctionOnSet(a, 0 .. g) <= count[c] /\ SumFunctionOnSet(a, 0 .. g) <= Limit
        /\ SumFunctionOnSet(a, g + 1 .. Window - 1) <= Limit
    BY <1>2, <2>2 DEF BurstInv, Recent
  <2>6. /\ g + 2 .. Window - 1 \in SUBSET Ages /\ g + 1 .. Window - 1 \in SUBSET Ages
    BY <1>3, <2>1 DEF Ages
  <2>7. /\ SumFunctionOnSet(b, g + 2 .. Window - 1) \in Nat
        /\ SumFunctionOnSet(a, g + 1 .. Window - 1) \in Nat
    BY <2>6, AdmissionSums
  <2>8. QED BY <1>2, <1>3, <2>2, <2>3, <2>4, <2>5, <2>7 DEF BurstInv, Recent
<1>9. CASE ttl[c] <= 1
  <2>1. ttl'[c] = 0 /\ count'[c] \in Nat /\ ThisWindow(c)' = {} /\ Earlier(c)' = Ages
    BY <1>3, <1>4, <1>9 DEF ThisWindow, Earlier
  <2>2. SumFunctionOnSet(a, Ages) <= Limit
    <3>1. CASE ttl[c] = 0
      <4>1. Earlier(c) = Ages
        BY <3>1 DEF ThisWindow, Earlier
      <4>2. QED BY <1>2, <4>1 DEF BurstInv, Recent
    <3>2. CASE ttl[c] = 1
      <4>1. ThisWindow(c) = Ages
        BY <1>3, <3>2 DEF ThisWindow, Ages
      <4>2. QED BY <1>2, <4>1 DEF BurstInv, Recent
    <3>3. QED BY <1>3, <1>9, <3>1, <3>2
  <2>3. SumFunctionOnSet(b, Ages) <= SumFunctionOnSet(a, Ages)
    <3>1. SumFunctionOnSet(b, 0 + 1 .. (Window - 2) + 1) = SumFunctionOnSet(a, 0 .. Window - 2)
      BY <1>3, <1>6
    <3>2. Ages \ {0} = 0 + 1 .. (Window - 2) + 1 /\ 0 .. Window - 2 \in SUBSET Ages
      BY <1>3 DEF Ages
    <3>3. SumFunctionOnSet(b, Ages) = b[0] + SumFunctionOnSet(b, Ages \ {0})
      BY <1>7, AgesAreFinite, SumTakesOut
    <3>4. /\ SumFunctionOnSet(a, 0 .. Window - 2) <= SumFunctionOnSet(a, Ages)
          /\ SumFunctionOnSet(a, 0 .. Window - 2) \in Nat
      BY <3>2, AdmissionSums
    <3>5. SumFunctionOnSet(b, Ages \ {0}) = SumFunctionOnSet(a, 0 .. Window - 2)
      BY <3>1, <3>2
    <3>6. QED BY <1>5, <3>3, <3>4, <3>5
  <2>4. SumFunctionOnSet(b, {}) = 0
    BY EmptySum
  <2>5. SumFunctionOnSet(b, Ages) \in Nat /\ SumFunctionOnSet(a, Ages) \in Nat
    BY AdmissionSums
  <2>6. QED BY <1>2, <1>3, <2>1, <2>2, <2>3, <2>4, <2>5 DEF BurstInv, Recent
<1>10. QED BY <1>3, <1>8, <1>9

LEMMA EmptyBurst == ASSUME Empty, NEW c \in Callers PROVE BurstInv(c)
<1>1. ThisWindow(c) = {} /\ Earlier(c) = Ages /\ count[c] = 0 /\ ttl[c] = 0
  BY DEF Empty, ThisWindow, Earlier
<1>2. \A x \in Ages : admitted[c][x] \in Int /\ admitted[c][x] <= 0 /\ -0 <= admitted[c][x]
  BY DEF Empty, Ages
<1>3. PICK n \in Nat : n = Cardinality(Ages)
  BY AgesAreFinite, FS_CardinalityType
<1>4. SumFunctionOnSet(admitted[c], Ages) <= 0 * n
  BY <1>2, <1>3, AgesAreFinite, SumIsBounded
<1>5. SumFunctionOnSet(admitted[c], Ages) \in Int
  BY <1>2, AgesAreFinite, SumType
<1>6. SumFunctionOnSet(admitted[c], Ages) <= Limit
  BY <1>3, <1>4, <1>5, LimiterAssumption
<1>7. SumFunctionOnSet(admitted[c], {}) = 0 /\ Limit \in Nat
  BY EmptySum, LimiterAssumption
<1>8. QED BY <1>1, <1>6, <1>7 DEF BurstInv, Recent

WindowInv == LimiterInv /\ \A c \in Callers : BurstInv(c)

LEMMA WindowInvariance == Spec => []WindowInv
<1>. DEFINE Bounded == \A c \in Callers : BurstInv(c)
<1>0. Empty => Bounded
  BY EmptyBurst
<1>1. Init => WindowInv
  BY <1>0, InitInv DEF Init, Empty, WindowInv
<1>2. WindowInv /\ [Next]_vars => WindowInv'
  <2>. SUFFICES ASSUME WindowInv, [Next]_vars PROVE WindowInv'
    OBVIOUS
  <2>1. LimiterInv /\ LimiterInv'
    BY NextInv DEF WindowInv
  <2>2. ASSUME NEW c \in Callers, Allow(c) \/ AllowUnanswered(c), NEW d \in Callers
        PROVE  BurstInv(d)'
    <3>1. /\ Script(c)
          /\ \/ admitted' = admitted
             \/ Within(count'[c]) /\ admitted' = [admitted EXCEPT ![c][0] = @ + 1]
      BY <2>2 DEF Allow, AllowUnanswered
    <3>2. CASE d = c
      BY <2>1, <3>1, <3>2, ScriptBurst DEF WindowInv
    <3>3. CASE d # c
      <4>1. count'[d] = count[d] /\ ttl'[d] = ttl[d]
        BY <2>1, <3>1, <3>3, ScriptInv DEF LimiterInv
      <4>2. admitted'[d] = admitted[d]
        BY <2>1, <3>1, <3>3 DEF LimiterInv, TypeOK
      <4>3. QED BY <4>1, <4>2 DEF WindowInv, BurstInv, Recent, ThisWindow, Earlier
    <3>4. QED BY <3>2, <3>3
  <2>3. ASSUME Tick, NEW d \in Callers PROVE BurstInv(d)'
    BY <2>1, <2>3, TickBurst DEF WindowInv
  <2>4. ASSUME UNCHANGED <<count, ttl, admitted>>, NEW d \in Callers PROVE BurstInv(d)'
    BY <2>4 DEF WindowInv, BurstInv, Recent, ThisWindow, Earlier
  <2>5. Empty' => Bounded'
    BY <1>0, PTL
  <2>6. \A d \in Callers : BurstInv(d)'
    <3>1. CASE Outage \/ Recovery \/ UNCHANGED vars
      BY <2>4, <2>5, <3>1 DEF Outage, Recovery, vars, Empty
    <3>2. QED BY <2>2, <2>3, <3>1 DEF Next
  <2>7. QED BY <2>1, <2>6 DEF WindowInv
<1>3. QED BY <1>1, <1>2, PTL DEF Spec

(* However requests, ticks, lost answers and outages interleave, a caller  *)
(* gets at most the limit in the window of his key, and at most twice the  *)
(* limit in any stretch as long as a window.                               *)
THEOREM BurstsAreBounded == Spec => []WindowIsBounded
<1>1. WindowInv => WindowIsBounded
  <2>. SUFFICES ASSUME WindowInv, NEW c \in Callers
                PROVE  /\ Recent(c, ThisWindow(c) \cap DOMAIN admitted[c]) <= Limit
                       /\ Recent(c, DOMAIN admitted[c]) <= 2 * Limit
    BY DEF WindowIsBounded
  <2>1. PICK a \in Admissions : a = admitted[c]
    BY DEF WindowInv, LimiterInv, TypeOK, Admissions, Ages
  <2>2. PICK A \in SUBSET Ages : A = ThisWindow(c)
    BY ThisWindowAges DEF WindowInv, LimiterInv
  <2>3. DOMAIN a = Ages /\ A \cap Ages = A /\ Earlier(c) = Ages \ A
    BY <2>2 DEF Admissions, Earlier
  <2>4. SumFunctionOnSet(a, A) <= Limit /\ SumFunctionOnSet(a, Ages \ A) <= Limit
    BY <2>1, <2>2, <2>3 DEF WindowInv, BurstInv, Recent
  <2>5. /\ SumFunctionOnSet(a, Ages) = SumFunctionOnSet(a, A) + SumFunctionOnSet(a, Ages \ A)
        /\ SumFunctionOnSet(a, A) \in Nat /\ SumFunctionOnSet(a, Ages \ A) \in Nat
    BY AdmissionSums
  <2>6. PICK s \in Nat, r \in Nat : /\ s = SumFunctionOnSet(a, A)
                                   /\ r = SumFunctionOnSet(a, Ages \ A)
    BY <2>5
  <2>7. s + r <= 2 * Limit
    BY <2>4, <2>6, LimiterAssumption
  <2>8. Recent(c, ThisWindow(c) \cap DOMAIN admitted[c]) = s /\ Recent(c, DOMAIN admitted[c]) = s + r
    BY <2>1, <2>2, <2>3, <2>5, <2>6 DEF Recent
  <2>9. QED BY <2>4, <2>6, <2>7, <2>8
<1>2. QED
  BY <1>1, WindowInvariance, PTL

=============================================================================
