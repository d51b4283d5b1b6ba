------------------------------ MODULE RateLimiter ------------------------------
(***************************************************************************)
(* The gateway's rate limiter (internal/httpapi/ratelimit.go, called by    *)
(* authenticate() in handler.go): a fixed window per caller, counted in    *)
(* Redis by one script that all gateways share.  Redis runs a script       *)
(* atomically and deletes a key when its time to live is over; it may be   *)
(* down, lose its data, or lose an answer; then authenticate() fails open, *)
(* so a request that meets a Redis that is down changes nothing here.      *)
(* Time passes in ticks.                                                   *)
(***************************************************************************)
EXTENDS Naturals, Functions

CONSTANTS
  Callers,     \* rateLimitKey(): one key per client address
  Limit,       \* requests admitted per window
  Window,      \* the window, in ticks
  MaxCount     \* bound: beyond it, which is beyond the limit, counts are alike

ASSUME LimiterAssumption ==
  Limit \in Nat \ {0} /\ Window \in Nat \ {0} /\ MaxCount \in Nat /\ MaxCount > Limit

VARIABLES
  count,       \* [Callers -> the key's value, 0 when there is no key]
  ttl,         \* [Callers -> ticks the key has left, 0 when it never expires]
  up,          \* whether Redis answers
  admitted     \* [Callers -> [0 .. Window - 1 -> requests the limiter let pass, by age]]

vars == <<count, ttl, up, admitted>>

TypeOK ==
  /\ count \in [Callers -> 0 .. MaxCount]
  /\ ttl \in [Callers -> 0 .. Window]
  /\ up \in BOOLEAN
  /\ admitted \in [Callers -> [0 .. Window - 1 -> 0 .. Limit]]

Init ==
  /\ count = [c \in Callers |-> 0]
  /\ ttl = [c \in Callers |-> 0]
  /\ up = TRUE
  /\ admitted = [c \in Callers |-> [age \in 0 .. Window - 1 |-> 0]]

-----------------------------------------------------------------------------
Incr(c) == count' = [count EXCEPT ![c] = IF @ < MaxCount THEN @ + 1 ELSE @]

\* Mutant: every request starts the window anew.
Script_Sliding(c) == Incr(c) /\ ttl' = [ttl EXCEPT ![c] = Window]

\* Mutant: INCR and PEXPIRE are two calls, and the second one may get lost.
Script_TwoCalls(c) ==
  /\ Incr(c)
  /\ \/ count[c] = 0 /\ ttl' = [ttl EXCEPT ![c] = Window]
     \/ UNCHANGED ttl

\* INCR, and PEXPIRE when the key is new
Script(c) ==
  /\ Incr(c)
  /\ ttl' = IF count'[c] = 1 THEN [ttl EXCEPT ![c] = Window] ELSE ttl

\* Mutant: the value before the increment is compared.
Within_Before(value) == value - 1 <= Limit

Within(value) == value <= Limit

(* Allow(): the request is served, or answered 429.                        *)
Allow(c) ==
  /\ up
  /\ Script(c)
  /\ admitted' = IF Within(count'[c]) THEN [admitted EXCEPT ![c][0] = @ + 1] ELSE admitted
  /\ UNCHANGED up

\* The script ran and its answer was lost: served without having been admitted.
AllowUnanswered(c) ==
  /\ up
  /\ Script(c)
  /\ UNCHANGED <<up, admitted>>

-----------------------------------------------------------------------------
(* Redis.                                                                  *)

Tick ==
  /\ ttl' = [c \in Callers |-> IF ttl[c] = 0 THEN 0 ELSE ttl[c] - 1]
  /\ count' = [c \in Callers |-> IF ttl[c] = 1 THEN 0 ELSE count[c]]
  /\ admitted' = [c \in Callers |->
                    [age \in 0 .. Window - 1 |-> IF age = 0 THEN 0 ELSE admitted[c][age - 1]]]
  /\ UNCHANGED up

Outage ==
  /\ up
  /\ up' = FALSE
  /\ UNCHANGED <<count, ttl, admitted>>

\* Redis answers again, with its data or as new: every caller starts over.
Recovery ==
  /\ ~up
  /\ up' = TRUE
  /\ \/ UNCHANGED <<count, ttl, admitted>>
     \/ /\ count' = [c \in Callers |-> 0]
        /\ ttl' = [c \in Callers |-> 0]
        /\ admitted' = [c \in Callers |-> [age \in 0 .. Window - 1 |-> 0]]

Next ==
  \/ \E c \in Callers : Allow(c) \/ AllowUnanswered(c)
  \/ Tick \/ Outage \/ Recovery

Spec == Init /\ [][Next]_vars

\* Time passes, and outages end.
FairSpec == Spec /\ WF_vars(Tick) /\ WF_vars(Recovery)

-----------------------------------------------------------------------------
(* A counter is never without an expiry: no caller is locked out for good, *)
(* whatever failed between the calls.                                      *)
EveryCounterExpires == \A c \in Callers : count[c] > 0 => ttl[c] > 0

(* A fixed window forgets at its end, so bursts meet across its border: as *)
(* long as Redis keeps its data, the limiter admits at most Limit requests *)
(* of a caller per window, and twice that in any Window ticks.             *)
Recent(c, ages) == SumFunctionOnSet(admitted[c], ages)

\* the ticks since the caller's key was made
ThisWindow(c) == IF ttl[c] = 0 THEN {} ELSE 0 .. (Window - ttl[c])

WindowIsBounded ==
  \A c \in Callers : /\ Recent(c, ThisWindow(c) \cap DOMAIN admitted[c]) <= Limit
                     /\ Recent(c, DOMAIN admitted[c]) <= 2 * Limit

(* However hard a caller keeps trying, his window ends.                    *)
LockoutEnds == \A c \in Callers : count[c] > Limit ~> count[c] = 0
=============================================================================
