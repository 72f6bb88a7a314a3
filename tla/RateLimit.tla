----------------------------- MODULE RateLimit -----------------------------
(***************************************************************************)
(* The per-minute limit of one identity: a counter in Valkey per window,   *)
(* raised by the gateway and again by the application's middleware, under  *)
(* a limit that is read from a cache at each of the two.                   *)
(***************************************************************************)
EXTENDS Naturals, FiniteSets

CONSTANTS
  Calls,        \* requests in flight at once
  Layers,       \* "gateway" and "middleware", those that are switched on
  PlanLimit,    \* the plan's api_rate_limit_per_min
  Default,      \* DEFAULT_API_RATE_LIMIT_PER_MIN
  Window,       \* length of a window, 60 s, in steps of the clock
  Ttl,          \* life of a counter after EXPIRE, 70 s, in the same steps
  MaxClock,     \* steps of the clock
  MaxRequests   \* requests in all

ASSUME RateAssumption ==
  /\ PlanLimit \in Nat \ {0} /\ Default \in Nat \ {0}
  /\ Window \in Nat \ {0} /\ Ttl \in Nat /\ Window <= Ttl
  /\ MaxClock \in Nat /\ MaxRequests \in Nat

VARIABLES
  clock,      \* the wall clock
  counter,    \* per window, ratelimit:...:<window> in Valkey, 0 without a key
  expiry,     \* per window, when Valkey drops the counter, 0 without EXPIRE
  tenantCap,  \* tenant:ratelimit:<tenant>, 0 without a key
  call,       \* per request, the layer it is at and what it has computed
  passed,     \* history: per window, requests let through by count, at either layer
  late,       \* history: windows counted in by a request that had named its window
              \* longer ago than a counter outlives its window
  arrived     \* requests so far

rateVars == <<clock, counter, expiry, tenantCap, call, passed, late, arrived>>

\* _current_window and the clock's range.
WindowAt(t) == t \div Window
Windows == 0 .. WindowAt(MaxClock)
Done == [phase |-> "done"]

RateInit ==
  /\ clock = 0
  /\ counter = [w \in Windows |-> 0] /\ expiry = [w \in Windows |-> 0]
  /\ tenantCap = 0
  /\ call = [c \in Calls |-> Done]
  /\ passed = [w \in Windows |-> 0] /\ late = {}
  /\ arrived = 0

\* resolve_limit_per_minute without an override.
Limit == IF tenantCap > 0 THEN tenantCap ELSE Default
HighestLimit == IF PlanLimit > Default THEN PlanLimit ELSE Default

\* hydrate_tenant_rate_limit at provisioning or start; the key lives an hour.
Hydrate ==
  /\ tenantCap = 0
  /\ tenantCap' = PlanLimit
  /\ UNCHANGED <<clock, counter, expiry, call, passed, late, arrived>>

ExpireLimit ==
  /\ tenantCap > 0
  /\ tenantCap' = 0
  /\ UNCHANGED <<clock, counter, expiry, call, passed, late, arrived>>

-----------------------------------------------------------------------------
(* consume_rate_limit *)

\* At a layer, with the limit read.
At(l) == [phase |-> "limited", layer |-> l, limit |-> Limit]

\* A request that is let through leaves the gateway for the middleware.
Onward(l) == IF l = "gateway" /\ "middleware" \in Layers THEN At("middleware") ELSE Done

Enter(c, l) ==
  /\ call[c] = Done /\ arrived < MaxRequests
  /\ call' = [call EXCEPT ![c] = At(l)]
  /\ arrived' = arrived + 1
  /\ UNCHANGED <<clock, counter, expiry, tenantCap, passed, late>>

\* build_rate_limit_bucket reads the clock.
NameBucket(c) ==
  /\ call[c].phase = "limited"
  /\ call' = [call EXCEPT ![c] = [phase |-> "named", layer |-> call[c].layer,
                                  limit |-> call[c].limit, named |-> clock]]
  /\ UNCHANGED <<clock, counter, expiry, tenantCap, passed, late, arrived>>

Allowed(count, limit) == count <= limit

\* INCR decides; the first to count has yet to set the expiry.
Count(c) ==
  LET l == call[c].layer
      w == WindowAt(call[c].named)
      count == counter[w] + 1
      ok == Allowed(count, call[c].limit)
  IN
  /\ call[c].phase = "named"
  /\ counter' = [counter EXCEPT ![w] = count]
  /\ passed' = IF ok THEN [passed EXCEPT ![w] = @ + 1] ELSE passed
  /\ late' = IF clock - call[c].named > Ttl - Window THEN late \union {w} ELSE late
  /\ call' = [call EXCEPT ![c] =
                IF count = 1 THEN [phase |-> "first", layer |-> l, window |-> w]
                ELSE IF ok THEN Onward(l) ELSE Done]
  /\ UNCHANGED <<clock, expiry, tenantCap, arrived>>

\* Mutant: the counter is given the length of its window to live.
Deadline_Window(now) == now + Window

Deadline(now) == now + Ttl

\* EXPIRE, after the first INCR.
SetExpiry(c) ==
  /\ call[c].phase = "first"
  /\ expiry' = [expiry EXCEPT ![call[c].window] = Deadline(clock)]
  /\ call' = [call EXCEPT ![c] = Onward(call[c].layer)]
  /\ UNCHANGED <<clock, counter, tenantCap, passed, late, arrived>>

\* Valkey does not answer: the request is let through uncounted; without the
\* EXPIRE the counter stays.
FailOpen(c) ==
  /\ call[c].phase \in {"named", "first"}
  /\ call' = [call EXCEPT ![c] = Onward(call[c].layer)]
  /\ UNCHANGED <<clock, counter, expiry, tenantCap, passed, late, arrived>>

\* Valkey drops the counter at its time, whatever is still under way.
ExpireCounter(w) ==
  /\ expiry[w] > 0 /\ clock >= expiry[w]
  /\ counter' = [counter EXCEPT ![w] = 0]
  /\ expiry' = [expiry EXCEPT ![w] = 0]
  /\ UNCHANGED <<clock, tenantCap, call, passed, late, arrived>>

Tick ==
  /\ clock < MaxClock
  /\ clock' = clock + 1
  /\ UNCHANGED <<counter, expiry, tenantCap, call, passed, late, arrived>>

RateNext ==
  \/ Hydrate \/ ExpireLimit \/ Tick
  \/ \E c \in Calls :
       \/ \E l \in Layers : Enter(c, l)
       \/ NameBucket(c) \/ Count(c) \/ SetExpiry(c) \/ FailOpen(c)
  \/ \E w \in Windows : ExpireCounter(w)

RateSpec == RateInit /\ [][RateNext]_rateVars

-----------------------------------------------------------------------------

RateTypeOK ==
  /\ clock \in 0 .. MaxClock
  /\ counter \in [Windows -> 0 .. 2 * MaxRequests]
  /\ expiry \in [Windows -> 0 .. MaxClock + Ttl]
  /\ tenantCap \in {0, PlanLimit}
  /\ passed \in [Windows -> 0 .. 2 * MaxRequests]
  /\ late \subseteq Windows

\* The two layers together let no more requests through the counters of one
\* window than the highest limit in force, although INCR and EXPIRE are two
\* commands, the limit comes from a cache that lapses, and the counter does so
\* too - as long as every request counts within the 10 s by which a counter
\* outlives its window (edge_rate_limit.py:108-153).
WindowHolds == \A w \in Windows \ late : passed[w] <= HighestLimit
=============================================================================
