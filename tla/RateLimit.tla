-------------------------------- MODULE RateLimit --------------------------------
(***************************************************************************)
(* The gate in front of POST /api/payments/create-order: fixed windows     *)
(* counted per address and per e-mail (packages/rate-limit, its wiring in  *)
(* apps/web and the order of checks in the route).  The clock is read      *)
(* before the statement that counts, so a request may be counted late,     *)
(* and an operational job deletes closed windows at any time.              *)
(***************************************************************************)
EXTENDS Absence, Integers, FiniteSets

CONSTANTS
    Posts,
    IpOf(_),         \* client address, None behind a proxy that strips it
    EmailOf(_),      \* customerEmail of the body, None in a body without one
    Unparsable,      \* requests whose body is not JSON
    ProcessOf(_),    \* the replica that serves a request
    Production,      \* NODE_ENV = 'production'
    IpPolicy,        \* CREATE_ORDER_IP_POLICY: [name, limit, windowMs]
    EmailPolicy,     \* CREATE_ORDER_EMAIL_POLICY
    TicksPerSecond,  \* ticks of the clock in a second of Retry-After
    MaxClock         \* bound: ticks of the clock

\* Two policies of different names, their limits and windows, and a second of some ticks.
ASSUME GateConstants ==
    /\ IsFiniteSet(Posts)
    /\ IpPolicy.name # EmailPolicy.name
    /\ IpPolicy.limit \in Nat /\ EmailPolicy.limit \in Nat
    /\ IpPolicy.windowMs \in Nat \ {0} /\ EmailPolicy.windowMs \in Nat \ {0}
    /\ TicksPerSecond \in Nat \ {0}
    /\ MaxClock \in Nat

Policies == {IpPolicy, EmailPolicy}

VARIABLES
    clock,
    counters,    \* rows: [store, policy, identifier, start, hits]
    stage,       \* where each request is
    at,          \* the instant it last read the clock
    decisions,   \* every decision so far, with the instant it was counted
    status_code  \* the status each request was answered with

gateVars == <<clock, counters, stage, at, decisions, status_code>>

GateSteps == {"arriving", "ip", "body", "email", "create", "answered"}

\* Counters are rows with hits, and requests keep to their steps.
GateTypeOK ==
    /\ clock \in 0..MaxClock
    /\ \A row \in counters : row.hits \in 1..Cardinality(Posts)
    /\ stage \in [Posts -> GateSteps]
    /\ at \in [Posts -> 0..MaxClock]
    /\ status_code \in [Posts -> {0, 201, 400, 429}]

GateInit ==
    /\ clock = 0
    /\ counters = {}
    /\ stage = [r \in Posts |-> "arriving"]
    /\ at = [r \in Posts |-> 0]
    /\ decisions = {}
    /\ status_code = [r \in Posts |-> 0]

--------------------------------------------------------------------------
\* Fixed windows, not sliding.
WindowStart(now, windowMs) == (now \div windowMs) * windowMs

\* One table for every replica in production, a map per process elsewhere.
CounterStore(r) == IF Production THEN "postgres" ELSE ProcessOf(r)

BucketKey(r, policy, identifier) ==
    [store |-> CounterStore(r), policy |-> policy.name, identifier |-> identifier,
     start |-> WindowStart(at[r], policy.windowMs)]

BucketOf(row) == [store |-> row.store, policy |-> row.policy,
                  identifier |-> row.identifier, start |-> row.start]

Hits(bucket) == IF \E row \in counters : BucketOf(row) = bucket
                THEN (CHOOSE row \in counters : BucketOf(row) = bucket).hits
                ELSE 0

\* Whole seconds, rounded up, one at least.
RetryAfter(ticksLeft) ==
    LET seconds == (ticksLeft + TicksPerSecond - 1) \div TicksPerSecond
    IN  IF seconds < 1 THEN 1 ELSE seconds

\* What is left of the bucket's window at the instant now.
TicksLeft(now, policy, bucket) ==
    LET resetAt == bucket.start + policy.windowMs
    IN  IF resetAt > now THEN resetAt - now ELSE 0

\* decide, for the request's own reading of the clock.
Decide(r, policy, bucket, hits) ==
    [request |-> r, policy |-> policy, bucket |-> bucket, hits |-> hits, counted |-> clock,
     at |-> at[r], allowed |-> hits <= policy.limit,
     retryAfter |-> RetryAfter(TicksLeft(at[r], policy, bucket))]

\* consume: the row is inserted with one hit or raised by one, and the number
\* it then holds decides; allowed requests go on, the others get a 429.
Consume(r, policy, identifier, next) ==
    LET bucket == BucketKey(r, policy, identifier)
        hits == Hits(bucket) + 1
        decision == Decide(r, policy, bucket, hits)
    IN  /\ counters' = {row \in counters : BucketOf(row) # bucket}
                         \cup {[store |-> bucket.store, policy |-> bucket.policy,
                                identifier |-> identifier, start |-> bucket.start, hits |-> hits]}
        /\ decisions' = decisions \cup {decision}
        /\ stage' = [stage EXCEPT ![r] = IF decision.allowed THEN next ELSE "answered"]
        /\ status_code' = [status_code EXCEPT ![r] = IF decision.allowed THEN @ ELSE 429]
        /\ UNCHANGED <<clock, at>>

\* The address is checked first, before the body is read; the clock is read now.
Arrive(r) ==
    /\ stage[r] = "arriving"
    /\ at' = [at EXCEPT ![r] = clock]
    /\ stage' = [stage EXCEPT ![r] = IF IpOf(r) = None THEN "body" ELSE "ip"]
    /\ UNCHANGED <<clock, counters, decisions, status_code>>

CheckIp(r) == stage[r] = "ip" /\ Consume(r, IpPolicy, IpOf(r), "body")

\* A body that is no JSON ends here; one without an e-mail passes unchecked.
ReadBody(r) ==
    /\ stage[r] = "body"
    /\ IF r \in Unparsable
       THEN /\ stage' = [stage EXCEPT ![r] = "answered"]
            /\ status_code' = [status_code EXCEPT ![r] = 400]
            /\ UNCHANGED at
       ELSE /\ stage' = [stage EXCEPT ![r] = IF EmailOf(r) = None THEN "create" ELSE "email"]
            /\ at' = [at EXCEPT ![r] = clock]
            /\ UNCHANGED status_code
    /\ UNCHANGED <<clock, counters, decisions>>

CheckEmail(r) == stage[r] = "email" /\ Consume(r, EmailPolicy, EmailOf(r), "create")

\* createOrder itself is module OrderIntake.
CreateOrder(r) ==
    /\ stage[r] = "create"
    /\ stage' = [stage EXCEPT ![r] = "answered"]
    /\ status_code' = [status_code EXCEPT ![r] = 201]
    /\ UNCHANGED <<clock, counters, at, decisions>>

PolicyNamed(name) == CHOOSE p \in Policies : p.name = name

\* Mutant: windows are swept by their start.
ExpiredByStart(row) == row.start <= clock

\* expires_at <= now.
Expired(row) == row.start + PolicyNamed(row.policy).windowMs <= clock

DeleteExpired ==
    /\ \E row \in counters : Expired(row)
    /\ counters' = {row \in counters : ~Expired(row)}
    /\ UNCHANGED <<clock, stage, at, decisions, status_code>>

ClockTicks ==
    /\ clock < MaxClock
    /\ clock' = clock + 1
    /\ UNCHANGED <<counters, stage, at, decisions, status_code>>

--------------------------------------------------------------------------
GateNext ==
    \/ \E r \in Posts :
          Arrive(r) \/ CheckIp(r) \/ ReadBody(r) \/ CheckEmail(r) \/ CreateOrder(r)
    \/ DeleteExpired
    \/ ClockTicks

GateSpec == GateInit /\ [][GateNext]_gateVars

--------------------------------------------------------------------------
(* Properties.                                                             *)

\* Counted before its window closed: a request that stalls past the end of its
\* window may find the row swept and is let through, which costs nobody's budget.
InTime(d) == d.counted < d.bucket.start + d.policy.windowMs

\* No store lets more than the limit of a caller through a window, whatever requests
\* overlap (consume, "two concurrent calls at the limit boundary must not both be
\* allowed"), nor more than twice the limit within the length of a window laid anywhere
\* (windowStart).  In production there is one store for all replicas.
WindowsHold ==
    \A d \in decisions :
        LET let == {e \in decisions : /\ e.policy = d.policy /\ e.allowed /\ InTime(e)
                                      /\ e.bucket.store = d.bucket.store
                                      /\ e.bucket.identifier = d.bucket.identifier}
        IN  /\ Cardinality({e \in let : e.bucket = d.bucket}) <= d.policy.limit
            /\ Cardinality({e \in let : /\ d.counted <= e.counted
                                        /\ e.counted < d.counted + d.policy.windowMs})
                 <= 2 * d.policy.limit

\* Nobody is refused before the limit was spent by others, and whoever waits as
\* long as Retry-After says finds a fresh window (decide).
RefusalsAreFair ==
    \A d \in decisions :
        ~d.allowed =>
            /\ Cardinality({e \in decisions : e.bucket = d.bucket /\ e.hits < d.hits})
                 >= d.policy.limit
            /\ d.retryAfter >= 1
            /\ WindowStart(d.at + d.retryAfter * TicksPerSecond, d.policy.windowMs)
                 > d.bucket.start

\* Every order was let through by each check that applied to its request
\* (route.ts: the address first, the e-mail of the raw body second).
OrdersPassedTheGate ==
    \A r \in Posts :
        status_code[r] = 201 =>
            \A d \in {[p |-> IpPolicy, id |-> IpOf(r)], [p |-> EmailPolicy, id |-> EmailOf(r)]} :
                d.id # None =>
                    \E e \in decisions : e.request = r /\ e.policy = d.p /\ e.allowed

\* What the gate promises whatever the requests, windows and sweeps interleave.
GateHolds == GateTypeOK /\ WindowsHold /\ RefusalsAreFair /\ OrdersPassedTheGate
=============================================================================
