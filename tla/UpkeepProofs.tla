--------------------------- MODULE UpkeepProofs ---------------------------
(***************************************************************************)
(* What keeps the shop running: the limiter in front of create-order, the  *)
(* deployment of unique indexes, the record of webhook requests and the    *)
(* detection of duplicates.  Each part is a component of its own, with its *)
(* own inductive invariant.                                                *)
(***************************************************************************)
EXTENDS RateLimit, IndexDeploy, WebhookRecords, Reconciliation, FiniteSetTheorems, WellFoundedInduction, TLAPS

---------------------------------------------------------------------------
(* The gate of create-order (RateLimit).                                   *)

Dated(d) ==
    /\ d.request \in Posts
    /\ d.policy \in Policies
    /\ d.bucket = [store |-> d.bucket.store, policy |-> d.policy.name,
                   identifier |-> d.bucket.identifier,
                   start |-> WindowStart(d.at, d.policy.windowMs)]
    /\ d.at \in Nat
    /\ d.counted \in Nat
    /\ d.at <= d.counted
    /\ d.counted <= clock
    /\ d.hits \in Nat \ {0}
    /\ d.allowed <=> d.hits <= d.policy.limit
    /\ d.retryAfter = RetryAfter(TicksLeft(d.at, d.policy, d.bucket))

GateTyped ==
    /\ clock \in 0..MaxClock
    /\ stage \in [Posts -> GateSteps]
    /\ at \in [Posts -> 0..MaxClock]
    /\ status_code \in [Posts -> {0, 201, 400, 429}]
    /\ \A r \in Posts : at[r] <= clock
    /\ \A d \in decisions : Dated(d)
    /\ IsFiniteSet(decisions)
    /\ \A row \in counters : row.hits \in Nat \ {0}
    /\ \A row, other \in counters : BucketOf(row) = BucketOf(other) => row = other

\* A request is counted once by each policy, and not before it gets there.
CountedOnce ==
    /\ \A d, e \in decisions : d.request = e.request /\ d.policy = e.policy => d = e
    /\ \A d \in decisions :
          /\ stage[d.request] \notin {"arriving", "ip"}
          /\ stage[d.request] \in {"body", "email"} => d.policy = IpPolicy

\* The hits of a bucket are counted from one, without a gap.
NoGaps ==
    /\ \A row \in counters, k \in Nat \ {0} :
          k <= row.hits => \E e \in decisions : e.bucket = BucketOf(row) /\ e.hits = k
    /\ \A d \in decisions, k \in Nat \ {0} :
          k <= d.hits => \E e \in decisions : e.bucket = d.bucket /\ e.hits = k

\* While a window is open its row is there, and no two requests have the same number.
OpenWindows ==
    /\ \A d \in decisions :
          clock < d.bucket.start + d.policy.windowMs =>
              \E row \in counters : BucketOf(row) = d.bucket /\ d.hits <= row.hits
    /\ \A d, e \in decisions :
          d.bucket = e.bucket /\ d.hits = e.hits /\ InTime(d) /\ InTime(e) => d = e

LetThroughBy(policy, id, r) ==
    id # None => \E e \in decisions : e.request = r /\ e.policy = policy /\ e.allowed

\* What a request has passed when it has come as far as this.
Passed ==
    \A r \in Posts :
        /\ (stage[r] \in {"body", "email", "create"} \/ status_code[r] = 201) =>
               LetThroughBy(IpPolicy, IpOf(r), r)
        /\ (stage[r] = "create" \/ status_code[r] = 201) =>
               LetThroughBy(EmailPolicy, EmailOf(r), r)
        /\ stage[r] # "answered" => status_code[r] = 0

GateIInv == GateTyped /\ CountedOnce /\ NoGaps /\ OpenWindows /\ Passed

--------------------------------------------------------------------------
(* Windows and numbers.                                                    *)

LEMMA SmallerMultiple ==
    ASSUME NEW p \in Int, NEW q \in Int, NEW w \in Nat \ {0}, p * w < q * w
    PROVE  p < q
<1> SUFFICES ASSUME p >= q PROVE FALSE
  OBVIOUS
<1>1. (p - q) * w >= 0
  OBVIOUS
<1>2. (p - q) * w = p * w - q * w
  OBVIOUS
<1> QED
  BY <1>1, <1>2

\* A reading of the clock lies in the window that starts at its WindowStart.
LEMMA WindowAround ==
    ASSUME NEW now \in Nat, NEW w \in Nat \ {0}
    PROVE  /\ WindowStart(now, w) \in Nat
           /\ WindowStart(now, w) <= now
           /\ now < WindowStart(now, w) + w
           /\ now \div w \in Nat
           /\ WindowStart(now, w) = (now \div w) * w
BY SMT DEF WindowStart

\* Whoever waits to the end of a window finds a later one.
LEMMA LaterWindow ==
    ASSUME NEW now \in Nat, NEW later \in Nat, NEW w \in Nat \ {0},
           later >= WindowStart(now, w) + w
    PROVE  WindowStart(later, w) > WindowStart(now, w)
<1> DEFINE p == now \div w
           q == later \div w
<1>1. /\ p \in Nat /\ q \in Nat /\ WindowStart(now, w) = p * w
      /\ WindowStart(later, w) = q * w /\ later < q * w + w
  BY WindowAround
<1>2. p * w < q * w
  <2> HIDE DEF p, q
  <2>1. p * w + w < q * w + w
    BY <1>1
  <2> QED
    BY <2>1, <1>1
<1> QED
  BY <1>1, <1>2

\* Two instants less than a window's length apart lie in one window or in the next.
LEMMA SameOrNext ==
    ASSUME NEW c \in Nat, NEW e \in Nat, NEW x \in Nat, NEW w \in Nat \ {0}, c <= e, e < c + w,
           WindowStart(x, w) <= e, e < WindowStart(x, w) + w
    PROVE  WindowStart(x, w) \in {WindowStart(c, w), WindowStart(c, w) + w}
<1> DEFINE p == c \div w
           q == x \div w
<1>1. /\ p \in Nat /\ q \in Nat /\ WindowStart(c, w) = p * w /\ WindowStart(x, w) = q * w
      /\ p * w <= c /\ c < p * w + w /\ q * w <= e /\ e < q * w + w
  BY WindowAround
<1> HIDE DEF p, q
<1>2. q < p + 2
  <2>1. q * w < p * w + 2 * w
    BY <1>1
  <2>2. (p + 2) * w = p * w + 2 * w
    BY <1>1
  <2> QED
    BY <1>1, <2>1, <2>2, SmallerMultiple
<1>3. p < q + 1
  <2>1. p * w < q * w + w
    BY <1>1
  <2>2. (q + 1) * w = q * w + w
    BY <1>1
  <2> QED
    BY <1>1, <2>1, <2>2, SmallerMultiple
<1>4. q = p \/ q = p + 1
  BY <1>1, <1>2, <1>3
<1>5. (p + 1) * w = p * w + w
  BY <1>1
<1> QED
  BY <1>1, <1>4, <1>5

\* Retry-After reaches the end of what is left, and is a second at least.
LEMMA RetryReaches ==
    ASSUME NEW left \in Nat
    PROVE  /\ RetryAfter(left) \in Nat /\ RetryAfter(left) >= 1
           /\ RetryAfter(left) * TicksPerSecond >= left
<1> DEFINE t == TicksPerSecond
           s == (left + t - 1) \div t
<1>1. t \in Nat \ {0}
  BY GateConstants
<1>2. s \in Nat /\ left + t - 1 < s * t + t
  BY <1>1, SMT
<1>3. s * t >= left
  BY <1>1, <1>2
<1>4. CASE s < 1
  <2>1. RetryAfter(left) = 1
    BY <1>4 DEF RetryAfter
  <2>2. s = 0
    BY <1>2, <1>4
  <2> QED
    BY <2>1, <2>2, <1>1, <1>3
<1>5. CASE ~(s < 1)
  <2>1. RetryAfter(left) = s
    BY <1>5 DEF RetryAfter
  <2> QED
    BY <2>1, <1>2, <1>3, <1>5
<1> QED
  BY <1>4, <1>5

--------------------------------------------------------------------------
(* Steps.                                                                  *)

LEMMA PolicyFacts ==
    /\ \A p \in Policies : p.limit \in Nat /\ p.windowMs \in Nat \ {0} /\ PolicyNamed(p.name) = p
    /\ \A p, q \in Policies : p.name = q.name => p = q
    /\ IpPolicy \in Policies /\ EmailPolicy \in Policies /\ IpPolicy # EmailPolicy
<1>1. \A p, q \in Policies : p.name = q.name => p = q
  BY GateConstants DEF Policies
<1> QED
  BY <1>1, GateConstants DEF Policies, PolicyNamed

\* The bucket of a decision is that of its policy and of the window it was read in.
LEMMA DatedFacts ==
    ASSUME NEW d, Dated(d)
    PROVE  /\ d.policy \in Policies /\ d.bucket.policy = d.policy.name
           /\ d.bucket.start = WindowStart(d.at, d.policy.windowMs)
           /\ d.bucket.start \in Nat /\ d.at \in Nat /\ d.counted \in Nat
           /\ d.policy.windowMs \in Nat \ {0} /\ d.policy.limit \in Nat
           /\ d.bucket.start <= d.at /\ d.at < d.bucket.start + d.policy.windowMs
           /\ d.at <= d.counted /\ d.counted <= clock
<1>1. d.bucket = [store |-> d.bucket.store, policy |-> d.policy.name,
                  identifier |-> d.bucket.identifier,
                  start |-> WindowStart(d.at, d.policy.windowMs)]
  BY DEF Dated
<1>2. d.bucket.policy = d.policy.name /\ d.bucket.start = WindowStart(d.at, d.policy.windowMs)
  BY <1>1
<1>3. /\ d.policy \in Policies /\ d.at \in Nat /\ d.counted \in Nat
      /\ d.at <= d.counted /\ d.counted <= clock
  BY DEF Dated
<1>4. d.policy.windowMs \in Nat \ {0} /\ d.policy.limit \in Nat
  BY <1>3, PolicyFacts
<1> QED
  BY <1>2, <1>3, <1>4, WindowAround

LEMMA GateInitHolds == ASSUME GateInit PROVE GateIInv
<1>1. GateTyped
  BY FS_EmptySet, GateConstants DEF GateInit, GateTyped, GateSteps
<1>2. CountedOnce /\ NoGaps /\ OpenWindows
  BY DEF GateInit, CountedOnce, NoGaps, OpenWindows
<1>3. Passed
  BY DEF GateInit, Passed
<1> QED
  BY <1>1, <1>2, <1>3 DEF GateIInv

\* The number a row holds.
LEMMA HitsOf ==
    ASSUME GateTyped, NEW bucket
    PROVE  /\ Hits(bucket) \in Nat
           /\ \A row \in counters : BucketOf(row) = bucket => Hits(bucket) = row.hits
           /\ (\A row \in counters : BucketOf(row) # bucket) => Hits(bucket) = 0
<1>1. ASSUME NEW row \in counters, BucketOf(row) = bucket
      PROVE  Hits(bucket) = row.hits /\ row.hits \in Nat
  <2>1. (CHOOSE other \in counters : BucketOf(other) = bucket) = row
    BY <1>1 DEF GateTyped
  <2> QED
    BY <1>1, <2>1 DEF Hits, GateTyped
<1>2. (\A row \in counters : BucketOf(row) # bucket) => Hits(bucket) = 0
  BY DEF Hits
<1> QED
  BY <1>1, <1>2

\* What has to be so for a request to stand at a step with an answer.
MayStand(r, step, answer) ==
    /\ step \in {"arriving", "ip"} => \A d \in decisions : d.request # r
    /\ step \in {"body", "email"} => \A d \in decisions : d.request = r => d.policy = IpPolicy
    /\ step \in {"body", "email", "create"} \/ answer = 201 => LetThroughBy(IpPolicy, IpOf(r), r)
    /\ step = "create" \/ answer = 201 => LetThroughBy(EmailPolicy, EmailOf(r), r)
    /\ step # "answered" => answer = 0

LEMMA AllMayStand ==
    ASSUME NEW r \in Posts
    PROVE  CountedOnce /\ Passed => MayStand(r, stage[r], status_code[r])
BY DEF CountedOnce, Passed, MayStand

\* A request that moves on without being counted.
LEMMA MoveKeeps ==
    ASSUME GateIInv, NEW r \in Posts, NEW to, to \in GateSteps,
           NEW answer, answer \in {0, 201, 400, 429},
           UNCHANGED <<clock, counters, decisions>>,
           stage' = [stage EXCEPT ![r] = to], status_code' = [status_code EXCEPT ![r] = answer],
           at' \in [Posts -> 0..MaxClock], \A q \in Posts : at'[q] <= clock,
           MayStand(r, to, answer)
    PROVE  GateIInv'
<1>1. GateTyped'
  <2>1. \A d \in decisions' : Dated(d)'
    BY DEF GateIInv, GateTyped, Dated
  <2>2. stage' \in [Posts -> GateSteps] /\ status_code' \in [Posts -> {0, 201, 400, 429}]
    BY DEF GateIInv, GateTyped
  <2> QED
    BY <2>1, <2>2 DEF GateIInv, GateTyped
<1>2. CountedOnce'
  <2>1. \A d \in decisions : d.request = r => MayStand(r, to, answer) /\ stage'[r] = to
    BY DEF GateIInv, GateTyped
  <2> QED
    BY <2>1 DEF GateIInv, CountedOnce, GateTyped, Dated, MayStand
<1>3. NoGaps' /\ OpenWindows'
  BY DEF GateIInv, NoGaps, OpenWindows, InTime
<1>4. Passed'
  <2> SUFFICES ASSUME NEW q \in Posts
               PROVE  /\ (stage'[q] \in {"body", "email", "create"} \/ status_code'[q] = 201) =>
                              LetThroughBy(IpPolicy, IpOf(q), q)
                      /\ (stage'[q] = "create" \/ status_code'[q] = 201) =>
                              LetThroughBy(EmailPolicy, EmailOf(q), q)
                      /\ stage'[q] # "answered" => status_code'[q] = 0
    BY DEF Passed, LetThroughBy
  <2>1. CASE q = r
    BY <2>1 DEF GateIInv, GateTyped, MayStand
  <2>2. CASE q # r
    BY <2>2 DEF GateIInv, GateTyped, Passed
  <2> QED
    BY <2>1, <2>2
<1> QED
  BY <1>1, <1>2, <1>3, <1>4 DEF GateIInv

LEMMA ArriveKeeps == ASSUME GateIInv, NEW r \in Posts, Arrive(r) PROVE GateIInv'
<1> DEFINE to == IF IpOf(r) = None THEN "body" ELSE "ip"
<1>1. MayStand(r, "arriving", 0) /\ status_code[r] = 0
  BY AllMayStand DEF Arrive, GateIInv, MayStand
<1>2. to \in GateSteps /\ MayStand(r, to, 0)
  BY <1>1 DEF GateSteps, MayStand, LetThroughBy
<1>3. /\ at' \in [Posts -> 0..MaxClock] /\ \A q \in Posts : at'[q] <= clock
      /\ status_code' = [status_code EXCEPT ![r] = 0]
  BY <1>1 DEF Arrive, GateIInv, GateTyped
<1>4. UNCHANGED <<clock, counters, decisions>> /\ stage' = [stage EXCEPT ![r] = to]
  BY DEF Arrive
<1> HIDE DEF to
<1> QED
  BY <1>2, <1>3, <1>4, MoveKeeps

LEMMA ReadBodyKeeps == ASSUME GateIInv, NEW r \in Posts, ReadBody(r) PROVE GateIInv'
<1>1. MayStand(r, "body", 0) /\ status_code[r] = 0
  BY AllMayStand DEF ReadBody, GateIInv, MayStand
<1>2. /\ at' \in [Posts -> 0..MaxClock] /\ \A q \in Posts : at'[q] <= clock
      /\ UNCHANGED <<clock, counters, decisions>>
  BY DEF ReadBody, GateIInv, GateTyped
<1>3. CASE r \in Unparsable
  <2>1. MayStand(r, "answered", 400) /\ "answered" \in GateSteps
    BY DEF MayStand, GateSteps
  <2>2. /\ stage' = [stage EXCEPT ![r] = "answered"]
        /\ status_code' = [status_code EXCEPT ![r] = 400]
    BY <1>3 DEF ReadBody
  <2> QED
    BY <1>2, <2>1, <2>2, MoveKeeps
<1>4. CASE r \notin Unparsable
  <2> DEFINE to == IF EmailOf(r) = None THEN "create" ELSE "email"
  <2>1. MayStand(r, to, 0) /\ to \in GateSteps
    BY <1>1 DEF MayStand, GateSteps, LetThroughBy
  <2>2. stage' = [stage EXCEPT ![r] = to] /\ status_code' = [status_code EXCEPT ![r] = 0]
    BY <1>1, <1>4 DEF ReadBody, GateIInv, GateTyped
  <2> HIDE DEF to
  <2> QED
    BY <1>2, <2>1, <2>2, MoveKeeps
<1> QED
  BY <1>3, <1>4

LEMMA CreateOrderKeeps == ASSUME GateIInv, NEW r \in Posts, CreateOrder(r) PROVE GateIInv'
<1>1. MayStand(r, "create", 0)
  BY AllMayStand DEF CreateOrder, GateIInv, MayStand
<1>2. MayStand(r, "answered", 201) /\ "answered" \in GateSteps
  BY <1>1 DEF GateSteps, MayStand
<1>3. at' \in [Posts -> 0..MaxClock] /\ \A q \in Posts : at'[q] <= clock
  BY DEF CreateOrder, GateIInv, GateTyped
<1>4. /\ UNCHANGED <<clock, counters, decisions>> /\ stage' = [stage EXCEPT ![r] = "answered"]
      /\ status_code' = [status_code EXCEPT ![r] = 201]
  BY DEF CreateOrder
<1> QED
  BY <1>2, <1>3, <1>4, MoveKeeps

\* The clock moves on: windows close, nothing opens again.
LEMMA TickKeeps == ASSUME GateIInv, ClockTicks PROVE GateIInv'
<1>1. /\ clock' = clock + 1 /\ clock' \in 0..MaxClock /\ clock \in Nat
      /\ UNCHANGED <<counters, stage, at, decisions, status_code>>
  BY GateConstants DEF ClockTicks, GateIInv, GateTyped
<1>2. GateTyped'
  <2>1. \A d \in decisions' : Dated(d)'
    BY <1>1 DEF GateIInv, GateTyped, Dated
  <2>2. \A r \in Posts : at'[r] <= clock'
    BY <1>1, GateConstants DEF GateIInv, GateTyped
  <2> QED
    BY <1>1, <2>1, <2>2 DEF GateIInv, GateTyped
<1>3. CountedOnce' /\ NoGaps' /\ Passed'
  BY <1>1 DEF GateIInv, CountedOnce, NoGaps, Passed, LetThroughBy
<1>4. OpenWindows'
  <2>1. \A d \in decisions : d.bucket.start + d.policy.windowMs \in Int
    BY DatedFacts DEF GateIInv, GateTyped
  <2> QED
    BY <1>1, <2>1 DEF GateIInv, OpenWindows, InTime
<1> QED
  BY <1>2, <1>3, <1>4 DEF GateIInv

\* Only rows of closed windows are swept.
LEMMA SweepKeeps == ASSUME GateIInv, DeleteExpired PROVE GateIInv'
<1>1. /\ counters' = {row \in counters : ~Expired(row)}
      /\ UNCHANGED <<clock, stage, at, decisions, status_code>>
  BY DEF DeleteExpired
<1>2. GateTyped'
  <2>1. \A d \in decisions' : Dated(d)'
    BY <1>1 DEF GateIInv, GateTyped, Dated
  <2> QED
    BY <1>1, <2>1 DEF GateIInv, GateTyped
<1>3. CountedOnce' /\ NoGaps' /\ Passed'
  BY <1>1 DEF GateIInv, CountedOnce, NoGaps, Passed, LetThroughBy
<1>4. OpenWindows'
  <2>1. ASSUME NEW d \in decisions, clock < d.bucket.start + d.policy.windowMs
        PROVE  \E row \in counters' : BucketOf(row) = d.bucket /\ d.hits <= row.hits
    <3>1. PICK row \in counters : BucketOf(row) = d.bucket /\ d.hits <= row.hits
      BY <2>1 DEF GateIInv, OpenWindows
    <3>2. row.policy = d.policy.name /\ row.start = d.bucket.start /\ d.policy \in Policies
      <4>1. Dated(d)
        BY DEF GateIInv, GateTyped
      <4> QED
        BY <3>1, <4>1, DatedFacts DEF BucketOf
    <3>3. d.bucket.start + d.policy.windowMs \in Int /\ clock \in Int
      BY DatedFacts DEF GateIInv, GateTyped
    <3>4. ~Expired(row)
      BY <2>1, <3>2, <3>3, PolicyFacts DEF Expired
    <3> QED
      BY <1>1, <3>1, <3>4
  <2> QED
    BY <1>1, <2>1 DEF GateIInv, OpenWindows, InTime
<1> QED
  BY <1>2, <1>3, <1>4 DEF GateIInv

--------------------------------------------------------------------------
(* A request is counted.                                                   *)

LEMMA ConsumeKeeps ==
    ASSUME GateIInv, NEW r \in Posts, NEW policy \in Policies, NEW identifier,
           NEW next \in GateSteps, Consume(r, policy, identifier, next),
           \/ stage[r] = "ip" /\ policy = IpPolicy /\ identifier = IpOf(r) /\ next = "body"
           \/ stage[r] = "email" /\ policy = EmailPolicy /\ identifier = EmailOf(r) /\ next = "create"
    PROVE  GateIInv'
<1> DEFINE bucket == BucketKey(r, policy, identifier)
           hits == Hits(bucket) + 1
           decision == Decide(r, policy, bucket, hits)
           fresh == [store |-> bucket.store, policy |-> bucket.policy, identifier |-> identifier,
                     start |-> bucket.start, hits |-> hits]
           to == IF decision.allowed THEN next ELSE "answered"
<1>1. /\ counters' = {row \in counters : BucketOf(row) # bucket} \cup {fresh}
      /\ decisions' = decisions \cup {decision}
      /\ stage' = [stage EXCEPT ![r] = to]
      /\ status_code' = [status_code EXCEPT ![r] = IF decision.allowed THEN @ ELSE 429]
      /\ UNCHANGED <<clock, at>>
  BY DEF Consume
<1>2. /\ bucket = [store |-> CounterStore(r), policy |-> policy.name, identifier |-> identifier,
                   start |-> WindowStart(at[r], policy.windowMs)]
      /\ fresh.hits = hits
  BY DEF BucketKey
<1>3. BucketOf(fresh) = bucket
  BY <1>2 DEF BucketOf
<1>4. /\ hits \in Nat \ {0}
      /\ \A row \in counters : BucketOf(row) = bucket => hits = row.hits + 1
      /\ (\A row \in counters : BucketOf(row) # bucket) => hits = 1
  <2>1. GateTyped
    BY DEF GateIInv
  <2> QED
    BY <2>1, HitsOf
<1>5. /\ decision.request = r /\ decision.policy = policy /\ decision.bucket = bucket
      /\ decision.hits = hits /\ decision.at = at[r] /\ decision.counted = clock
      /\ decision.allowed = (hits <= policy.limit)
      /\ decision.retryAfter = RetryAfter(TicksLeft(at[r], policy, bucket))
  <2> HIDE DEF bucket, hits
  <2> QED
    BY DEF Decide
<1>6. Dated(decision)
  <2>1. bucket = [store |-> bucket.store, policy |-> policy.name,
                  identifier |-> bucket.identifier,
                  start |-> WindowStart(at[r], policy.windowMs)]
    BY <1>2
  <2>2. at[r] \in Nat /\ clock \in Nat /\ at[r] <= clock
    BY GateConstants DEF GateIInv, GateTyped
  <2> HIDE DEF bucket, hits, decision
  <2>3. decision.allowed <=> hits <= policy.limit
    BY <1>5
  <2> QED
    BY <1>4, <1>5, <2>1, <2>2, <2>3 DEF Dated
<1>7. fresh.hits = hits
  OBVIOUS
<1>8. /\ stage[r] \in {"ip", "email"} /\ stage[r] # "answered"
      /\ \A d \in decisions : d.request = r => d.policy # policy
      /\ MayStand(r, stage[r], 0) /\ status_code[r] = 0
  <2>1. MayStand(r, stage[r], status_code[r])
    BY AllMayStand DEF GateIInv
  <2> QED
    BY <2>1, PolicyFacts DEF MayStand, GateIInv, CountedOnce
<1>9. to \in GateSteps /\ status_code' \in [Posts -> {0, 201, 400, 429}]
  <2>1. to \in GateSteps
    BY DEF GateSteps
  <2> HIDE DEF bucket, hits, decision, to
  <2> QED
    BY <1>1, <2>1 DEF GateIInv, GateTyped
<1> HIDE DEF bucket, hits, decision, fresh
<1>10. GateTyped'
  <2>1. \A d \in decisions' : Dated(d)'
    <3>1. \A d : Dated(d) => Dated(d)'
      BY <1>1 DEF Dated
    <3> QED
      BY <1>1, <1>6, <3>1 DEF GateIInv, GateTyped
  <2>2. IsFiniteSet(decisions')
    BY <1>1, FS_AddElement DEF GateIInv, GateTyped
  <2>3. \A row \in counters' : row.hits \in Nat \ {0}
    BY <1>1, <1>4, <1>7 DEF GateIInv, GateTyped
  <2>4. \A row, other \in counters' : BucketOf(row) = BucketOf(other) => row = other
    BY <1>1, <1>3 DEF GateIInv, GateTyped
  <2>5. stage' \in [Posts -> GateSteps] /\ at' \in [Posts -> 0..MaxClock]
        /\ clock' \in 0..MaxClock /\ \A q \in Posts : at'[q] <= clock'
    BY <1>1, <1>9 DEF GateIInv, GateTyped
  <2> QED
    BY <1>9, <2>1, <2>2, <2>3, <2>4, <2>5 DEF GateTyped
<1>11. CountedOnce'
  <2>1. \A d, e \in decisions' : d.request = e.request /\ d.policy = e.policy => d = e
    BY <1>1, <1>5, <1>8 DEF GateIInv, CountedOnce
  <2>2. ASSUME NEW d \in decisions'
        PROVE  /\ stage'[d.request] \notin {"arriving", "ip"}
               /\ stage'[d.request] \in {"body", "email"} => d.policy = IpPolicy
    <3>1. CASE d.request = r
      <4>1. stage'[r] = to /\ to \in {"body", "create", "answered"}
        BY <1>1 DEF GateIInv, GateTyped
      <4>2. to = "body" => stage[r] = "ip" /\ policy = IpPolicy
        OBVIOUS
      <4>3. stage[r] = "ip" => d = decision
        BY <1>1, <3>1 DEF GateIInv, CountedOnce
      <4> QED
        BY <1>5, <3>1, <4>1, <4>2, <4>3
    <3>2. CASE d.request # r
      <4>1. d \in decisions /\ d.request \in Posts
        BY <1>1, <1>5, <3>2 DEF GateIInv, GateTyped, Dated
      <4> QED
        BY <1>1, <3>2, <4>1 DEF GateIInv, CountedOnce, GateTyped
    <3> QED
      BY <3>1, <3>2
  <2> QED
    BY <2>1, <2>2 DEF CountedOnce
<1>12. NoGaps'
  <2>1. \A k \in Nat \ {0} : k <= hits => \E e \in decisions' : e.bucket = bucket /\ e.hits = k
    <3> SUFFICES ASSUME NEW k \in Nat \ {0}, k <= hits
                 PROVE  \E e \in decisions' : e.bucket = bucket /\ e.hits = k
      OBVIOUS
    <3>1. CASE k = hits
      BY <1>1, <1>5, <3>1
    <3>2. CASE k < hits
      <4>1. PICK row \in counters : BucketOf(row) = bucket /\ hits = row.hits + 1
        BY <1>4, <3>2
      <4>2. k <= row.hits
        BY <3>2, <4>1 DEF GateIInv, GateTyped
      <4> QED
        BY <1>1, <4>1, <4>2 DEF GateIInv, NoGaps
    <3> QED
      BY <1>4, <3>1, <3>2
  <2>2. ASSUME NEW row \in counters', NEW k \in Nat \ {0}, k <= row.hits
        PROVE  \E e \in decisions' : e.bucket = BucketOf(row) /\ e.hits = k
    <3>1. CASE row = fresh
      BY <1>3, <1>7, <2>1, <2>2, <3>1
    <3>2. CASE row \in counters
      BY <1>1, <2>2, <3>2 DEF GateIInv, NoGaps
    <3> QED
      BY <1>1, <3>1, <3>2
  <2>3. ASSUME NEW d \in decisions', NEW k \in Nat \ {0}, k <= d.hits
        PROVE  \E e \in decisions' : e.bucket = d.bucket /\ e.hits = k
    <3>1. CASE d = decision
      BY <1>5, <2>1, <2>3, <3>1
    <3>2. CASE d \in decisions
      BY <1>1, <2>3, <3>2 DEF GateIInv, NoGaps
    <3> QED
      BY <1>1, <3>1, <3>2
  <2>4. \A row \in counters' : BucketOf(row)' = BucketOf(row)
    BY DEF BucketOf
  <2> QED
    BY <2>2, <2>3, <2>4 DEF NoGaps
<1>13. OpenWindows'
  <2>1. ASSUME NEW d \in decisions', clock' < d.bucket.start + d.policy.windowMs
        PROVE  \E row \in counters' : BucketOf(row) = d.bucket /\ d.hits <= row.hits
    <3>1. CASE d = decision
      BY <1>1, <1>3, <1>4, <1>5, <1>7, <3>1
    <3>2. CASE d \in decisions
      <4>1. PICK row \in counters : BucketOf(row) = d.bucket /\ d.hits <= row.hits
        BY <1>1, <2>1, <3>2 DEF GateIInv, OpenWindows
      <4>2. CASE d.bucket = bucket
        <5>1. d.hits \in Nat /\ row.hits \in Nat
          BY <3>2, <4>1 DEF GateIInv, GateTyped, Dated
        <5>2. fresh \in counters' /\ BucketOf(fresh) = d.bucket
          BY <1>1, <1>3, <4>2
        <5>3. d.hits <= fresh.hits
          BY <1>4, <1>7, <4>1, <4>2, <5>1
        <5> QED
          BY <5>2, <5>3
      <4>3. CASE d.bucket # bucket
        BY <1>1, <4>1, <4>3
      <4> QED
        BY <4>2, <4>3
    <3> QED
      BY <1>1, <3>1, <3>2
  <2>2. ASSUME NEW d \in decisions, d.bucket = bucket, d.hits = hits, InTime(decision) PROVE FALSE
    <3>1. clock < bucket.start + policy.windowMs
      BY <1>5, <2>2 DEF InTime
    <3>2. Dated(d)
      BY DEF GateIInv, GateTyped
    <3>3. d.policy = policy
      BY <1>2, <2>2, <3>2, DatedFacts, PolicyFacts
    <3>4. PICK row \in counters : BucketOf(row) = bucket /\ d.hits <= row.hits
      BY <2>2, <3>1, <3>3 DEF GateIInv, OpenWindows
    <3> QED
      BY <1>4, <2>2, <3>4 DEF GateIInv, GateTyped
  <2>3. ASSUME NEW d \in decisions', NEW e \in decisions', d.bucket = e.bucket, d.hits = e.hits,
               InTime(d), InTime(e)
        PROVE  d = e
    <3>1. CASE d \in decisions /\ e \in decisions
      BY <2>3, <3>1 DEF GateIInv, OpenWindows
    <3> QED
      BY <1>1, <1>5, <2>2, <2>3, <3>1
  <2>4. \A row \in counters' : BucketOf(row)' = BucketOf(row)
    BY DEF BucketOf
  <2> QED
    BY <2>1, <2>3, <2>4 DEF OpenWindows, InTime
<1>14. Passed'
  <2>1. ASSUME NEW q \in Posts, NEW p, NEW id, LetThroughBy(p, id, q) PROVE LetThroughBy(p, id, q)'
    BY <1>1, <2>1 DEF LetThroughBy
  <2>2. to # "answered" => LetThroughBy(policy, identifier, r)'
    BY <1>1, <1>5 DEF LetThroughBy
  <2>3. ASSUME NEW q \in Posts
        PROVE  /\ (stage'[q] \in {"body", "email", "create"} \/ status_code'[q] = 201) =>
                       LetThroughBy(IpPolicy, IpOf(q), q)'
               /\ (stage'[q] = "create" \/ status_code'[q] = 201) =>
                       LetThroughBy(EmailPolicy, EmailOf(q), q)'
               /\ stage'[q] # "answered" => status_code'[q] = 0
    <3>1. CASE q = r
      <4>1. /\ stage'[r] = to /\ status_code'[r] = (IF decision.allowed THEN 0 ELSE 429)
            /\ to \in {"body", "create", "answered"} /\ (to = "body" => stage[r] = "ip")
            /\ (to = "create" => stage[r] = "email") /\ (to # "answered" => decision.allowed)
        BY <1>1, <1>8 DEF GateIInv, GateTyped
      <4>2. stage[r] = "email" => LetThroughBy(IpPolicy, IpOf(r), r)'
        BY <1>8, <2>1 DEF MayStand
      <4> QED
        BY <2>2, <3>1, <4>1, <4>2
    <3>2. CASE q # r
      <4>1. stage'[q] = stage[q] /\ status_code'[q] = status_code[q]
        BY <1>1, <3>2 DEF GateIInv, GateTyped
      <4> QED
        BY <2>1, <4>1 DEF GateIInv, Passed
    <3> QED
      BY <3>1, <3>2
  <2> QED
    BY <2>3 DEF Passed
<1> QED
  BY <1>10, <1>11, <1>12, <1>13, <1>14 DEF GateIInv

LEMMA GateNextKeeps == ASSUME GateIInv, [GateNext]_gateVars PROVE GateIInv'
<1>1. ASSUME NEW r \in Posts, CheckIp(r) PROVE GateIInv'
  BY <1>1, ConsumeKeeps, PolicyFacts DEF CheckIp, GateSteps
<1>2. ASSUME NEW r \in Posts, CheckEmail(r) PROVE GateIInv'
  BY <1>2, ConsumeKeeps, PolicyFacts DEF CheckEmail, GateSteps
<1>3. CASE UNCHANGED gateVars
  BY <1>3 DEF gateVars, GateIInv, GateTyped, Dated, CountedOnce, NoGaps, OpenWindows, Passed,
              InTime, LetThroughBy
<1> QED
  BY <1>1, <1>2, <1>3, ArriveKeeps, ReadBodyKeeps, CreateOrderKeeps, TickKeeps, SweepKeeps DEF GateNext

\* The invariant holds in every reachable state.
THEOREM GateInvariance == GateSpec => []GateIInv
<1>1. GateInit => GateIInv
  BY GateInitHolds
<1>2. GateIInv /\ [GateNext]_gateVars => GateIInv'
  BY GateNextKeeps
<1> QED
  BY <1>1, <1>2, PTL DEF GateSpec

--------------------------------------------------------------------------
(* What the invariant says of the gate.                                    *)

\* What carries different numbers up to n is at most n things.
LEMMA Numbered ==
    ASSUME NEW S, NEW n \in Nat, NEW f \in [S -> 1..n], \A x, y \in S : f[x] = f[y] => x = y
    PROVE  IsFiniteSet(S) /\ Cardinality(S) <= n
<1>1. f \in Injection(S, 1..n)
  BY DEF Injection, IsInjective
<1>2. IsFiniteSet(1..n) /\ Cardinality(1..n) = n
  BY FS_Interval
<1> QED
  BY <1>1, <1>2, FS_Injection

\* n numbered things in a finite set are at least n.
LEMMA NumberedIn ==
    ASSUME NEW S, IsFiniteSet(S), NEW n \in Nat, NEW f \in [1..n -> S],
           \A j, k \in 1..n : f[j] = f[k] => j = k
    PROVE  n <= Cardinality(S)
<1>1. f \in Injection(1..n, S)
  BY DEF Injection, IsInjective
<1>2. IsFiniteSet(1..n) /\ Cardinality(1..n) = n
  BY FS_Interval
<1> QED
  BY <1>1, <1>2, FS_Injection

\* A row counts requests, each of them once.
LEMMA GateTypes == ASSUME GateIInv PROVE GateTypeOK
<1>1. ASSUME NEW row \in counters PROVE row.hits \in 1..Cardinality(Posts)
  <2> DEFINE by(k) == CHOOSE e \in decisions : e.bucket = BucketOf(row) /\ e.hits = k
             f == [k \in 1..row.hits |-> by(k).request]
  <2>1. row.hits \in Nat \ {0}
    BY DEF GateIInv, GateTyped
  <2>2. \A k \in 1..row.hits :
           /\ by(k) \in decisions /\ by(k).bucket = BucketOf(row) /\ by(k).hits = k
           /\ by(k).request \in Posts
    <3> SUFFICES ASSUME NEW k \in 1..row.hits
                 PROVE  /\ by(k) \in decisions /\ by(k).bucket = BucketOf(row) /\ by(k).hits = k
                        /\ by(k).request \in Posts
      OBVIOUS
    <3>1. \E e \in decisions : e.bucket = BucketOf(row) /\ e.hits = k
      BY <2>1 DEF GateIInv, NoGaps
    <3>2. by(k) \in decisions /\ by(k).bucket = BucketOf(row) /\ by(k).hits = k
      BY <3>1
    <3> QED
      BY <3>2 DEF GateIInv, GateTyped, Dated
  <2> HIDE DEF by
  <2>3. \A j, k \in 1..row.hits : f[j] = f[k] => j = k
    <3> SUFFICES ASSUME NEW j \in 1..row.hits, NEW k \in 1..row.hits, by(j).request = by(k).request
                 PROVE  j = k
      OBVIOUS
    <3>1. Dated(by(j)) /\ Dated(by(k))
      BY <2>2 DEF GateIInv, GateTyped
    <3>2. by(j).policy = by(k).policy
      BY <2>2, <3>1, DatedFacts, PolicyFacts
    <3>3. by(j) = by(k)
      BY <2>2, <3>2 DEF GateIInv, CountedOnce
    <3> QED
      BY <2>2, <3>3
  <2>4. f \in [1..row.hits -> Posts]
    BY <2>2
  <2> HIDE DEF f
  <2>5. row.hits <= Cardinality(Posts)
    BY <2>1, <2>3, <2>4, NumberedIn, GateConstants
  <2> QED
    BY <2>1, <2>5, FS_CardinalityType, GateConstants
<1> QED
  BY <1>1 DEF GateIInv, GateTyped, GateTypeOK

\* Whoever was let through in time has a number within the limit, and nobody else has it.
LEMMA WindowsFollow == ASSUME GateIInv PROVE WindowsHold
<1> SUFFICES ASSUME NEW d \in decisions
             PROVE  LET let == {e \in decisions : /\ e.policy = d.policy /\ e.allowed /\ InTime(e)
                                                   /\ e.bucket.store = d.bucket.store
                                                   /\ e.bucket.identifier = d.bucket.identifier}
                    IN  /\ Cardinality({e \in let : e.bucket = d.bucket}) <= d.policy.limit
                        /\ Cardinality({e \in let : /\ d.counted <= e.counted
                                                    /\ e.counted < d.counted + d.policy.windowMs})
                             <= 2 * d.policy.limit
  BY DEF WindowsHold
<1> DEFINE let == {e \in decisions : /\ e.policy = d.policy /\ e.allowed /\ InTime(e)
                                      /\ e.bucket.store = d.bucket.store
                                      /\ e.bucket.identifier = d.bucket.identifier}
           limit == d.policy.limit
           w == d.policy.windowMs
           here == {e \in let : e.bucket = d.bucket}
           near == {e \in let : d.counted <= e.counted /\ e.counted < d.counted + w}
           first == WindowStart(d.counted, w)
<1>1. limit \in Nat /\ w \in Nat \ {0} /\ d.counted \in Nat
  BY DatedFacts DEF GateIInv, GateTyped
<1>2. ASSUME NEW e \in let
      PROVE  /\ e.hits \in 1..limit /\ e.policy = d.policy /\ InTime(e)
             /\ e.bucket = [store |-> d.bucket.store, policy |-> d.policy.name,
                            identifier |-> d.bucket.identifier, start |-> e.bucket.start]
             /\ e.bucket.start = WindowStart(e.at, w) /\ e.bucket.start <= e.counted
             /\ e.counted < e.bucket.start + w /\ e.at \in Nat /\ e.counted \in Nat
             /\ e \in decisions /\ e.bucket.start \in Nat
  <2>1. Dated(e) /\ e.policy = d.policy /\ InTime(e) /\ e \in decisions
    BY DEF GateIInv, GateTyped
  <2>2. e.hits \in 1..limit
    BY <1>1, <2>1 DEF Dated
  <2>3. /\ e.bucket.start = WindowStart(e.at, w) /\ e.bucket.start <= e.counted
        /\ e.counted < e.bucket.start + w /\ e.at \in Nat /\ e.counted \in Nat
        /\ e.bucket.start \in Nat
    BY <2>1, DatedFacts DEF InTime
  <2>4. e.bucket = [store |-> d.bucket.store, policy |-> d.policy.name,
                    identifier |-> d.bucket.identifier, start |-> e.bucket.start]
    BY <2>1, <2>3 DEF Dated
  <2> QED
    BY <2>1, <2>2, <2>3, <2>4
<1> HIDE DEF let, limit, w
<1>3. ASSUME NEW e \in let, NEW o \in let, e.bucket.start = o.bucket.start, e.hits = o.hits
      PROVE  e = o
  BY <1>2, <1>3 DEF GateIInv, OpenWindows
<1>4. Cardinality(here) <= limit
  <2> DEFINE f == [e \in here |-> e.hits]
  <2>1. f \in [here -> 1..limit]
    BY <1>2
  <2>2. \A e, o \in here : f[e] = f[o] => e = o
    BY <1>3
  <2> HIDE DEF f, here
  <2> QED
    BY <1>1, <2>1, <2>2, Numbered
<1>5. Cardinality(near) <= 2 * limit
  <2> DEFINE f == [e \in near |-> IF e.bucket.start = first THEN e.hits ELSE limit + e.hits]
  <2>1. \A e \in near : e.bucket.start \in {first, first + w}
    <3> SUFFICES ASSUME NEW e \in near PROVE e.bucket.start \in {first, first + w}
      OBVIOUS
    <3>1. e \in let /\ d.counted <= e.counted /\ e.counted < d.counted + w
      OBVIOUS
    <3>2. /\ e.bucket.start = WindowStart(e.at, w) /\ e.at \in Nat /\ e.counted \in Nat
          /\ WindowStart(e.at, w) <= e.counted /\ e.counted < WindowStart(e.at, w) + w
      BY <1>2, <3>1
    <3> QED
      BY <1>1, <3>1, <3>2, SameOrNext
  <2>2. \A e \in near : e \in let /\ e.hits \in 1..limit
    BY <1>2
  <2> HIDE DEF first, near
  <2>3. f \in [near -> 1..(2 * limit)]
    BY <1>1, <2>2
  <2>4. \A e, o \in near : f[e] = f[o] => e = o
    <3> SUFFICES ASSUME NEW e \in near, NEW o \in near, f[e] = f[o] PROVE e = o
      OBVIOUS
    <3>1. (e.bucket.start = first) <=> (o.bucket.start = first)
      BY <1>1, <2>2
    <3>2. e.hits = o.hits
      BY <1>1, <2>2, <3>1
    <3> QED
      BY <1>3, <2>1, <2>2, <3>1, <3>2
  <2> HIDE DEF f
  <2> QED
    BY <1>1, <2>3, <2>4, Numbered
<1> QED
  BY <1>4, <1>5 DEF let, limit, w

\* A refused request has a number beyond the limit; the numbers up to it were given to others.
LEMMA RefusalsFollow == ASSUME GateIInv PROVE RefusalsAreFair
<1> SUFFICES ASSUME NEW d \in decisions, ~d.allowed
             PROVE  /\ Cardinality({e \in decisions : e.bucket = d.bucket /\ e.hits < d.hits})
                          >= d.policy.limit
                    /\ d.retryAfter >= 1
                    /\ WindowStart(d.at + d.retryAfter * TicksPerSecond, d.policy.windowMs)
                          > d.bucket.start
  BY DEF RefusalsAreFair
<1> DEFINE limit == d.policy.limit
           w == d.policy.windowMs
           before == {e \in decisions : e.bucket = d.bucket /\ e.hits < d.hits}
<1>1. Dated(d)
  BY DEF GateIInv, GateTyped
<1>2. /\ limit \in Nat /\ w \in Nat \ {0} /\ d.at \in Nat /\ d.bucket.start \in Nat
      /\ d.bucket.start = WindowStart(d.at, w)
  BY <1>1, DatedFacts
<1>3. d.hits \in Nat /\ limit < d.hits
  BY <1>1, <1>2 DEF Dated
<1>4. Cardinality(before) >= limit
  <2> DEFINE by(k) == CHOOSE e \in decisions : e.bucket = d.bucket /\ e.hits = k
             f == [k \in 1..limit |-> by(k)]
  <2>1. \A k \in 1..limit : by(k) \in before /\ by(k).hits = k
    <3> SUFFICES ASSUME NEW k \in 1..limit PROVE by(k) \in before /\ by(k).hits = k
      OBVIOUS
    <3>1. k \in Nat \ {0} /\ k <= d.hits /\ k < d.hits
      BY <1>2, <1>3
    <3>2. \E e \in decisions : e.bucket = d.bucket /\ e.hits = k
      BY <3>1 DEF GateIInv, NoGaps
    <3> QED
      BY <3>1, <3>2
  <2> HIDE DEF by
  <2>2. f \in [1..limit -> before] /\ \A j, k \in 1..limit : f[j] = f[k] => j = k
    BY <2>1
  <2>3. IsFiniteSet(before)
    BY FS_Subset DEF GateIInv, GateTyped
  <2> HIDE DEF f, before
  <2>4. limit <= Cardinality(before)
    BY <1>2, <2>2, <2>3, NumberedIn
  <2> QED
    BY <1>2, <2>3, <2>4, FS_CardinalityType
<1>5. d.retryAfter >= 1 /\ WindowStart(d.at + d.retryAfter * TicksPerSecond, w) > d.bucket.start
  <2> DEFINE left == TicksLeft(d.at, d.policy, d.bucket)
  <2>1. left \in Nat /\ d.at + left >= d.bucket.start + w
    BY <1>2 DEF TicksLeft
  <2>2. d.retryAfter = RetryAfter(left)
    BY <1>1 DEF Dated
  <2> HIDE DEF left
  <2>3. /\ d.retryAfter \in Nat /\ d.retryAfter >= 1
        /\ d.retryAfter * TicksPerSecond >= left
    BY <2>1, <2>2, RetryReaches
  <2> DEFINE waited == d.retryAfter * TicksPerSecond
  <2>4. waited \in Nat
    BY <2>3, GateConstants
  <2>5. d.at + waited \in Nat /\ d.at + waited >= WindowStart(d.at, w) + w
    <3> HIDE DEF w
    <3> QED
      BY <1>2, <2>1, <2>3, <2>4
  <2> HIDE DEF w, waited
  <2>6. WindowStart(d.at + waited, w) > WindowStart(d.at, w)
    BY <1>2, <2>5, LaterWindow
  <2> QED
    BY <1>2, <2>3, <2>6 DEF waited
<1> QED
  BY <1>4, <1>5

\* An order has been through both checks.
LEMMA OrdersFollow == ASSUME GateIInv PROVE OrdersPassedTheGate
BY DEF GateIInv, Passed, LetThroughBy, OrdersPassedTheGate

\* No caller gets more than the limit through a window nor twice the limit across two, nobody
\* is refused before that or told to come back too early, and no order bypasses a check
\* (RateLimit), for every set of requests, replica, policy, window and speed of the clock.
THEOREM GateHoldsAlways == GateSpec => []GateHolds
<1>1. GateIInv => GateHolds
  BY GateTypes, WindowsFollow, RefusalsFollow, OrdersFollow DEF GateHolds
<1> QED
  BY <1>1, GateInvariance, PTL

---------------------------------------------------------------------------
(***************************************************************************)
(* Proofs that a deployment of unique indexes keeps its promises for any   *)
(* list of targets, any catalog it may meet and any number of runs that    *)
(* are killed anywhere.                                                    *)
(*                                                                         *)
(* Two facts carry the argument.  A whole index has no colliding rows      *)
(* (WholeIsClean), since writers maintain it from before its last pass; so *)
(* what the catalog calls valid is enforced, and stays so.  And the run    *)
(* that holds the lock is alone: what it has read of a target is still     *)
(* true when it acts on it (Progress).                                     *)
(***************************************************************************)

Whole == Entry("right", TRUE, TRUE, TRUE)
Built == Entry("right", FALSE, FALSE, TRUE)
Maintained == Entry("right", FALSE, TRUE, TRUE)

\* Nothing has happened before the database is met.
Fresh ==
    found = None =>
        /\ catalog = [t \in Targets |-> None]
        /\ duplicates = {}
        /\ status = [t \in Targets |-> None]
        /\ holder = None
        /\ \A r \in Runs : run[r].pc = "start"
        /\ applied = {}
        /\ old = Obsolete

WholeIsClean == \A t \in Targets : catalog[t] = Whole => t \notin duplicates

\* Where the holder of the lock is, and what it knows there.
Progress(r) ==
    /\ run[r].pc = "start" => run[r].at = 1
    /\ run[r].pc \in Holding \ {"final", "release"} => run[r].at \in 1..Len(INDEX_TARGETS)
    /\ run[r].pc \in {"final", "release"} => run[r].at = Len(INDEX_TARGETS) + 1
    /\ run[r].pc \in Holding =>
          \A j \in 1..(run[r].at - 1) : status[INDEX_TARGETS[j]] # "RUNNING"
    /\ run[r].pc = "inspect" => run[r].prior = status[Target(r)]
    /\ run[r].pc = "preflight" => status[Target(r)] # "RUNNING"
    /\ run[r].pc \in {"scan", "ready"} => catalog[Target(r)] = Built
    /\ run[r].pc = "validate" => catalog[Target(r)] = Maintained
    /\ run[r].pc = "complete" => Usable(Target(r))

DeployIInv ==
    /\ DeployTypeOK
    /\ Fresh
    /\ WholeIsClean
    /\ RunsDoNotOverlap
    /\ \A r \in Runs : Progress(r)
    /\ DoneIsEnforced
    /\ RunningIsExplained
    /\ ForeignIsUntouched
    /\ LookupsAreServed

--------------------------------------------------------------------------
(* The catalog and the list of targets.                                    *)

LEMMA TargetInList ==
    ASSUME DeployAssumptions
    PROVE  /\ Len(INDEX_TARGETS) \in Nat \ {0}
           /\ \A i \in 1..Len(INDEX_TARGETS) : INDEX_TARGETS[i] \in Targets
           /\ \A t \in Targets : \E i \in 1..Len(INDEX_TARGETS) : INDEX_TARGETS[i] = t
<1>1. INDEX_TARGETS \in Seq(Targets) /\ INDEX_TARGETS # << >>
  BY DEF DeployAssumptions
<1>2. DOMAIN INDEX_TARGETS = 1..Len(INDEX_TARGETS) /\ Len(INDEX_TARGETS) \in Nat \ {0}
  BY <1>1
<1> QED
  BY <1>2 DEF Targets

LEMMA Verdicts ==
    ASSUME DeployTypeOK, DeployAssumptions, NEW t \in Targets
    PROVE  /\ VerifyIndex(t) = "valid" <=> catalog[t] = Whole
           /\ VerifyIndex(t) = "invalid" =>
                 catalog[t] # None /\ catalog[t] # Whole /\ catalog[t].shape = "right"
           /\ VerifyIndex(t) \in {"missing", "mismatched", "valid", "invalid"}
<1>1. catalog[t] \in Entries \cup {None} /\ None \notin Entries
  BY DEF DeployTypeOK, DeployAssumptions
<1>2. ASSUME catalog[t] \in Entries, catalog[t].shape = "right",
             catalog[t].valid, catalog[t].ready, catalog[t].live
      PROVE  catalog[t] = Whole
  <2>1. catalog[t] = [shape |-> catalog[t].shape, valid |-> catalog[t].valid,
                      ready |-> catalog[t].ready, live |-> catalog[t].live]
    BY <1>2 DEF Entries
  <2> QED
    BY <1>2, <2>1 DEF Whole, Entry, Entries
<1>3. Whole \in Entries /\ Whole.shape = "right" /\ Whole.valid /\ Whole.ready /\ Whole.live
  BY DEF Whole, Entry, Entries, Shapes
<1> QED
  BY <1>1, <1>2, <1>3 DEF VerifyIndex

\* What the catalog calls valid is a constraint that holds.
LEMMA ValidIsUsable ==
    ASSUME DeployIInv, DeployAssumptions, NEW t \in Targets
    PROVE  VerifyIndex(t) = "valid" <=> Usable(t)
BY Verdicts DEF DeployIInv, WholeIsClean, Usable, Whole

LEMMA EntriesDiffer ==
    ASSUME DeployAssumptions
    PROVE  /\ Whole \in Entries /\ Built \in Entries /\ Maintained \in Entries
           /\ Whole # Built /\ Whole # Maintained /\ None \notin {Whole, Built, Maintained}
           /\ Entry(Built.shape, Built.valid, TRUE, Built.live) = Maintained
           /\ Entry(Maintained.shape, TRUE, Maintained.ready, Maintained.live) = Whole
           /\ Built.shape = "right" /\ Maintained.shape = "right"
           /\ ~Built.ready /\ Maintained.ready
<1>1. Whole \in Entries /\ Built \in Entries /\ Maintained \in Entries
  BY DEF Whole, Built, Maintained, Entry, Entries, Shapes
<1>2. Whole.ready /\ ~Built.ready /\ Whole.valid /\ ~Maintained.valid
  BY DEF Whole, Built, Maintained, Entry
<1>3. Whole # Built /\ Whole # Maintained
  BY <1>2
<1>4. /\ Entry(Built.shape, Built.valid, TRUE, Built.live) = Maintained
      /\ Entry(Maintained.shape, TRUE, Maintained.ready, Maintained.live) = Whole
  BY DEF Whole, Built, Maintained, Entry
<1>5. Built.shape = "right" /\ Maintained.shape = "right" /\ Maintained.ready
  BY DEF Built, Maintained, Entry
<1> QED
  BY <1>1, <1>2, <1>3, <1>4, <1>5 DEF DeployAssumptions

LEMMA DeployInitHolds == ASSUME DeployAssumptions, DeployInit PROVE DeployIInv
<1>1. Len(INDEX_TARGETS) \in Nat \ {0}
  BY TargetInList
<1>2. DeployTypeOK
  BY <1>1 DEF DeployInit, DeployTypeOK, DeployStatuses
<1>3. Fresh /\ WholeIsClean /\ ForeignIsUntouched /\ LookupsAreServed
  BY DEF DeployInit, Fresh, WholeIsClean, ForeignIsUntouched, LookupsAreServed, Obsolete
<1>4. RunsDoNotOverlap /\ \A r \in Runs : Progress(r)
  BY DEF DeployInit, RunsDoNotOverlap, Progress, Holding, Building, DeployAssumptions
<1>5. DoneIsEnforced
  BY DEF DeployInit, DoneIsEnforced, DeployAssumptions
<1>6. RunningIsExplained
  BY DEF DeployInit, RunningIsExplained, DeployAssumptions
<1> QED
  BY <1>2, <1>3, <1>4, <1>5, <1>6 DEF DeployIInv

--------------------------------------------------------------------------
(* What steps leave alone.                                                 *)

\* The rest of the invariant follows when constraints that hold go on holding.
LEMMA UsableStays ==
    ASSUME DeployIInv, DeployAssumptions, \A t \in Targets : Usable(t) => Usable(t)',
           \A t \in Targets : status'[t] = "COMPLETED" => status[t] = "COMPLETED" \/ Usable(t)',
           \A r \in Runs : run'[r].exit = 0 => run[r].exit = 0 \/ \A t \in Targets : Usable(t)',
           "0002" \in applied' => "0002" \in applied \/ \A t \in Targets : Usable(t)'
    PROVE  DoneIsEnforced'
BY DEF DeployIInv, DoneIsEnforced

\* A step of the holder that leaves catalog, rows and migrations alone.
LEMMA RunStep ==
    ASSUME DeployIInv, DeployAssumptions, DeployTypeOK', NEW r \in Runs, found # None,
           UNCHANGED <<catalog, found, duplicates, applied, old, due>>,
           holder \in {r, None}, holder' \in {r, None},
           \A q \in Runs \ {r} : run'[q] = run[q],
           run'[r].pc \in Holding <=> holder' = r,
           Progress(r)',
           run'[r].exit = 0 => run[r].exit = 0 \/ \A t \in Targets : Usable(t),
           \A t \in Targets : status'[t] = "COMPLETED" => status[t] = "COMPLETED" \/ Usable(t),
           \A t \in Targets : status'[t] = "RUNNING" =>
               /\ run'[r].pc # "release"
               /\ run'[r].pc = "dead" \/ holder' = r \/ (holder = None /\ status[t] = "RUNNING"
                                                          /\ run[r].pc # "dead")
    PROVE  DeployIInv'
<1>1. \A q \in Runs \ {r} : run[q].pc \notin Holding /\ run'[q].pc \notin Holding
  BY DEF DeployIInv, RunsDoNotOverlap, DeployAssumptions
<1>2. RunsDoNotOverlap'
  BY <1>1 DEF RunsDoNotOverlap, DeployAssumptions
<1>3. ASSUME NEW q \in Runs PROVE Progress(q)'
  <2>1. CASE q = r
    BY <2>1
  <2>2. CASE q # r
    <3>1. run'[q] = run[q] /\ (run[q].pc = "start" => run[q].at = 1)
      BY <2>2 DEF DeployIInv, Progress
    <3> QED
      BY <1>1, <3>1 DEF Progress, Holding, Building
  <2> QED
    BY <2>1, <2>2
<1>4. \A t \in Targets : Usable(t)' = Usable(t)
  BY DEF Usable
<1>5. DoneIsEnforced'
  BY <1>4, UsableStays
<1>6. RunningIsExplained'
  <2> SUFFICES ASSUME NEW t \in Targets, status'[t] = "RUNNING"
               PROVE  /\ \A q \in Runs : run'[q].pc # "release"
                      /\ \E q \in Runs : run'[q].pc = "dead" \/ holder' = q
    BY DEF RunningIsExplained
  <2>1. \A q \in Runs : run'[q].pc # "release"
    BY <1>1 DEF Holding
  <2>2. CASE run'[r].pc = "dead" \/ holder' = r
    BY <2>1, <2>2
  <2>3. CASE holder = None /\ status[t] = "RUNNING" /\ run[r].pc # "dead"
    <3>1. \E q \in Runs : run[q].pc = "dead"
      BY <2>3 DEF DeployIInv, RunningIsExplained, DeployAssumptions
    <3> QED
      BY <2>1, <2>3, <3>1
  <2> QED
    BY <2>1, <2>2, <2>3
<1>7. Fresh' /\ WholeIsClean' /\ ForeignIsUntouched' /\ LookupsAreServed'
  BY DEF DeployIInv, Fresh, WholeIsClean, ForeignIsUntouched, LookupsAreServed, Usable
<1> QED
  BY <1>2, <1>3, <1>5, <1>6, <1>7 DEF DeployIInv

--------------------------------------------------------------------------
(* The holder of the lock.                                                 *)

Pcs == Holding \cup {"start", "done", "refused", "dead"}
Records == [pc : Pcs, at : 1..(Len(INDEX_TARGETS) + 1), prior : DeployStatuses \cup {None},
            client : {"alive", "gone"}, dry : BOOLEAN, exit : {0, 1, 3, 9, None}]

LEMMA HolderFacts ==
    ASSUME DeployIInv, DeployAssumptions, NEW r \in Runs, run[r].pc \in Holding
    PROVE  /\ found # None
           /\ holder = r
           /\ run[r] \in Records
           /\ run[r].pc \in Holding \ {"final", "release"} => Target(r) \in Targets
           /\ Progress(r)
<1>1. found # None
  BY DEF DeployIInv, Fresh, Holding, Building
<1>2. holder = r
  BY DEF DeployIInv, RunsDoNotOverlap
<1>3. run[r] \in Records
  BY DEF DeployIInv, DeployTypeOK, Records, Pcs
<1>4. Progress(r)
  BY DEF DeployIInv
<1>5. ASSUME run[r].pc \in Holding \ {"final", "release"} PROVE Target(r) \in Targets
  BY <1>4, <1>5, TargetInList DEF Progress, Target
<1> QED
  BY <1>1, <1>2, <1>3, <1>4, <1>5

LEMMA DeployGotoKeeps ==
    ASSUME DeployTypeOK, NEW r \in Runs, NEW pc \in Pcs, GoOn(r, pc)
    PROVE  /\ run' \in [Runs -> Records]
           /\ run'[r].pc = pc
           /\ run'[r].at = run[r].at /\ run'[r].prior = run[r].prior
           /\ run'[r].exit = run[r].exit
           /\ Target(r)' = Target(r)
           /\ \A q \in Runs \ {r} : run'[q] = run[q]
<1>1. run \in [Runs -> Records]
  BY DEF DeployTypeOK, Records, Pcs
<1>2. run' = [run EXCEPT ![r].pc = pc]
  BY DEF GoOn
<1>3. run' = [run EXCEPT ![r] = [run[r] EXCEPT !.pc = pc]]
  BY <1>2
<1>4. [run[r] EXCEPT !.pc = pc] \in Records
  BY <1>1 DEF Records
<1>5. run' \in [Runs -> Records]
  BY <1>1, <1>3, <1>4
<1>6. /\ run'[r].pc = pc
      /\ run'[r].at = run[r].at /\ run'[r].prior = run[r].prior /\ run'[r].exit = run[r].exit
      /\ \A q \in Runs \ {r} : run'[q] = run[q]
  BY <1>1, <1>2 DEF Records
<1>7. Target(r)' = Target(r)
  BY <1>6 DEF Target
<1> QED
  BY <1>5, <1>6, <1>7

LEMMA DeploySettleKeeps ==
    ASSUME DeployIInv, DeployAssumptions, NEW r \in Runs,
           run[r].pc \in Holding \ {"final", "release"}, NextTarget(r)
    PROVE  /\ run' \in [Runs -> Records]
           /\ run'[r].pc \in {"ensure", "final"}
           /\ run'[r].pc = "ensure" => run'[r].at \in 1..Len(INDEX_TARGETS)
           /\ run'[r].pc = "final" => run'[r].at = Len(INDEX_TARGETS) + 1
           /\ run[r].at \in 1..Len(INDEX_TARGETS)
           /\ run'[r].at = run[r].at + 1
           /\ run'[r].exit = run[r].exit
           /\ \A q \in Runs \ {r} : run'[q] = run[q]
<1> DEFINE pc == IF run[r].at < Len(INDEX_TARGETS) THEN "ensure" ELSE "final"
<1>1. run \in [Runs -> Records]
  BY DEF DeployIInv, DeployTypeOK, Records, Pcs
<1>2. run[r].at \in 1..Len(INDEX_TARGETS) /\ Len(INDEX_TARGETS) \in Nat
  BY HolderFacts, TargetInList DEF Progress
<1>3. run' = [run EXCEPT ![r] = [run[r] EXCEPT !.at = run[r].at + 1, !.pc = pc]]
  BY <1>1 DEF NextTarget
<1>4. pc \in Pcs /\ run[r].at + 1 \in 1..(Len(INDEX_TARGETS) + 1)
  BY <1>2 DEF Pcs, Holding
<1>5. [run[r] EXCEPT !.at = run[r].at + 1, !.pc = pc] \in Records
  BY <1>1, <1>4 DEF Records
<1>6. run' \in [Runs -> Records]
  BY <1>1, <1>3, <1>5
<1>7. /\ run'[r].pc = pc /\ run'[r].at = run[r].at + 1 /\ run'[r].exit = run[r].exit
      /\ \A q \in Runs \ {r} : run'[q] = run[q]
  BY <1>1, <1>3 DEF Records
<1> QED
  BY <1>2, <1>6, <1>7

\* After the loop has settled a target, every target behind it is not RUNNING.
LEMMA SettledProgress ==
    ASSUME DeployIInv, DeployAssumptions, NEW r \in Runs,
           run[r].pc \in Holding \ {"final", "release"}, NextTarget(r),
           status'[Target(r)] # "RUNNING",
           \A t \in Targets \ {Target(r)} : status'[t] = status[t]
    PROVE  Progress(r)'
<1>1. Progress(r)
  BY HolderFacts
<1>2. \A j \in 1..(run[r].at - 1) : status[INDEX_TARGETS[j]] # "RUNNING"
  BY <1>1 DEF Progress
<1>3. Len(INDEX_TARGETS) \in Nat \ {0} /\ run[r].at \in 1..Len(INDEX_TARGETS)
  BY DeploySettleKeeps, TargetInList
<1>4. ASSUME NEW j \in 1..run[r].at PROVE status'[INDEX_TARGETS[j]] # "RUNNING"
  <2>1. INDEX_TARGETS[j] \in Targets
    BY <1>3, TargetInList
  <2>2. CASE INDEX_TARGETS[j] = Target(r)
    BY <2>2
  <2>3. CASE INDEX_TARGETS[j] # Target(r)
    <3>1. j \in 1..(run[r].at - 1)
      BY <1>3, <2>3 DEF Target
    <3> QED
      BY <1>2, <2>1, <2>3, <3>1
  <2> QED
    BY <2>2, <2>3
<1>5. (run'[r].at) - 1 = run[r].at
  BY <1>3, DeploySettleKeeps
<1>6. \A j \in 1..(run'[r].at - 1) : status'[INDEX_TARGETS[j]] # "RUNNING"
  BY <1>4, <1>5
<1>7. /\ run'[r].pc \in {"ensure", "final"}
      /\ run'[r].pc = "ensure" => run'[r].at \in 1..Len(INDEX_TARGETS)
      /\ run'[r].pc = "final" => run'[r].at = Len(INDEX_TARGETS) + 1
  BY DeploySettleKeeps
<1> QED
  BY <1>6, <1>7 DEF Progress

--------------------------------------------------------------------------
(* The steps of a run that write no catalog.                               *)

LEMMA TypeAfterStep ==
    ASSUME DeployIInv, DeployAssumptions, UNCHANGED <<catalog, found, duplicates, applied, old, due>>,
           run' \in [Runs -> Records], holder' \in Runs \cup {None},
           status' \in [Targets -> DeployStatuses \cup {None}]
    PROVE  DeployTypeOK'
BY DEF DeployIInv, DeployTypeOK, Records, Pcs

LEMMA AcquireLockKeeps ==
    ASSUME DeployIInv, DeployAssumptions, NEW r \in Runs, AcquireLock(r) PROVE DeployIInv'
<1>1. run \in [Runs -> Records] /\ Len(INDEX_TARGETS) \in Nat \ {0}
  BY TargetInList DEF DeployIInv, DeployTypeOK, Records, Pcs
<1>2. run[r].pc = "start" /\ found # None
  BY DEF AcquireLock
<1>3. CASE holder = None
  <2>1. PICK dry \in BOOLEAN : run' = [run EXCEPT ![r].pc = "ensure", ![r].dry = dry]
    BY <1>3 DEF AcquireLock
  <2>2. holder' = r
    BY <1>3 DEF AcquireLock
  <2>3. /\ run'[r].pc = "ensure" /\ run'[r].exit = run[r].exit /\ run'[r].at = run[r].at
        /\ \A q \in Runs \ {r} : run'[q] = run[q]
    BY <1>1, <2>1 DEF Records
  <2>4. run' \in [Runs -> Records]
    <3> DEFINE rec == [run[r] EXCEPT !.pc = "ensure", !.dry = dry]
    <3>1. rec \in Records
      BY <1>1 DEF Records, Pcs, Holding
    <3>2. run' = [run EXCEPT ![r] = rec]
      BY <2>1
    <3> QED
      BY <1>1, <3>1, <3>2
  <2>5. UNCHANGED <<catalog, found, duplicates, status, applied, old, due>>
    BY DEF AcquireLock
  <2>6. DeployTypeOK'
    BY <2>2, <2>4, <2>5, TypeAfterStep DEF DeployIInv, DeployTypeOK
  <2>7. Progress(r)'
    BY <1>1, <1>2, <2>3 DEF DeployIInv, Progress, Holding, Building
  <2>8. run'[r].pc \in Holding /\ run'[r].pc # "release"
    BY <2>3 DEF Holding
  <2> QED
    BY <1>2, <1>3, <2>2, <2>3, <2>5, <2>6, <2>7, <2>8, RunStep
<1>4. CASE holder # None
  <2> DEFINE rec == [run[r] EXCEPT !.pc = "refused", !.exit = 3]
  <2>1. run' = [run EXCEPT ![r] = rec]
    BY <1>4 DEF AcquireLock
  <2>2. rec \in Records /\ rec.pc = "refused" /\ rec.exit = 3
    BY <1>1 DEF Records, Pcs
  <2> HIDE DEF rec
  <2>3. run' \in [Runs -> Records]
    BY <1>1, <2>1, <2>2
  <2>4. /\ run'[r].pc = "refused" /\ run'[r].exit = 3
        /\ \A q \in Runs \ {r} : run'[q] = run[q]
    BY <1>1, <2>1, <2>2
  <2>5. UNCHANGED <<catalog, found, duplicates, status, holder, applied, old, due>>
    BY <1>4 DEF AcquireLock
  <2>6. DeployTypeOK'
    BY <2>3, <2>5, TypeAfterStep DEF DeployIInv, DeployTypeOK
  <2>7. Fresh' /\ WholeIsClean' /\ ForeignIsUntouched' /\ LookupsAreServed'
    BY <1>2, <2>5 DEF DeployIInv, Fresh, WholeIsClean, ForeignIsUntouched, LookupsAreServed, Usable
  <2>8. RunsDoNotOverlap'
    BY <1>2, <2>4, <2>5 DEF DeployIInv, RunsDoNotOverlap, Holding, Building
  <2>9. ASSUME NEW q \in Runs PROVE Progress(q)'
    <3>1. CASE q = r
      BY <2>4, <3>1 DEF Progress, Holding, Building
    <3>2. CASE q # r
      BY <2>4, <2>5, <3>2 DEF DeployIInv, Progress, Target, Usable
    <3> QED
      BY <3>1, <3>2
  <2>10. DoneIsEnforced'
    <3>1. \A t \in Targets : Usable(t)' = Usable(t)
      BY <2>5 DEF Usable
    <3>2. \A q \in Runs : run'[q].exit = 0 => run[q].exit = 0
      BY <2>4
    <3> QED
      BY <2>5, <3>1, <3>2, UsableStays
  <2>11. RunningIsExplained'
    BY <1>2, <2>4, <2>5 DEF DeployIInv, RunningIsExplained
  <2> QED
    BY <2>6, <2>7, <2>8, <2>9, <2>10, <2>11 DEF DeployIInv
<1> QED
  BY <1>3, <1>4

LEMMA EnsureStateRowKeeps ==
    ASSUME DeployIInv, DeployAssumptions, NEW r \in Runs, EnsureStateRow(r) PROVE DeployIInv'
<1> DEFINE t == Target(r)
<1>1. /\ run[r].pc = "ensure" /\ found # None /\ holder = r /\ t \in Targets /\ Progress(r)
      /\ run[r] \in Records
  BY HolderFacts DEF EnsureStateRow, Holding
<1>2. run \in [Runs -> Records] /\ status \in [Targets -> DeployStatuses \cup {None}]
  BY DEF DeployIInv, DeployTypeOK, Records, Pcs
<1>3. /\ status'[t] = IF status[t] = None THEN "PENDING" ELSE status[t]
      /\ \A u \in Targets \ {t} : status'[u] = status[u]
      /\ status' \in [Targets -> DeployStatuses \cup {None}]
      /\ status'[t] \in DeployStatuses
  BY <1>1, <1>2 DEF EnsureStateRow, DeployStatuses
<1> HIDE DEF t
<1>4. run' = [run EXCEPT ![r].pc = "inspect", ![r].prior = status'[t]]
  BY DEF EnsureStateRow, t
<1>5. /\ run'[r].pc = "inspect" /\ run'[r].prior = status'[t] /\ run'[r].at = run[r].at
      /\ run'[r].exit = run[r].exit /\ \A q \in Runs \ {r} : run'[q] = run[q]
  BY <1>2, <1>4 DEF Records
<1>6. run' \in [Runs -> Records]
  <2> DEFINE rec == [run[r] EXCEPT !.pc = "inspect", !.prior = status'[t]]
  <2>1. rec \in Records
    BY <1>1, <1>3 DEF Records, Pcs, Holding
  <2>2. run' = [run EXCEPT ![r] = rec]
    BY <1>4
  <2> QED
    BY <1>2, <2>1, <2>2
<1>7. UNCHANGED <<catalog, found, duplicates, holder, applied, old, due>>
  BY DEF EnsureStateRow
<1>8. DeployTypeOK'
  BY <1>1, <1>3, <1>6, <1>7, TypeAfterStep
<1>9. Target(r)' = t
  BY <1>5 DEF Target, t
<1>10. \A u \in Targets : status'[u] = "RUNNING" => status[u] = "RUNNING"
  BY <1>3
<1>11. Progress(r)'
  <2>1. run[r].at \in 1..Len(INDEX_TARGETS) /\ Len(INDEX_TARGETS) \in Nat
    BY <1>1, TargetInList DEF Progress, Holding
  <2>2. \A j \in 1..(run[r].at - 1) : INDEX_TARGETS[j] \in Targets
                                       /\ status[INDEX_TARGETS[j]] # "RUNNING"
    BY <1>1, <2>1, TargetInList DEF Progress, Holding
  <2>3. \A j \in 1..(run'[r].at - 1) : status'[INDEX_TARGETS[j]] # "RUNNING"
    BY <1>5, <1>10, <2>2
  <2> QED
    BY <1>5, <1>9, <2>1, <2>3 DEF Progress, Holding, Building
<1>12. run'[r].pc \in Holding
  BY <1>5 DEF Holding
<1>13. \A u \in Targets : status'[u] = "COMPLETED" => status[u] = "COMPLETED"
  BY <1>3
<1>14. run'[r].pc # "release"
  BY <1>5
<1> QED
  BY <1>1, <1>5, <1>7, <1>8, <1>11, <1>12, <1>13, <1>14, RunStep

\* A step that only moves the holder on.
LEMMA DeployMoveKeeps ==
    ASSUME DeployIInv, DeployAssumptions, NEW r \in Runs, NEW pc \in Holding \ {"release"},
           run[r].pc \in Holding, GoOn(r, pc),
           UNCHANGED <<catalog, found, duplicates, status, holder, applied, old, due>>,
           Progress(r)'
    PROVE  DeployIInv'
<1>1. found # None /\ holder = r
  BY HolderFacts
<1>2. pc \in Pcs /\ DeployTypeOK
  BY DEF Pcs, DeployIInv
<1>3. /\ run' \in [Runs -> Records] /\ run'[r].pc = pc /\ run'[r].exit = run[r].exit
      /\ \A q \in Runs \ {r} : run'[q] = run[q]
  BY <1>2, DeployGotoKeeps
<1>4. DeployTypeOK'
  BY <1>1, <1>3, TypeAfterStep DEF DeployIInv, DeployTypeOK
<1> QED
  BY <1>1, <1>3, <1>4, RunStep

LEMMA InspectKeeps ==
    ASSUME DeployIInv, DeployAssumptions, NEW r \in Runs, Inspect(r) PROVE DeployIInv'
<1> DEFINE t == Target(r)
           pc == CASE VerifyIndex(t) = "valid" -> "complete"
                   [] VerifyIndex(t) \in {"invalid", "mismatched"} -> "fail"
                   [] VerifyIndex(t) = "missing" ->
                         IF run[r].prior = "RUNNING" THEN "reset" ELSE "preflight"
<1>1. run[r].pc = "inspect" /\ GoOn(r, pc)
      /\ UNCHANGED <<catalog, found, duplicates, status, holder, applied, old, due>>
  BY DEF Inspect
<1>2. t \in Targets /\ Progress(r) /\ run[r].pc \in Holding /\ DeployTypeOK
  BY <1>1, HolderFacts DEF Holding, DeployIInv
<1>3. VerifyIndex(t) \in {"missing", "mismatched", "valid", "invalid"}
  BY <1>2, Verdicts
<1>4. pc \in {"complete", "fail", "reset", "preflight"}
  BY <1>3
<1>5. pc = "complete" => Usable(t)
  BY <1>2, <1>3, ValidIsUsable
<1>6. pc = "preflight" => status[t] # "RUNNING"
  BY <1>1, <1>2, <1>3 DEF Progress
<1> HIDE DEF pc
<1>7. pc \in Pcs /\ pc \in Holding \ {"release"}
  BY <1>4 DEF Pcs, Holding
<1>8. run'[r].pc = pc /\ run'[r].at = run[r].at /\ Target(r)' = t
  BY <1>1, <1>2, <1>7, DeployGotoKeeps
<1> HIDE DEF t
<1>9. Progress(r)'
  BY <1>1, <1>2, <1>4, <1>5, <1>6, <1>8 DEF Progress, Holding, Building, Usable
<1> QED
  BY <1>1, <1>2, <1>7, <1>9, DeployMoveKeeps

LEMMA VerifyBuiltKeeps ==
    ASSUME DeployIInv, DeployAssumptions, NEW r \in Runs, VerifyBuilt(r) PROVE DeployIInv'
<1> DEFINE t == Target(r)
           pc == IF VerifyIndex(t) = "valid" THEN "complete" ELSE "fail"
<1>1. run[r].pc = "built" /\ GoOn(r, pc)
      /\ UNCHANGED <<catalog, found, duplicates, status, holder, applied, old, due>>
  BY DEF VerifyBuilt
<1>2. t \in Targets /\ Progress(r) /\ run[r].pc \in Holding /\ DeployTypeOK
  BY <1>1, HolderFacts DEF Holding, DeployIInv
<1>3. pc \in {"complete", "fail"}
  OBVIOUS
<1>4. pc = "complete" => Usable(t)
  BY <1>2, ValidIsUsable
<1> HIDE DEF pc
<1>5. pc \in Pcs /\ pc \in Holding \ {"release"}
  BY <1>3 DEF Pcs, Holding
<1>6. run'[r].pc = pc /\ run'[r].at = run[r].at /\ Target(r)' = t
  BY <1>1, <1>2, <1>5, DeployGotoKeeps
<1> HIDE DEF t
<1>7. Progress(r)'
  BY <1>1, <1>2, <1>3, <1>4, <1>6 DEF Progress, Holding, Building, Usable
<1> QED
  BY <1>1, <1>2, <1>5, <1>7, DeployMoveKeeps

\* A step of the holder that writes its target's row.
LEMMA RowKeeps ==
    ASSUME DeployIInv, DeployAssumptions, NEW r \in Runs, NEW s \in DeployStatuses,
           run[r].pc \in Holding \ {"final", "release"},
           status' = [status EXCEPT ![Target(r)] = s],
           run' \in [Runs -> Records], run'[r].pc \in Holding \ {"release"},
           run'[r].exit = run[r].exit, \A q \in Runs \ {r} : run'[q] = run[q],
           UNCHANGED <<catalog, found, duplicates, holder, applied, old, due>>,
           s = "COMPLETED" => Usable(Target(r)), Progress(r)'
    PROVE  DeployIInv'
<1>1. found # None /\ holder = r /\ Target(r) \in Targets
  BY HolderFacts
<1>2. status \in [Targets -> DeployStatuses \cup {None}]
  BY DEF DeployIInv, DeployTypeOK
<1>3. status' \in [Targets -> DeployStatuses \cup {None}] /\ status'[Target(r)] = s
      /\ \A t \in Targets \ {Target(r)} : status'[t] = status[t]
  BY <1>1, <1>2
<1>4. DeployTypeOK'
  BY <1>1, <1>3, TypeAfterStep
<1>5. \A t \in Targets : status'[t] = "COMPLETED" => status[t] = "COMPLETED" \/ Usable(t)
  BY <1>3
<1> QED
  BY <1>1, <1>4, <1>5, RunStep

LEMMA ResetKeeps ==
    ASSUME DeployIInv, DeployAssumptions, NEW r \in Runs, ResetToPending(r) PROVE DeployIInv'
<1>1. /\ run[r].pc = "reset" /\ GoOn(r, "preflight")
      /\ status' = [status EXCEPT ![Target(r)] = "PENDING"]
      /\ UNCHANGED <<catalog, found, duplicates, holder, applied, old, due>>
  BY DEF ResetToPending
<1>2. /\ Target(r) \in Targets /\ Progress(r) /\ DeployTypeOK /\ "preflight" \in Pcs
      /\ run[r].pc \in Holding \ {"final", "release"}
  BY <1>1, HolderFacts DEF Holding, Pcs, DeployIInv
<1>3. /\ run' \in [Runs -> Records] /\ run'[r].pc = "preflight" /\ run'[r].at = run[r].at
      /\ run'[r].exit = run[r].exit /\ Target(r)' = Target(r)
      /\ \A q \in Runs \ {r} : run'[q] = run[q]
  BY <1>1, <1>2, DeployGotoKeeps
<1>4. \A t \in Targets : status'[t] = "RUNNING" => status[t] = "RUNNING"
  BY <1>1, <1>2 DEF DeployTypeOK
<1>5. status'[Target(r)] = "PENDING"
  BY <1>1, <1>2 DEF DeployTypeOK
<1>6. Progress(r)'
  <2>1. run[r].at \in 1..Len(INDEX_TARGETS) /\ Len(INDEX_TARGETS) \in Nat
    BY <1>1, <1>2, TargetInList DEF Progress, Holding
  <2>2. \A j \in 1..(run[r].at - 1) : INDEX_TARGETS[j] \in Targets
                                       /\ status[INDEX_TARGETS[j]] # "RUNNING"
    BY <1>1, <1>2, <2>1, TargetInList DEF Progress, Holding
  <2>3. \A j \in 1..(run'[r].at - 1) : status'[INDEX_TARGETS[j]] # "RUNNING"
    BY <1>3, <1>4, <2>2
  <2> QED
    BY <1>3, <1>5, <2>1, <2>3 DEF Progress, Holding, Building
<1>7. run'[r].pc \in Holding \ {"release"} /\ "PENDING" \in DeployStatuses
  BY <1>3 DEF Holding, DeployStatuses
<1> QED
  BY <1>1, <1>2, <1>3, <1>6, <1>7, RowKeeps

LEMMA MarkRunningKeeps ==
    ASSUME DeployIInv, DeployAssumptions, NEW r \in Runs, MarkRunning(r) PROVE DeployIInv'
<1>1. /\ run[r].pc = "mark" /\ GoOn(r, "create")
      /\ status' = [status EXCEPT ![Target(r)] = "RUNNING"]
      /\ UNCHANGED <<catalog, found, duplicates, holder, applied, old, due>>
  BY DEF MarkRunning
<1>2. /\ Target(r) \in Targets /\ Progress(r) /\ DeployTypeOK /\ "create" \in Pcs
      /\ run[r].pc \in Holding \ {"final", "release"}
  BY <1>1, HolderFacts DEF Holding, Building, Pcs, DeployIInv
<1>3. /\ run' \in [Runs -> Records] /\ run'[r].pc = "create" /\ run'[r].at = run[r].at
      /\ run'[r].exit = run[r].exit /\ Target(r)' = Target(r)
      /\ \A q \in Runs \ {r} : run'[q] = run[q]
  BY <1>1, <1>2, DeployGotoKeeps
<1>4. Progress(r)'
  <2>1. run[r].at \in 1..Len(INDEX_TARGETS) /\ Len(INDEX_TARGETS) \in Nat
    BY <1>1, <1>2, TargetInList DEF Progress, Holding
  <2>2. ASSUME NEW j \in 1..(run[r].at - 1)
        PROVE  status'[INDEX_TARGETS[j]] # "RUNNING"
    <3>1. j \in 1..Len(INDEX_TARGETS) /\ j # run[r].at
      BY <2>1
    <3>2. INDEX_TARGETS[j] \in Targets
      BY <3>1, TargetInList
    <3>3. INDEX_TARGETS[j] # Target(r)
      BY <2>1, <3>1 DEF DeployAssumptions, Target
    <3>4. status[INDEX_TARGETS[j]] # "RUNNING"
      BY <1>2 DEF Progress
    <3> QED
      BY <1>1, <1>2, <3>2, <3>3, <3>4 DEF DeployTypeOK
  <2> QED
    BY <1>3, <2>1, <2>2 DEF Progress, Holding, Building
<1>5. run'[r].pc \in Holding \ {"release"} /\ "RUNNING" \in DeployStatuses
  BY <1>3 DEF Holding, Building, DeployStatuses
<1> QED
  BY <1>1, <1>2, <1>3, <1>4, <1>5, RowKeeps

LEMMA MarkCompletedKeeps ==
    ASSUME DeployIInv, DeployAssumptions, NEW r \in Runs, MarkCompleted(r) PROVE DeployIInv'
<1>1. /\ run[r].pc = "complete" /\ NextTarget(r)
      /\ status' = [status EXCEPT ![Target(r)] = "COMPLETED"]
      /\ UNCHANGED <<catalog, found, duplicates, holder, applied, old, due>>
  BY DEF MarkCompleted
<1>2. /\ Target(r) \in Targets /\ Progress(r) /\ DeployTypeOK
      /\ run[r].pc \in Holding \ {"final", "release"}
  BY <1>1, HolderFacts DEF Holding, DeployIInv
<1>3. /\ run' \in [Runs -> Records] /\ run'[r].pc \in {"ensure", "final"}
      /\ run'[r].exit = run[r].exit /\ \A q \in Runs \ {r} : run'[q] = run[q]
  BY <1>1, <1>2, DeploySettleKeeps
<1>4. /\ status'[Target(r)] # "RUNNING"
      /\ \A t \in Targets \ {Target(r)} : status'[t] = status[t]
  BY <1>1, <1>2 DEF DeployTypeOK
<1>5. Progress(r)'
  BY <1>1, <1>2, <1>4, SettledProgress
<1>6. Usable(Target(r)) /\ "COMPLETED" \in DeployStatuses /\ run'[r].pc \in Holding \ {"release"}
  BY <1>1, <1>2, <1>3 DEF Progress, DeployStatuses, Holding
<1> QED
  BY <1>1, <1>2, <1>3, <1>5, <1>6, RowKeeps

LEMMA MarkFailedKeeps ==
    ASSUME DeployIInv, DeployAssumptions, NEW r \in Runs, MarkFailed(r) PROVE DeployIInv'
<1>1. /\ run[r].pc = "fail" /\ NextTarget(r)
      /\ status' = [status EXCEPT ![Target(r)] = "FAILED"]
      /\ UNCHANGED <<catalog, found, duplicates, holder, applied, old, due>>
  BY DEF MarkFailed
<1>2. /\ Target(r) \in Targets /\ DeployTypeOK /\ run[r].pc \in Holding \ {"final", "release"}
  BY <1>1, HolderFacts DEF Holding, DeployIInv
<1>3. /\ run' \in [Runs -> Records] /\ run'[r].pc \in {"ensure", "final"}
      /\ run'[r].exit = run[r].exit /\ \A q \in Runs \ {r} : run'[q] = run[q]
  BY <1>1, <1>2, DeploySettleKeeps
<1>4. /\ status'[Target(r)] # "RUNNING"
      /\ \A t \in Targets \ {Target(r)} : status'[t] = status[t]
  BY <1>1, <1>2 DEF DeployTypeOK
<1>5. Progress(r)'
  BY <1>1, <1>2, <1>4, SettledProgress
<1>6. "FAILED" \in DeployStatuses /\ run'[r].pc \in Holding \ {"release"}
  BY <1>3 DEF DeployStatuses, Holding
<1> QED
  BY <1>1, <1>2, <1>3, <1>5, <1>6, RowKeeps

LEMMA PreflightKeeps ==
    ASSUME DeployIInv, DeployAssumptions, NEW r \in Runs, DuplicatePreflight(r) PROVE DeployIInv'
<1>1. run[r].pc = "preflight"
      /\ UNCHANGED <<catalog, found, duplicates, status, holder, applied, old, due>>
  BY DEF DuplicatePreflight
<1>2. /\ Target(r) \in Targets /\ Progress(r) /\ DeployTypeOK /\ found # None /\ holder = r
      /\ run[r].pc \in Holding \ {"final", "release"}
  BY <1>1, HolderFacts DEF Holding, DeployIInv
<1>3. ASSUME NEW pc \in {"fail", "mark"}, GoOn(r, pc) PROVE DeployIInv'
  <2>1. pc \in Pcs /\ pc \in Holding \ {"release"}
    BY DEF Pcs, Holding
  <2>2. run'[r].pc = pc /\ run'[r].at = run[r].at
    BY <1>2, <1>3, <2>1, DeployGotoKeeps
  <2>3. Progress(r)'
    BY <1>1, <1>2, <2>2 DEF Progress, Holding, Building
  <2> QED
    BY <1>1, <1>2, <1>3, <2>1, <2>3, DeployMoveKeeps
<1>4. CASE NextTarget(r)
  <2>1. /\ run' \in [Runs -> Records] /\ run'[r].pc \in {"ensure", "final"}
        /\ run'[r].exit = run[r].exit /\ \A q \in Runs \ {r} : run'[q] = run[q]
    BY <1>2, <1>4, DeploySettleKeeps
  <2>2. status'[Target(r)] # "RUNNING" /\ \A t \in Targets : status'[t] = status[t]
    BY <1>1, <1>2 DEF Progress
  <2>3. Progress(r)'
    BY <1>2, <1>4, <2>2, SettledProgress
  <2>4. run'[r].pc \in Holding /\ run'[r].pc # "release"
    BY <2>1 DEF Holding
  <2>5. DeployTypeOK'
    BY <1>1, <1>2, <2>1, TypeAfterStep DEF DeployIInv, DeployTypeOK
  <2> QED
    BY <1>1, <1>2, <2>1, <2>3, <2>4, <2>5, RunStep
<1> QED
  BY <1>3, <1>4 DEF DuplicatePreflight

LEMMA FinalVerificationKeeps ==
    ASSUME DeployIInv, DeployAssumptions, NEW r \in Runs, FinalVerification(r) PROVE DeployIInv'
<1> DEFINE e == IF \A t \in Targets : VerifyIndex(t) = "valid" THEN 0 ELSE 1
           rec == [run[r] EXCEPT !.pc = "release", !.exit = e]
<1>1. run[r].pc = "final"
      /\ UNCHANGED <<catalog, found, duplicates, status, holder, applied, old, due>>
  BY DEF FinalVerification
<1>2. /\ found # None /\ holder = r /\ run[r] \in Records /\ Progress(r)
      /\ run \in [Runs -> Records]
  BY <1>1, HolderFacts DEF Holding, DeployIInv, DeployTypeOK, Records, Pcs
<1>3. e \in {0, 1} /\ (e = 0 => \A t \in Targets : Usable(t))
  BY ValidIsUsable
<1>4. run' = [run EXCEPT ![r] = rec]
  BY DEF FinalVerification
<1> HIDE DEF e
<1>5. /\ rec \in Records /\ rec.pc = "release" /\ rec.exit = e /\ rec.at = run[r].at
  BY <1>2, <1>3 DEF Records, Pcs, Holding
<1> HIDE DEF rec
<1>6. /\ run' \in [Runs -> Records] /\ run'[r] = rec
      /\ \A q \in Runs \ {r} : run'[q] = run[q]
  BY <1>2, <1>4, <1>5
<1>7. DeployTypeOK'
  BY <1>1, <1>2, <1>6, TypeAfterStep DEF DeployIInv, DeployTypeOK
<1>8. Progress(r)'
  BY <1>1, <1>2, <1>5, <1>6 DEF Progress, Holding, Building
<1>9. run'[r].pc \in Holding
  BY <1>5, <1>6 DEF Holding
<1>10. \A t \in Targets : status[t] # "RUNNING"
  <2>1. run[r].at - 1 = Len(INDEX_TARGETS)
    BY <1>1, <1>2, TargetInList DEF Progress
  <2>2. \A j \in 1..Len(INDEX_TARGETS) : status[INDEX_TARGETS[j]] # "RUNNING"
    BY <1>1, <1>2, <2>1 DEF Progress, Holding
  <2> QED
    BY <2>2, TargetInList
<1>11. run'[r].exit = 0 => \A t \in Targets : Usable(t)
  BY <1>3, <1>5, <1>6
<1> QED
  BY <1>1, <1>2, <1>6, <1>7, <1>8, <1>9, <1>10, <1>11, RunStep

\* A step at which the holder stops: its session, and with it the lock, is gone.
LEMMA DeployStopKeeps ==
    ASSUME DeployIInv, DeployAssumptions, NEW r \in Runs, NEW pc \in {"done", "dead"},
           run[r].pc \in Holding, run' \in [Runs -> Records], run'[r].pc = pc,
           run'[r].exit \in {run[r].exit, 9},
           \A q \in Runs \ {r} : run'[q] = run[q], holder' = None,
           pc = "done" => \A t \in Targets : status[t] # "RUNNING",
           UNCHANGED <<catalog, found, duplicates, status, applied, old, due>>
    PROVE  DeployIInv'
<1>1. found # None /\ holder = r
  BY HolderFacts
<1>2. DeployTypeOK'
  BY <1>1, TypeAfterStep DEF DeployIInv, DeployTypeOK
<1>3. run'[r].pc \notin Holding /\ run'[r].pc # "release" /\ holder' # r
  BY DEF Holding, Building, DeployAssumptions
<1>4. Progress(r)'
  BY <1>3 DEF Progress, Holding, Building
<1>5. run'[r].exit = 0 => run[r].exit = 0
  OBVIOUS
<1>6. \A t \in Targets : status'[t] = "RUNNING" => run'[r].pc = "dead"
  OBVIOUS
<1> QED
  BY <1>1, <1>2, <1>3, <1>4, <1>5, <1>6, RunStep

LEMMA ReleaseLockKeeps ==
    ASSUME DeployIInv, DeployAssumptions, NEW r \in Runs, ReleaseLock(r) PROVE DeployIInv'
<1>1. run[r].pc = "release" /\ GoOn(r, "done") /\ holder' = None
      /\ UNCHANGED <<catalog, found, duplicates, status, applied, old, due>>
  BY DEF ReleaseLock
<1>2. run[r].pc \in Holding /\ "done" \in Pcs /\ DeployTypeOK
  BY <1>1 DEF Holding, Pcs, DeployIInv
<1>3. /\ run' \in [Runs -> Records] /\ run'[r].pc = "done" /\ run'[r].exit = run[r].exit
      /\ \A q \in Runs \ {r} : run'[q] = run[q]
  BY <1>1, <1>2, DeployGotoKeeps
<1>4. \A t \in Targets : status[t] # "RUNNING"
  BY <1>1 DEF DeployIInv, RunningIsExplained
<1> QED
  BY <1>1, <1>2, <1>3, <1>4, DeployStopKeeps

LEMMA CrashKeeps ==
    ASSUME DeployIInv, DeployAssumptions, NEW r \in Runs, Crash(r) PROVE DeployIInv'
<1> DEFINE rec == [run[r] EXCEPT !.pc = "dead", !.exit = 9]
<1>1. run[r].pc \in Holding /\ run' = [run EXCEPT ![r] = rec] /\ holder' = None
      /\ UNCHANGED <<catalog, found, duplicates, status, applied, old, due>>
  BY DEF Crash
<1>2. run \in [Runs -> Records]
  BY DEF DeployIInv, DeployTypeOK, Records, Pcs
<1>3. rec \in Records /\ rec.pc = "dead" /\ rec.exit = 9
  BY <1>2 DEF Records, Pcs
<1> HIDE DEF rec
<1>4. /\ run' \in [Runs -> Records] /\ run'[r].pc = "dead" /\ run'[r].exit = 9
      /\ \A q \in Runs \ {r} : run'[q] = run[q]
  BY <1>1, <1>2, <1>3
<1> QED
  BY <1>1, <1>4, DeployStopKeeps

LEMMA OrphanKeeps ==
    ASSUME DeployIInv, DeployAssumptions, NEW r \in Runs, Orphan(r) PROVE DeployIInv'
<1> DEFINE rec == [run[r] EXCEPT !.client = "gone", !.exit = 9]
<1>1. run[r].pc \in Building /\ run' = [run EXCEPT ![r] = rec]
      /\ UNCHANGED <<catalog, found, duplicates, status, holder, applied, old, due>>
  BY DEF Orphan
<1>2. run \in [Runs -> Records]
  BY DEF DeployIInv, DeployTypeOK, Records, Pcs
<1>3. /\ rec \in Records /\ rec.pc = run[r].pc /\ rec.exit = 9
      /\ rec.at = run[r].at /\ rec.prior = run[r].prior
  BY <1>2 DEF Records, Pcs
<1> HIDE DEF rec
<1>4. /\ run' \in [Runs -> Records] /\ run'[r] = rec
      /\ \A q \in Runs \ {r} : run'[q] = run[q]
  BY <1>1, <1>2, <1>3
<1>5. run[r].pc \in Holding
  BY <1>1 DEF Holding
<1>6. found # None /\ holder = r /\ Progress(r)
  BY <1>5, HolderFacts
<1>7. DeployTypeOK'
  BY <1>1, <1>4, TypeAfterStep DEF DeployIInv, DeployTypeOK
<1>8. Target(r)' = Target(r)
  BY <1>3, <1>4 DEF Target
<1>9. Progress(r)'
  BY <1>1, <1>3, <1>4, <1>6, <1>8 DEF Progress, Building, Usable
<1>10. run'[r].pc # "release" /\ run'[r].exit # 0 /\ run'[r].pc \in Holding
  BY <1>1, <1>3, <1>4, <1>5 DEF Building
<1> QED
  BY <1>1, <1>4, <1>6, <1>7, <1>9, <1>10, RunStep

\* The statement failed or the server was all that was left of it.
LEMMA AfterStatementKeeps ==
    ASSUME DeployIInv, DeployAssumptions, NEW r \in Runs, NEW pc \in {"fail", "built"},
           run[r].pc \in Building, AfterStatement(r, pc),
           UNCHANGED <<catalog, found, duplicates, status, applied, old, due>>
    PROVE  DeployIInv'
<1>1. run[r].pc \in Holding /\ DeployTypeOK
  BY DEF Holding, DeployIInv
<1>2. CASE GoOn(r, pc) /\ UNCHANGED holder
  <2>1. pc \in Pcs /\ pc \in Holding \ {"release"}
    BY DEF Pcs, Holding
  <2>2. run'[r].pc = pc /\ run'[r].at = run[r].at
    BY <1>1, <1>2, <2>1, DeployGotoKeeps
  <2>3. Progress(r)
    BY DEF DeployIInv
  <2>4. Progress(r)'
    BY <2>2, <2>3 DEF Progress, Holding, Building
  <2> QED
    BY <1>1, <1>2, <2>1, <2>4, DeployMoveKeeps
<1>3. CASE GoOn(r, "dead") /\ holder' = None
  <2>1. "dead" \in Pcs
    BY DEF Pcs
  <2>2. /\ run' \in [Runs -> Records] /\ run'[r].pc = "dead" /\ run'[r].exit = run[r].exit
        /\ \A q \in Runs \ {r} : run'[q] = run[q]
    BY <1>1, <1>3, <2>1, DeployGotoKeeps
  <2> QED
    BY <1>1, <1>3, <2>2, DeployStopKeeps
<1> QED
  BY <1>2, <1>3 DEF AfterStatement

LEMMA DeployScanKeeps ==
    ASSUME DeployIInv, DeployAssumptions, NEW r \in Runs, Scan(r) PROVE DeployIInv'
<1>1. run[r].pc = "scan" /\ UNCHANGED <<catalog, found, duplicates, status, applied, old, due>>
  BY DEF Scan
<1>2. run[r].pc \in Building /\ run[r].pc \in Holding /\ DeployTypeOK /\ Progress(r)
  BY <1>1 DEF Holding, Building, DeployIInv
<1>3. CASE AfterStatement(r, "fail")
  BY <1>1, <1>2, <1>3, AfterStatementKeeps
<1>4. CASE GoOn(r, "ready") /\ UNCHANGED holder
  <2>1. "ready" \in Pcs /\ "ready" \in Holding \ {"release"}
    BY DEF Pcs, Holding, Building
  <2>2. run'[r].pc = "ready" /\ run'[r].at = run[r].at /\ Target(r)' = Target(r)
    BY <1>2, <1>4, <2>1, DeployGotoKeeps
  <2>3. Progress(r)'
    BY <1>1, <1>2, <2>2 DEF Progress, Holding, Building
  <2> QED
    BY <1>1, <1>2, <1>4, <2>1, <2>3, DeployMoveKeeps
<1> QED
  BY <1>3, <1>4 DEF Scan

--------------------------------------------------------------------------
(* The statement itself.                                                   *)

\* A step of the statement on the entry it made: the constraint of no other target
\* changes, and nobody else's index is under the name.
LEMMA BuildStep ==
    ASSUME DeployIInv, DeployAssumptions, NEW r \in Runs, NEW e \in {Built, Maintained, Whole},
           run[r].pc \in Building, catalog[Target(r)] \in {None, Built, Maintained},
           catalog' = [catalog EXCEPT ![Target(r)] = e],
           e = Whole => Target(r) \notin duplicates,
           UNCHANGED <<found, duplicates, status, applied, old, due>>,
           run' \in [Runs -> Records], run'[r].exit = run[r].exit, run'[r].pc # "release",
           \A q \in Runs \ {r} : run'[q] = run[q],
           \/ run'[r].pc \in Holding /\ holder' = r
           \/ run'[r].pc = "dead" /\ holder' = None,
           Progress(r)'
    PROVE  DeployIInv'
<1> DEFINE t == Target(r)
<1>1. /\ found # None /\ holder = r /\ t \in Targets /\ run[r].pc \in Holding
  BY HolderFacts DEF Building, Holding
<1>2. /\ catalog \in [Targets -> Entries \cup {None}] /\ e \in Entries
      /\ catalog[t] # Whole /\ (catalog[t] = None \/ catalog[t].shape = "right")
  BY <1>1, EntriesDiffer DEF DeployIInv, DeployTypeOK
<1> HIDE DEF t
<1>3. /\ catalog' \in [Targets -> Entries \cup {None}] /\ catalog'[t] = e
      /\ \A u \in Targets \ {t} : catalog'[u] = catalog[u]
  BY <1>1, <1>2 DEF t
<1>4. DeployTypeOK'
  BY <1>1, <1>3 DEF DeployIInv, DeployTypeOK, Records, Pcs
<1>5. Fresh'
  BY <1>1 DEF Fresh
<1>6. WholeIsClean'
  BY <1>3 DEF DeployIInv, WholeIsClean, t
<1>7. \A u \in Targets : Usable(u) => Usable(u)'
  BY <1>2, <1>3 DEF Usable, Whole
<1>8. DoneIsEnforced'
  <2>1. \A q \in Runs : run'[q].exit = 0 => run[q].exit = 0
    OBVIOUS
  <2> QED
    BY <1>7, <2>1, UsableStays
<1>9. \A q \in Runs \ {r} : run[q].pc \notin Holding
  BY <1>1 DEF DeployIInv, RunsDoNotOverlap
<1>10. RunsDoNotOverlap'
  <2>1. "dead" \notin Holding /\ None # r
    BY DEF Holding, Building, DeployAssumptions
  <2> QED
    BY <1>9, <2>1 DEF RunsDoNotOverlap, DeployAssumptions
<1>11. ASSUME NEW q \in Runs PROVE Progress(q)'
  <2>1. CASE q = r
    BY <2>1
  <2>2. CASE q # r
    <3>1. run'[q] = run[q] /\ (run[q].pc = "start" => run[q].at = 1)
      BY <2>2 DEF DeployIInv, Progress
    <3> QED
      BY <1>9, <2>2, <3>1 DEF Progress, Holding, Building
  <2> QED
    BY <2>1, <2>2
<1>12. RunningIsExplained'
  <2>1. \A q \in Runs : run'[q].pc # "release"
    BY <1>9 DEF Holding
  <2>2. \E q \in Runs : run'[q].pc = "dead" \/ holder' = q
    OBVIOUS
  <2> QED
    BY <2>1, <2>2 DEF RunningIsExplained
<1>13. ForeignIsUntouched'
  <2> SUFFICES ASSUME NEW u \in Targets, found[u] # None, found[u].shape # "right"
               PROVE  catalog'[u] = found[u]
    BY DEF ForeignIsUntouched
  <2>1. catalog[u] = found[u]
    BY <1>1 DEF DeployIInv, ForeignIsUntouched
  <2>2. u # t
    BY <1>2, <2>1
  <2> QED
    BY <1>3, <2>1, <2>2
<1>14. LookupsAreServed'
  BY <1>7 DEF DeployIInv, LookupsAreServed, DeployAssumptions
<1> QED
  BY <1>4, <1>5, <1>6, <1>8, <1>10, <1>11, <1>12, <1>13, <1>14 DEF DeployIInv

LEMMA CreateIndexKeeps ==
    ASSUME DeployIInv, DeployAssumptions, NEW r \in Runs, CreateIndex(r) PROVE DeployIInv'
<1>1. run[r].pc = "create" /\ UNCHANGED <<found, duplicates, status, applied, old, due>>
  BY DEF CreateIndex
<1>2. /\ run[r].pc \in Building /\ run[r].pc \in Holding /\ DeployTypeOK /\ Progress(r)
      /\ Target(r) \in Targets /\ holder = r
  BY <1>1, HolderFacts DEF Holding, Building, DeployIInv
<1>3. CASE catalog[Target(r)] # None
  BY <1>1, <1>2, <1>3, AfterStatementKeeps DEF CreateIndex
<1>4. CASE catalog[Target(r)] = None
  <2>1. /\ catalog' = [catalog EXCEPT ![Target(r)] = Built] /\ GoOn(r, "scan")
        /\ UNCHANGED holder
    BY <1>4 DEF CreateIndex, Built
  <2>2. "scan" \in Pcs /\ "scan" \in Holding
    BY DEF Pcs, Holding, Building
  <2>3. /\ run' \in [Runs -> Records] /\ run'[r].pc = "scan" /\ run'[r].at = run[r].at
        /\ run'[r].exit = run[r].exit /\ Target(r)' = Target(r)
        /\ \A q \in Runs \ {r} : run'[q] = run[q]
    BY <1>2, <2>1, <2>2, DeployGotoKeeps
  <2>4. catalog'[Target(r)] = Built
    BY <1>2, <2>1 DEF DeployTypeOK
  <2>5. Progress(r)'
    BY <1>1, <1>2, <2>3, <2>4 DEF Progress, Holding, Building
  <2> QED
    BY <1>1, <1>2, <1>4, <2>1, <2>2, <2>3, <2>5, BuildStep, EntriesDiffer
<1> QED
  BY <1>3, <1>4

LEMMA SetReadyKeeps ==
    ASSUME DeployIInv, DeployAssumptions, NEW r \in Runs, SetReady(r) PROVE DeployIInv'
<1>1. /\ run[r].pc = "ready" /\ GoOn(r, "validate")
      /\ UNCHANGED <<found, duplicates, status, holder, applied, old, due>>
  BY DEF SetReady
<1>2. /\ run[r].pc \in Building /\ run[r].pc \in Holding /\ DeployTypeOK /\ Progress(r)
      /\ Target(r) \in Targets /\ holder = r
  BY <1>1, HolderFacts DEF Holding, Building, DeployIInv
<1>3. catalog[Target(r)] = Built
  BY <1>1, <1>2 DEF Progress
<1>4. catalog' = [catalog EXCEPT ![Target(r)] = Maintained]
  BY <1>2, <1>3, EntriesDiffer DEF SetReady, DeployTypeOK
<1>5. "validate" \in Pcs /\ "validate" \in Holding
  BY DEF Pcs, Holding, Building
<1>6. /\ run' \in [Runs -> Records] /\ run'[r].pc = "validate" /\ run'[r].at = run[r].at
      /\ run'[r].exit = run[r].exit /\ Target(r)' = Target(r)
      /\ \A q \in Runs \ {r} : run'[q] = run[q]
  BY <1>1, <1>2, <1>5, DeployGotoKeeps
<1>7. catalog'[Target(r)] = Maintained
  BY <1>2, <1>4 DEF DeployTypeOK
<1>8. Progress(r)'
  BY <1>1, <1>2, <1>6, <1>7 DEF Progress, Holding, Building
<1> QED
  BY <1>1, <1>2, <1>3, <1>4, <1>5, <1>6, <1>8, BuildStep, EntriesDiffer

LEMMA ValidateKeeps ==
    ASSUME DeployIInv, DeployAssumptions, NEW r \in Runs, ValidateBuild(r) PROVE DeployIInv'
<1>1. run[r].pc = "validate" /\ UNCHANGED <<found, duplicates, status, applied, old, due>>
  BY DEF ValidateBuild
<1>2. /\ run[r].pc \in Building /\ run[r].pc \in Holding /\ DeployTypeOK /\ Progress(r)
      /\ Target(r) \in Targets /\ holder = r
  BY <1>1, HolderFacts DEF Holding, Building, DeployIInv
<1>3. CASE Target(r) \in duplicates
  BY <1>1, <1>2, <1>3, AfterStatementKeeps DEF ValidateBuild
<1>4. CASE Target(r) \notin duplicates
  <2>1. catalog[Target(r)] = Maintained
    BY <1>1, <1>2 DEF Progress
  <2>2. catalog' = [catalog EXCEPT ![Target(r)] = Whole] /\ AfterStatement(r, "built")
    BY <1>2, <1>4, <2>1, EntriesDiffer DEF ValidateBuild, DeployTypeOK
  <2>3. {"built", "dead"} \subseteq Pcs /\ "built" \in Holding
    BY DEF Pcs, Holding, Building
  <2>4. ASSUME NEW pc \in {"built", "dead"}, GoOn(r, pc)
        PROVE  /\ run' \in [Runs -> Records] /\ run'[r].pc = pc
               /\ run'[r].exit = run[r].exit /\ \A q \in Runs \ {r} : run'[q] = run[q]
               /\ Progress(r)'
    <3>1. pc \in Pcs
      BY <2>3
    <3>2. /\ run' \in [Runs -> Records] /\ run'[r].pc = pc /\ run'[r].at = run[r].at
          /\ run'[r].exit = run[r].exit /\ \A q \in Runs \ {r} : run'[q] = run[q]
      BY <1>2, <2>4, <3>1, DeployGotoKeeps
    <3>3. Progress(r)'
      BY <1>1, <1>2, <3>2 DEF Progress, Holding, Building
    <3> QED
      BY <3>2, <3>3
  <2>5. CASE GoOn(r, "built") /\ UNCHANGED holder
    BY <1>1, <1>2, <1>4, <2>1, <2>2, <2>3, <2>4, <2>5, BuildStep
  <2>6. CASE GoOn(r, "dead") /\ holder' = None
    BY <1>1, <1>2, <1>4, <2>1, <2>2, <2>4, <2>6, BuildStep
  <2> QED
    BY <2>2, <2>5, <2>6 DEF AfterStatement
<1> QED
  BY <1>3, <1>4

--------------------------------------------------------------------------
(* What the operator, the writers and the migrations do.                   *)

LEMMA OutsideStep ==
    ASSUME DeployIInv, DeployAssumptions, DeployTypeOK', Fresh', UNCHANGED <<found, status, holder, run>>,
           \A t \in Targets : Usable(t) => Usable(t)',
           WholeIsClean', ForeignIsUntouched', LookupsAreServed',
           "0002" \in applied' => "0002" \in applied \/ \A t \in Targets : Usable(t)',
           \A r \in Runs : run[r].pc \in {"scan", "ready", "validate"}
                           => catalog'[Target(r)] = catalog[Target(r)]
    PROVE  DeployIInv'
<1>1. DoneIsEnforced'
  BY UsableStays
<1>2. RunsDoNotOverlap' /\ RunningIsExplained'
  BY DEF DeployIInv, RunsDoNotOverlap, RunningIsExplained
<1>3. ASSUME NEW r \in Runs PROVE Progress(r)'
  <2>1. Progress(r)
    BY DEF DeployIInv
  <2>2. Target(r)' = Target(r)
    BY DEF Target
  <2>3. run[r].pc = "complete" => Usable(Target(r))'
    <3>1. run[r].pc = "complete" => Target(r) \in Targets
      BY HolderFacts DEF Holding
    <3> QED
      BY <2>1, <2>2, <3>1 DEF Progress, Usable
  <2> QED
    BY <2>1, <2>2, <2>3 DEF Progress
<1> QED
  BY <1>1, <1>2, <1>3 DEF DeployIInv

LEMMA InsertDuplicateKeeps ==
    ASSUME DeployIInv, DeployAssumptions, NEW t \in Targets, InsertDuplicate(t) PROVE DeployIInv'
<1>1. /\ found # None /\ duplicates' = duplicates \cup {t}
      /\ UNCHANGED <<catalog, found, status, holder, run, applied, old, due>>
  BY DEF InsertDuplicate
<1>2. catalog[t] # Whole
  BY EntriesDiffer DEF InsertDuplicate, Enforced, Whole, Entry
<1>3. DeployTypeOK' /\ Fresh'
  BY <1>1 DEF DeployIInv, DeployTypeOK, Fresh
<1>4. WholeIsClean' /\ \A u \in Targets : Usable(u) => Usable(u)'
  BY <1>1, <1>2 DEF DeployIInv, WholeIsClean, Usable, Whole
<1>5. ForeignIsUntouched' /\ LookupsAreServed'
  BY <1>1, <1>4 DEF DeployIInv, ForeignIsUntouched, LookupsAreServed, DeployAssumptions
<1> QED
  BY <1>1, <1>3, <1>4, <1>5, OutsideStep

LEMMA ResolveDuplicatesKeeps ==
    ASSUME DeployIInv, DeployAssumptions, NEW t \in Targets, ResolveDuplicates(t) PROVE DeployIInv'
<1>1. /\ t \in duplicates /\ duplicates' = duplicates \ {t}
      /\ UNCHANGED <<catalog, found, status, holder, run, applied, old, due>>
  BY DEF ResolveDuplicates
<1>2. DeployTypeOK' /\ Fresh'
  BY <1>1 DEF DeployIInv, DeployTypeOK, Fresh
<1>3. WholeIsClean' /\ \A u \in Targets : Usable(u) => Usable(u)'
  BY <1>1 DEF DeployIInv, WholeIsClean, Usable
<1>4. ForeignIsUntouched' /\ LookupsAreServed'
  BY <1>1, <1>3 DEF DeployIInv, ForeignIsUntouched, LookupsAreServed, DeployAssumptions
<1> QED
  BY <1>1, <1>2, <1>3, <1>4, OutsideStep

LEMMA DropInvalidKeeps ==
    ASSUME DeployIInv, DeployAssumptions, NEW t \in Targets, DropInvalid(t) PROVE DeployIInv'
<1>1. /\ VerifyIndex(t) = "invalid" /\ catalog' = [catalog EXCEPT ![t] = None]
      /\ \A r \in Runs : run[r].pc \in Building => Target(r) # t
      /\ UNCHANGED <<found, duplicates, status, holder, run, applied, old, due>>
  BY DEF DropInvalid
<1>2. /\ DeployTypeOK /\ catalog[t] # None /\ catalog[t] # Whole /\ catalog[t].shape = "right"
  BY <1>1, Verdicts DEF DeployIInv
<1>3. /\ catalog' \in [Targets -> Entries \cup {None}] /\ catalog'[t] = None
      /\ \A u \in Targets \ {t} : catalog'[u] = catalog[u]
  BY <1>1, <1>2 DEF DeployTypeOK
<1>4. found # None
  BY <1>2 DEF DeployIInv, Fresh
<1>5. DeployTypeOK' /\ Fresh'
  BY <1>1, <1>3, <1>4 DEF DeployIInv, DeployTypeOK, Fresh
<1>6. WholeIsClean' /\ \A u \in Targets : Usable(u) => Usable(u)'
  BY <1>1, <1>2, <1>3, EntriesDiffer DEF DeployIInv, WholeIsClean, Usable, Whole
<1>7. ForeignIsUntouched'
  BY <1>1, <1>2, <1>3 DEF DeployIInv, ForeignIsUntouched
<1>8. LookupsAreServed'
  BY <1>1, <1>6 DEF DeployIInv, LookupsAreServed, DeployAssumptions
<1>9. ASSUME NEW r \in Runs, run[r].pc \in {"scan", "ready", "validate"}
      PROVE  catalog'[Target(r)] = catalog[Target(r)]
  <2>1. Target(r) \in Targets
    BY <1>9, HolderFacts DEF Holding, Building
  <2> QED
    BY <1>1, <1>3, <1>9, <2>1 DEF Building
<1> QED
  BY <1>1, <1>5, <1>6, <1>7, <1>8, <1>9, OutsideStep

LEMMA Migrate0002Keeps == ASSUME DeployIInv, DeployAssumptions, Migrate0002 PROVE DeployIInv'
<1>1. /\ found # None /\ catalog' = [t \in Targets |-> Whole]
      /\ applied' = applied \cup {"0002"}
      /\ UNCHANGED <<found, duplicates, status, holder, run, old, due>>
  BY DEF Migrate0002, Whole
<1>2. ASSUME NEW t \in Targets
      PROVE  (catalog[t] = None \/ catalog[t] = Whole) /\ t \notin duplicates
  <2>1. CASE catalog[t] = None /\ t \notin duplicates
    BY <2>1
  <2>2. CASE VerifyIndex(t) = "valid"
    BY <2>2, ValidIsUsable DEF Usable, Whole
  <2> QED
    BY <2>1, <2>2 DEF Migrate0002
<1>3. DeployTypeOK' /\ Fresh'
  BY <1>1, EntriesDiffer DEF DeployIInv, DeployTypeOK, Fresh
<1>4. \A t \in Targets : Usable(t)'
  BY <1>1, <1>2 DEF Usable, Whole
<1>5. WholeIsClean'
  BY <1>1, <1>2 DEF WholeIsClean
<1>6. ForeignIsUntouched'
  <2> SUFFICES ASSUME NEW t \in Targets, found[t] # None, found[t].shape # "right" PROVE FALSE
    BY <1>1 DEF ForeignIsUntouched
  <2>1. catalog[t] = found[t]
    BY <1>1 DEF DeployIInv, ForeignIsUntouched
  <2> QED
    BY <1>2, <2>1 DEF Whole, Entry
<1>7. LookupsAreServed'
  BY <1>1, <1>4 DEF DeployIInv, LookupsAreServed, DeployAssumptions
<1>8. ASSUME NEW r \in Runs PROVE run[r].pc \notin {"scan", "ready", "validate"}
  <2> SUFFICES ASSUME run[r].pc \in {"scan", "ready", "validate"} PROVE FALSE
    OBVIOUS
  <2>1. Target(r) \in Targets /\ Progress(r)
    BY HolderFacts DEF Holding, Building
  <2>2. catalog[Target(r)] \in {Built, Maintained}
    BY <2>1 DEF Progress
  <2> QED
    BY <1>2, <2>1, <2>2, EntriesDiffer
<1> QED
  BY <1>1, <1>3, <1>4, <1>5, <1>6, <1>7, <1>8, OutsideStep

\* Steps that touch the migrations and meta_events_due_idx only.
LEMMA MigrationStep ==
    ASSUME DeployIInv, DeployAssumptions, DeployTypeOK', found # None \/ UNCHANGED <<applied, old>>,
           UNCHANGED <<catalog, found, duplicates, status, holder, run>>, LookupsAreServed',
           "0002" \in applied' => "0002" \in applied \/ \A t \in Targets : Usable(t)
    PROVE  DeployIInv'
<1>1. Fresh' /\ WholeIsClean' /\ ForeignIsUntouched'
  BY DEF DeployIInv, Fresh, WholeIsClean, ForeignIsUntouched
<1>2. \A t \in Targets : Usable(t)' = Usable(t)
  BY DEF Usable
<1> QED
  BY <1>1, <1>2, OutsideStep

LEMMA ResolveAppliedKeeps == ASSUME DeployIInv, DeployAssumptions, ResolveApplied PROVE DeployIInv'
<1>1. PICK r \in Runs : run[r].pc = "done" /\ run[r].exit = 0
  BY DEF ResolveApplied
<1>2. applied' = applied \cup {"0002"}
      /\ UNCHANGED <<catalog, found, duplicates, status, holder, run, old, due>>
  BY DEF ResolveApplied
<1>3. found # None /\ \A t \in Targets : Usable(t)
  BY <1>1 DEF DeployIInv, Fresh, DoneIsEnforced
<1>4. DeployTypeOK' /\ LookupsAreServed'
  BY <1>2 DEF DeployIInv, DeployTypeOK, LookupsAreServed, Usable
<1> QED
  BY <1>2, <1>3, <1>4, MigrationStep

LEMMA Migrate0010Keeps == ASSUME DeployIInv, DeployAssumptions, Migrate0010 PROVE DeployIInv'
<1>1. /\ "0002" \in applied /\ VerifyIndex(OrderIdKey) = "valid" /\ due' = "valid"
      /\ old' = {} /\ applied' = applied \cup {"0010"}
      /\ UNCHANGED <<catalog, found, duplicates, status, holder, run>>
  BY DEF Migrate0010
<1>2. found # None
  BY <1>1 DEF DeployIInv, Fresh
<1>3. Usable(OrderIdKey)
  BY <1>1, ValidIsUsable DEF DeployAssumptions
<1>4. DeployTypeOK'
  BY <1>1 DEF DeployIInv, DeployTypeOK
<1>5. LookupsAreServed'
  BY <1>1, <1>3 DEF LookupsAreServed, Usable
<1> QED
  BY <1>1, <1>2, <1>4, <1>5, MigrationStep

LEMMA DueByHandKeeps ==
    ASSUME DeployIInv, DeployAssumptions, BuildDueByHand \/ DropDueByHand PROVE DeployIInv'
<1>1. /\ due # "valid" /\ due' \in {"missing", "valid", "invalid"}
      /\ UNCHANGED <<catalog, found, duplicates, status, holder, run, applied, old>>
  BY DEF BuildDueByHand, DropDueByHand
<1>2. DeployTypeOK' /\ LookupsAreServed'
  BY <1>1 DEF DeployIInv, DeployTypeOK, LookupsAreServed, Usable
<1> QED
  BY <1>1, <1>2, MigrationStep

LEMMA ProvisionKeeps == ASSUME DeployIInv, DeployAssumptions, Provision PROVE DeployIInv'
<1>1. /\ found = None /\ catalog' \in Found /\ found' = catalog'
      /\ due' \in {"missing", "invalid", "whole"}
      /\ UNCHANGED <<duplicates, status, holder, run, applied, old>>
  BY DEF Provision
<1>2. /\ catalog = [t \in Targets |-> None] /\ duplicates = {}
      /\ status = [t \in Targets |-> None] /\ holder = None
      /\ \A r \in Runs : run[r].pc = "start"
      /\ applied = {} /\ old = Obsolete
  BY <1>1 DEF DeployIInv, Fresh
<1>3. found' # None /\ found' \in [Targets -> Entries \cup {None}]
  BY <1>1 DEF DeployAssumptions
<1>4. DeployTypeOK'
  BY <1>1, <1>3 DEF DeployIInv, DeployTypeOK
<1>5. Fresh' /\ WholeIsClean' /\ ForeignIsUntouched'
  BY <1>1, <1>2, <1>3 DEF Fresh, WholeIsClean, ForeignIsUntouched
<1>6. LookupsAreServed'
  BY <1>1, <1>2 DEF LookupsAreServed, Obsolete
<1>7. RunsDoNotOverlap' /\ RunningIsExplained'
  BY <1>1, <1>2 DEF DeployIInv, RunsDoNotOverlap, RunningIsExplained
<1>8. \A r \in Runs : Progress(r)'
  BY <1>1, <1>2 DEF DeployIInv, Progress, Holding, Building
<1>9. DoneIsEnforced'
  <2>1. ~Usable(OrderIdKey)
    BY <1>2, EntriesDiffer DEF Usable, Whole, DeployAssumptions
  <2>2. \A r \in Runs : run[r].exit # 0
    BY <2>1 DEF DeployIInv, DoneIsEnforced, DeployAssumptions
  <2> QED
    BY <1>1, <1>2, <2>2 DEF DoneIsEnforced, DeployAssumptions
<1> QED
  BY <1>4, <1>5, <1>6, <1>7, <1>8, <1>9 DEF DeployIInv

--------------------------------------------------------------------------
(* The invariant.                                                          *)

LEMMA RunNextKeeps ==
    ASSUME DeployIInv, DeployAssumptions, NEW r \in Runs,
           \/ AcquireLock(r) \/ EnsureStateRow(r) \/ Inspect(r) \/ ResetToPending(r)
           \/ DuplicatePreflight(r) \/ MarkRunning(r)
           \/ CreateIndex(r) \/ Scan(r) \/ SetReady(r) \/ ValidateBuild(r) \/ VerifyBuilt(r)
           \/ MarkCompleted(r) \/ MarkFailed(r) \/ FinalVerification(r) \/ ReleaseLock(r)
           \/ Crash(r) \/ Orphan(r)
    PROVE  DeployIInv'
<1>1. CASE \/ AcquireLock(r) \/ EnsureStateRow(r) \/ Inspect(r) \/ ResetToPending(r)
           \/ DuplicatePreflight(r) \/ MarkRunning(r)
  BY <1>1, AcquireLockKeeps, EnsureStateRowKeeps, InspectKeeps, ResetKeeps, PreflightKeeps,
     MarkRunningKeeps
<1>2. CASE CreateIndex(r) \/ Scan(r) \/ SetReady(r) \/ ValidateBuild(r) \/ VerifyBuilt(r)
  BY <1>2, CreateIndexKeeps, DeployScanKeeps, SetReadyKeeps, ValidateKeeps, VerifyBuiltKeeps
<1>3. CASE MarkCompleted(r) \/ MarkFailed(r) \/ FinalVerification(r) \/ ReleaseLock(r)
  BY <1>3, MarkCompletedKeeps, MarkFailedKeeps, FinalVerificationKeeps, ReleaseLockKeeps
<1>4. CASE Crash(r) \/ Orphan(r)
  BY <1>4, CrashKeeps, OrphanKeeps
<1> QED
  BY <1>1, <1>2, <1>3, <1>4

LEMMA StutterKeeps == ASSUME DeployIInv, DeployAssumptions, UNCHANGED deployVars PROVE DeployIInv'
<1>1. UNCHANGED <<catalog, found, duplicates, status, holder, run, applied, old, due>>
  BY DEF deployVars
<1>2. DeployTypeOK' /\ LookupsAreServed'
  BY <1>1 DEF DeployIInv, DeployTypeOK, LookupsAreServed, Usable
<1> QED
  BY <1>1, <1>2, MigrationStep

LEMMA DeployNextKeeps == ASSUME DeployIInv, DeployAssumptions, [DeployNext]_deployVars PROVE DeployIInv'
<1>1. CASE Provision
  BY <1>1, ProvisionKeeps
<1>2. ASSUME NEW t \in Targets, InsertDuplicate(t) \/ ResolveDuplicates(t) \/ DropInvalid(t)
      PROVE  DeployIInv'
  BY <1>2, InsertDuplicateKeeps, ResolveDuplicatesKeeps, DropInvalidKeeps
<1>3. CASE ResolveApplied \/ Migrate0002 \/ Migrate0010 \/ BuildDueByHand \/ DropDueByHand
  BY <1>3, ResolveAppliedKeeps, Migrate0002Keeps, Migrate0010Keeps, DueByHandKeeps
<1>4. CASE UNCHANGED deployVars
  BY <1>4, StutterKeeps
<1> QED
  BY <1>1, <1>2, <1>3, <1>4, RunNextKeeps DEF DeployNext

\* The inductive invariant holds in every state of every deployment (deploy.ts).
THEOREM DeployInvariance == DeploySpec => []DeployIInv
<1>1. DeployInit => DeployIInv
  BY DeployInitHolds, DeployConstants
<1>2. DeployIInv /\ [DeployNext]_deployVars => DeployIInv'
  BY DeployNextKeeps, DeployConstants
<1> QED
  BY <1>1, <1>2, PTL DEF DeploySpec

\* Whatever the database holds at the start and wherever runs are killed, done means
\* enforced, runs do not overlap, nobody else's index is touched and every lookup
\* keeps an index that works (deployAll, deployOne, migrations 0002 and 0010).
THEOREM DeploymentHoldsAlways == DeploySpec => []DeploymentHolds
<1>1. DeployIInv => DeploymentHolds
  BY DEF DeployIInv, DeploymentHolds
<1> QED
  BY <1>1, DeployInvariance, PTL

---------------------------------------------------------------------------
(* What is kept of a webhook request (WebhookRecords).                     *)

Paths == UNION WebhookBodies
StoredRows == [received : 0..MaxToday, payload : SUBSET Paths, redacted : 0..MaxToday \cup {None}]
RejectionRows == [reason : Reasons, body : {"empty", "small", "huge"},
                  signaturePresent : BOOLEAN, wellFormed : BOOLEAN]
RunStates == [pc : {"idle", "select", "update", "drained", "incomplete"}, on : 0..MaxToday,
              cutoff : Int, locked : SUBSET Nat, batches : Nat, skipped : SUBSET Nat]

RecordsTyped ==
    /\ today \in 0..MaxToday
    /\ stored \in Seq(StoredRows)
    /\ original \in Seq(SUBSET Paths)
    /\ Len(original) = Len(stored)
    /\ rejections \in Seq(RejectionRows)
    /\ redaction \in [Redactions -> RunStates]

\* A row is locked by one run at a time, which found it due; locks end with the statement.
LocksApart ==
    /\ \A u, v \in Redactions : u # v => redaction[u].locked \cap redaction[v].locked = {}
    /\ \A u \in Redactions :
          redaction[u].locked \subseteq
              IF redaction[u].pc = "update" THEN DueRows(redaction[u].cutoff) ELSE {}

CutoffsAreOld ==
    \A u \in Redactions :
        redaction[u].pc # "idle" =>
            /\ redaction[u].on <= today
            /\ redaction[u].cutoff <= redaction[u].on - MinRetention

\* What a statement that took a short batch has left: nothing but what it skipped.
ShortBatches ==
    \A u \in Redactions :
        redaction[u].pc = "update" /\ Cardinality(redaction[u].locked) < BatchSize =>
            DueRows(redaction[u].cutoff) \subseteq redaction[u].locked \cup redaction[u].skipped

RecordsIInv ==
    /\ RecordsTyped /\ LocksApart /\ CutoffsAreOld /\ ShortBatches
    /\ BodiesAreWholeOrNarrow /\ NothingIsNarrowedEarly /\ DrainedIsDrained

--------------------------------------------------------------------------
(* Batches and allowlists.                                                 *)

LEMMA LeastOf ==
    ASSUME NEW T, T \subseteq Nat, T # {}
    PROVE  \E x \in T : \A y \in T : x <= y
<1>1. IsWellFoundedOn(OpToRel(<, Nat), Nat)
  BY NatLessThanWellFounded
<1>2. PICK x \in T : \A y \in T : ~ (<<y, x>> \in OpToRel(<, Nat))
  BY <1>1, WFMin
<1>3. \A y \in T : ~(y < x)
  BY <1>2 DEF OpToRel
<1> QED
  BY <1>3

\* "A short batch means the backlog is drained": it holds all there was to take.
LEMMA ShortBatchIsAll ==
    ASSUME NEW free, free \subseteq Nat, IsFiniteSet(free), Cardinality(Batch(free)) < BatchSize
    PROVE  Batch(free) = free
<1> SUFFICES ASSUME free \ Batch(free) # {} PROVE FALSE
  BY DEF Batch
<1>1. PICK i \in free \ Batch(free) : \A j \in free \ Batch(free) : i <= j
  BY LeastOf
<1> DEFINE lower == {j \in free : j < i}
<1>2. ~(Cardinality(lower) < BatchSize)
  BY <1>1 DEF Batch
<1>3. lower \subseteq Batch(free)
  <2> SUFFICES ASSUME NEW j \in lower PROVE j \in Batch(free)
    OBVIOUS
  <2>1. i \in Nat /\ j \in Nat /\ j \in free /\ j < i
    BY <1>1
  <2> QED
    BY <1>1, <2>1
<1>4. IsFiniteSet(Batch(free))
  BY FS_Subset DEF Batch
<1>5. Cardinality(lower) <= Cardinality(Batch(free)) /\ IsFiniteSet(lower)
  BY <1>3, <1>4, FS_Subset
<1>6. Cardinality(lower) \in Nat /\ Cardinality(Batch(free)) \in Nat
  BY <1>4, <1>5, FS_CardinalityType
<1> HIDE DEF lower
<1> QED
  BY <1>2, <1>5, <1>6, RecordsConstants

AllowedNames == EnvelopeFields \cup PaymentFields \cup OrderFields \cup RefundFields
                  \cup {"payload", "entity", "payment", "order", "refund"}

LEMMA AllowedPaths == \A a \in REDACTION_ALLOWLIST : a \in Seq(AllowedNames) /\ Len(a) \in {1, 4}
<1>1. /\ \A f \in EnvelopeFields \cup PaymentFields \cup OrderFields \cup RefundFields : f \in AllowedNames
      /\ {"payload", "entity", "payment", "order", "refund"} \subseteq AllowedNames
  BY DEF AllowedNames
<1>2. \A f \in AllowedNames : <<f>> \in Seq(AllowedNames) /\ Len(<<f>>) = 1
  OBVIOUS
<1>3. \A k, f, p, e \in AllowedNames :
         <<p, k, e, f>> \in Seq(AllowedNames) /\ Len(<<p, k, e, f>>) = 4
  OBVIOUS
<1>4. \A k, f \in AllowedNames :
         EntityPath(k, f) \in Seq(AllowedNames) /\ Len(EntityPath(k, f)) = 4
  BY <1>1, <1>3 DEF EntityPath
<1> QED
  BY <1>1, <1>2, <1>4 DEF REDACTION_ALLOWLIST

Narrowed(body) == {p \in body : \E n \in 1..Len(p) : SubSeq(p, 1, n) \in REDACTION_ALLOWLIST}

LEMMA RedactionNarrows ==
    ASSUME NEW body \in SUBSET Paths
    PROVE  RedactWebhookPayload(body) = Narrowed(body)
<1>1. ASSUME NEW p \in body, NEW a \in REDACTION_ALLOWLIST, IsPrefix(a, p)
      PROVE  \E n \in 1..Len(p) : SubSeq(p, 1, n) \in REDACTION_ALLOWLIST
  <2>1. a \in Seq(AllowedNames) /\ Len(a) \in {1, 4} /\ p \in Seq(Range(p))
    BY AllowedPaths, RecordsConstants DEF Paths
  <2>2. SubSeq(a, 1, Len(a)) = a
    BY <2>1
  <2>3. Len(a) \in 1..Len(p) /\ SubSeq(p, 1, Len(a)) = a
    BY <1>1, <2>1, <2>2 DEF IsPrefix
  <2> QED
    BY <2>3
<1>2. ASSUME NEW p \in body, NEW n \in 1..Len(p), SubSeq(p, 1, n) \in REDACTION_ALLOWLIST
      PROVE  \E a \in REDACTION_ALLOWLIST : IsPrefix(a, p)
  <2> DEFINE a == SubSeq(p, 1, n)
  <2>1. p \in Seq(Range(p))
    BY RecordsConstants DEF Paths
  <2>2. a \in Seq(Range(p)) /\ Len(a) = n
    BY <2>1
  <2>3. SubSeq(a, 1, n) = a
    <3> HIDE DEF a
    <3> QED
      BY <2>2
  <2>4. IsPrefix(a, p)
    BY <2>1, <2>2, <2>3 DEF IsPrefix
  <2> QED
    BY <1>2, <2>4
<1> QED
  BY <1>1, <1>2 DEF RedactWebhookPayload, Narrowed

--------------------------------------------------------------------------
(* Steps.                                                                  *)

LEMMA RecordsInitHolds == ASSUME RecordsInit PROVE RecordsIInv
<1>1. RecordsTyped
  BY RecordsConstants DEF RecordsInit, RecordsTyped, RunStates
<1>2. LocksApart /\ CutoffsAreOld /\ ShortBatches /\ DrainedIsDrained
  BY DEF RecordsInit, LocksApart, CutoffsAreOld, ShortBatches, DrainedIsDrained
<1>3. BodiesAreWholeOrNarrow /\ NothingIsNarrowedEarly
  BY DEF RecordsInit, BodiesAreWholeOrNarrow, NothingIsNarrowedEarly
<1> QED
  BY <1>1, <1>2, <1>3 DEF RecordsIInv

LEMMA Retention == ASSUME NEW u \in Redactions
                   PROVE  ResolveRetentionDays(Configured(u)) \in Int
                          /\ ResolveRetentionDays(Configured(u)) >= MinRetention
BY RecordsConstants DEF ResolveRetentionDays

\* Refusals, and the clock, change no row and no run.
LEMMA RejectKeeps == ASSUME RecordsIInv, NEW q \in WebhookRequests, RejectRequest(q)
                     PROVE  RecordsIInv'
<1>1. UNCHANGED <<today, stored, original, redaction>>
  BY DEF RejectRequest
<1>2. Rejection(q, Refusal(q)) \in RejectionRows
  BY DEF RejectRequest, Rejection, RejectionRows, Refusal, VerifyRazorpayWebhook, Reasons,
         WebhookRequests
<1>3. RecordsTyped'
  BY <1>1, <1>2 DEF RejectRequest, RecordsIInv, RecordsTyped
<1> QED
  BY <1>1, <1>3 DEF RecordsIInv, LocksApart, CutoffsAreOld, ShortBatches, DueRows,
                     BodiesAreWholeOrNarrow, NothingIsNarrowedEarly, DrainedIsDrained

LEMMA TodayEndsKeeps == ASSUME RecordsIInv, TodayEnds PROVE RecordsIInv'
<1>1. UNCHANGED <<stored, original, rejections, redaction>>
  BY DEF TodayEnds
<1>2. today \in Nat /\ today' = today + 1 /\ today' \in 0..MaxToday
  BY RecordsConstants DEF TodayEnds, RecordsIInv, RecordsTyped
<1>3. CutoffsAreOld'
  <2>1. \A u \in Redactions : redaction[u].on \in Nat
    BY RecordsConstants DEF RecordsIInv, RecordsTyped, RunStates
  <2> QED
    BY <1>1, <1>2, <2>1 DEF RecordsIInv, CutoffsAreOld
<1> QED
  BY <1>1, <1>2, <1>3 DEF RecordsIInv, RecordsTyped, LocksApart, ShortBatches, DueRows,
                           BodiesAreWholeOrNarrow, NothingIsNarrowedEarly, DrainedIsDrained

\* A new row is younger than any cutoff.
LEMMA StoreKeeps ==
    ASSUME RecordsIInv, NEW q \in WebhookRequests, NEW body \in WebhookBodies, StoreBody(q, body)
    PROVE  RecordsIInv'
<1> DEFINE row == [received |-> today, payload |-> body, redacted |-> None]
           n == Len(stored)
<1>1. /\ stored' = Append(stored, row) /\ original' = Append(original, body)
      /\ UNCHANGED <<today, rejections, redaction>>
  BY DEF StoreBody
<1>2. row \in StoredRows /\ body \in SUBSET Paths /\ row.received = today /\ row.redacted = None
      /\ row.payload = body
  BY RecordsConstants DEF RecordsIInv, RecordsTyped, StoredRows, Paths
<1> HIDE DEF row
<1>3. /\ stored \in Seq(StoredRows) /\ original \in Seq(SUBSET Paths) /\ n \in Nat
      /\ Len(original) = n
  BY DEF RecordsIInv, RecordsTyped
<1>4. /\ DOMAIN stored = 1..n /\ DOMAIN stored' = 1..(n + 1)
      /\ stored'[n + 1] = row /\ original'[n + 1] = body
      /\ \A i \in 1..n : stored'[i] = stored[i] /\ original'[i] = original[i]
  BY <1>1, <1>2, <1>3
<1>5. RecordsTyped'
  BY <1>1, <1>2, <1>3 DEF RecordsIInv, RecordsTyped
<1>6. ASSUME NEW u \in Redactions, redaction[u].pc # "idle"
      PROVE  DueRows(redaction[u].cutoff)' = DueRows(redaction[u].cutoff)
  <2>1. redaction[u].cutoff < today /\ redaction'[u] = redaction[u]
    BY <1>1, <1>6, RecordsConstants DEF RecordsIInv, RecordsTyped, RunStates, CutoffsAreOld
  <2>2. \A i \in 1..n : i \in DueRows(redaction[u].cutoff)' <=> i \in DueRows(redaction[u].cutoff)
    BY <1>4, <2>1 DEF DueRows
  <2>3. n + 1 \notin DueRows(redaction[u].cutoff)' /\ n + 1 \notin DueRows(redaction[u].cutoff)
    BY <1>2, <1>3, <1>4, <2>1, RecordsConstants DEF DueRows, RecordsIInv, RecordsTyped, RunStates
  <2> QED
    BY <1>3, <1>4, <2>2, <2>3 DEF DueRows
<1>7. LocksApart' /\ CutoffsAreOld' /\ ShortBatches' /\ DrainedIsDrained'
  BY <1>1, <1>6 DEF RecordsIInv, LocksApart, CutoffsAreOld, ShortBatches, DrainedIsDrained
<1>8. BodiesAreWholeOrNarrow' /\ NothingIsNarrowedEarly'
  <2>1. \A i \in DOMAIN stored' : i \in 1..n \/ i = n + 1
    BY <1>3, <1>4
  <2> QED
    BY <1>2, <1>4, <2>1 DEF RecordsIInv, BodiesAreWholeOrNarrow, NothingIsNarrowedEarly
<1> QED
  BY <1>5, <1>7, <1>8 DEF RecordsIInv

\* A run moves on without touching a row.
LEMMA StartKeeps == ASSUME RecordsIInv, NEW u \in Redactions, StartRedaction(u) PROVE RecordsIInv'
<1>1. UNCHANGED <<today, stored, original, rejections>> /\ redaction[u].pc = "idle"
  BY DEF StartRedaction
<1>2. /\ RedactionCutoff(u) \in Int /\ RedactionCutoff(u) <= today - MinRetention
      /\ redaction \in [Redactions -> RunStates]
  BY Retention, RecordsConstants DEF RedactionCutoff, RecordsIInv, RecordsTyped
<1>3. /\ redaction' \in [Redactions -> RunStates]
      /\ redaction'[u].pc = "select" /\ redaction'[u].cutoff = RedactionCutoff(u)
      /\ redaction'[u].on = today
      /\ redaction'[u].locked = redaction[u].locked
      /\ \A v \in Redactions : v # u => redaction'[v] = redaction[v]
  BY <1>2 DEF StartRedaction, RunStates, RecordsIInv, RecordsTyped
<1>4. RecordsTyped'
  BY <1>1, <1>3 DEF RecordsIInv, RecordsTyped
<1>5. LocksApart' /\ ShortBatches' /\ DrainedIsDrained'
  BY <1>1, <1>2, <1>3 DEF RecordsIInv, LocksApart, ShortBatches, DrainedIsDrained, DueRows
<1>6. CutoffsAreOld'
  <2>1. today \in Int /\ today' = today
    BY <1>1, RecordsConstants DEF RecordsIInv, RecordsTyped
  <2> QED
    BY <1>2, <1>3, <2>1 DEF RecordsIInv, CutoffsAreOld
<1> QED
  BY <1>1, <1>4, <1>5, <1>6 DEF RecordsIInv, BodiesAreWholeOrNarrow, NothingIsNarrowedEarly

LEMMA StopKeeps == ASSUME RecordsIInv, NEW u \in Redactions, StopRedaction(u) PROVE RecordsIInv'
<1>1. UNCHANGED <<today, stored, original, rejections>> /\ redaction[u].pc # "idle"
  BY DEF StopRedaction
<1>2. /\ redaction' \in [Redactions -> RunStates]
      /\ redaction'[u].pc = "incomplete" /\ redaction'[u].cutoff = redaction[u].cutoff
      /\ redaction'[u].on = redaction[u].on
      /\ redaction'[u].locked = {}
      /\ \A v \in Redactions : v # u => redaction'[v] = redaction[v]
  BY DEF StopRedaction, RunStates, RecordsIInv, RecordsTyped
<1>3. RecordsTyped'
  BY <1>1, <1>2 DEF RecordsIInv, RecordsTyped
<1>4. LocksApart' /\ CutoffsAreOld' /\ ShortBatches' /\ DrainedIsDrained'
  BY <1>1, <1>2 DEF RecordsIInv, LocksApart, CutoffsAreOld, ShortBatches, DrainedIsDrained, DueRows
<1> QED
  BY <1>1, <1>3, <1>4 DEF RecordsIInv, BodiesAreWholeOrNarrow, NothingIsNarrowedEarly

LEMMA SelectKeeps == ASSUME RecordsIInv, NEW u \in Redactions, SelectDue(u) PROVE RecordsIInv'
<1> DEFINE dueRows == DueRows(redaction[u].cutoff)
           free == dueRows \ LockedByOthers(u)
<1>1. UNCHANGED <<today, stored, original, rejections>> /\ redaction[u].pc = "select"
  BY DEF SelectDue
<1>2. dueRows \subseteq Nat /\ IsFiniteSet(dueRows) /\ Batch(free) \subseteq free
  <2>1. dueRows \subseteq 1..Len(stored) /\ Len(stored) \in Nat
    BY DEF DueRows, RecordsIInv, RecordsTyped
  <2>2. IsFiniteSet(dueRows)
    <3> HIDE DEF dueRows
    <3>1. IsFiniteSet(1..Len(stored))
      BY <2>1, FS_Interval
    <3> QED
      BY <2>1, <3>1, FS_Subset
  <2>3. Batch(free) \subseteq free
    BY DEF Batch
  <2>4. dueRows \subseteq Nat
    BY <2>1
  <2> QED
    BY <2>2, <2>3, <2>4
<1>3. /\ redaction' \in [Redactions -> RunStates]
      /\ redaction'[u].pc = "update" /\ redaction'[u].cutoff = redaction[u].cutoff
      /\ redaction'[u].on = redaction[u].on
      /\ redaction'[u].locked = Batch(free) /\ redaction'[u].skipped = dueRows \cap LockedByOthers(u)
      /\ \A v \in Redactions : v # u => redaction'[v] = redaction[v]
  <2>1. /\ redaction' = [redaction EXCEPT ![u].pc = "update", ![u].locked = Batch(free),
                                          ![u].batches = @ + 1,
                                          ![u].skipped = dueRows \cap LockedByOthers(u)]
        /\ redaction \in [Redactions -> RunStates]
    BY DEF SelectDue, RecordsIInv, RecordsTyped
  <2>2. Batch(free) \subseteq Nat /\ dueRows \cap LockedByOthers(u) \subseteq Nat
    BY <1>2
  <2> HIDE DEF dueRows, free
  <2> QED
    BY <2>1, <2>2 DEF RunStates
<1>4. RecordsTyped'
  BY <1>1, <1>3 DEF RecordsIInv, RecordsTyped
<1>5. \A v \in Redactions : v # u => free \cap redaction[v].locked = {}
  BY DEF LockedByOthers
<1>6. Cardinality(Batch(free)) < BatchSize => Batch(free) = free
  BY <1>2, ShortBatchIsAll, FS_Subset
<1>7. \A c : DueRows(c)' = DueRows(c)
  BY <1>1 DEF DueRows
<1> HIDE DEF free
<1>8. LocksApart' /\ CutoffsAreOld' /\ DrainedIsDrained'
  BY <1>1, <1>2, <1>3, <1>5, <1>7 DEF RecordsIInv, LocksApart, CutoffsAreOld, DrainedIsDrained, free
<1>9. ShortBatches'
  BY <1>1, <1>3, <1>6, <1>7 DEF RecordsIInv, ShortBatches, free
<1> QED
  BY <1>1, <1>4, <1>8, <1>9 DEF RecordsIInv, BodiesAreWholeOrNarrow, NothingIsNarrowedEarly

\* The rows a run has locked are narrowed; nobody else has them, so they were whole.
LEMMA UpdateKeeps == ASSUME RecordsIInv, NEW u \in Redactions, UpdateDue(u) PROVE RecordsIInv'
<1> DEFINE pass == redaction[u]
<1>1. /\ UNCHANGED <<today, original, rejections>> /\ pass.pc = "update"
      /\ stored \in Seq(StoredRows) /\ today \in 0..MaxToday /\ today \in Nat
      /\ original \in Seq(SUBSET Paths) /\ Len(original) = Len(stored)
      /\ redaction \in [Redactions -> RunStates]
  <2>1. today \in 0..MaxToday /\ today \in Nat
    BY RecordsConstants DEF RecordsIInv, RecordsTyped
  <2>2. UNCHANGED <<today, original, rejections>> /\ pass.pc = "update"
    BY DEF UpdateDue
  <2> QED
    BY <2>1, <2>2 DEF RecordsIInv, RecordsTyped
<1>2. /\ pass.locked \subseteq DueRows(pass.cutoff)
      /\ pass.on \in 0..MaxToday /\ pass.on <= today /\ pass.cutoff <= pass.on - MinRetention
  BY <1>1 DEF RecordsIInv, LocksApart, CutoffsAreOld, RunStates
<1>3. ASSUME NEW i \in pass.locked
      PROVE  /\ i \in DOMAIN stored /\ stored[i].redacted = None /\ stored[i].received <= pass.cutoff
             /\ stored[i].payload = original[i] /\ stored[i] \in StoredRows
  <2>1. i \in DOMAIN stored /\ stored[i].redacted = None /\ stored[i].received <= pass.cutoff
    BY <1>2 DEF DueRows
  <2>2. stored[i].payload = original[i]
    BY <2>1 DEF RecordsIInv, BodiesAreWholeOrNarrow
  <2>3. stored[i] \in StoredRows
    BY <1>1, <2>1
  <2> QED
    BY <2>1, <2>2, <2>3
<1>4. /\ DOMAIN stored' = DOMAIN stored
      /\ \A i \in DOMAIN stored \ pass.locked : stored'[i] = stored[i]
      /\ \A i \in pass.locked :
            stored'[i] = [stored[i] EXCEPT !.payload = RedactWebhookPayload(stored[i].payload),
                                           !.redacted = pass.on]
  BY <1>3 DEF UpdateDue
<1>5. ASSUME NEW i \in pass.locked
      PROVE  /\ stored'[i] \in StoredRows /\ stored'[i].redacted = pass.on
             /\ stored'[i].received = stored[i].received
             /\ stored'[i].payload = Narrowed(original[i])
  <2>1. original[i] \in SUBSET Paths
    BY <1>1, <1>3
  <2>2. RedactWebhookPayload(stored[i].payload) = Narrowed(original[i])
        /\ Narrowed(original[i]) \in SUBSET Paths
    BY <1>3, <2>1, RedactionNarrows DEF Narrowed
  <2> QED
    BY <1>2, <1>3, <1>4, <2>2 DEF StoredRows
<1>6. stored' \in Seq(StoredRows) /\ Len(stored') = Len(stored)
  <2>1. DOMAIN stored = 1..Len(stored) /\ Len(stored) \in Nat
        /\ \A i \in 1..Len(stored) : stored[i] \in StoredRows
    BY <1>1
  <2>2. stored' = [i \in 1..Len(stored) |->
                     IF i \in redaction[u].locked
                     THEN [stored[i] EXCEPT !.payload = RedactWebhookPayload(@),
                                          !.redacted = redaction[u].on]
                     ELSE stored[i]]
    BY <2>1 DEF UpdateDue
  <2>3. \A i \in 1..Len(stored) : stored'[i] \in StoredRows
    BY <1>4, <1>5, <2>1
  <2>4. stored' = [i \in 1..Len(stored) |-> stored'[i]]
    BY <2>2
  <2> QED
    BY <2>1, <2>3, <2>4
<1>7. /\ redaction' \in [Redactions -> RunStates]
      /\ redaction'[u].cutoff = pass.cutoff /\ redaction'[u].on = pass.on
      /\ redaction'[u].locked = {}
      /\ redaction'[u].skipped = pass.skipped
      /\ redaction'[u].pc = AfterBatch(u) /\ AfterBatch(u) \in {"drained", "select", "incomplete"}
      /\ AfterBatch(u) = "drained" => Cardinality(pass.locked) < BatchSize
      /\ \A v \in Redactions : v # u => redaction'[v] = redaction[v]
  <2>1. /\ AfterBatch(u) \in {"drained", "select", "incomplete"}
        /\ AfterBatch(u) = "drained" => Cardinality(pass.locked) < BatchSize
    BY DEF AfterBatch
  <2>2. redaction' = [redaction EXCEPT ![u].pc = AfterBatch(u), ![u].locked = {}]
    BY DEF UpdateDue
  <2> QED
    BY <1>1, <2>1, <2>2 DEF RunStates
<1>8. RecordsTyped'
  BY <1>1, <1>6, <1>7 DEF RecordsTyped, RecordsIInv
<1>9. \A c \in Int : DueRows(c)' = DueRows(c) \ pass.locked
  <2>1. \A i \in pass.locked : stored'[i].redacted # None
    BY <1>2, <1>5, RecordsConstants
  <2> QED
    BY <1>4, <2>1 DEF DueRows
<1> HIDE DEF pass
<1>10. \A v \in Redactions : redaction[v].cutoff \in Int /\ redaction'[v].cutoff \in Int
  BY <1>1, <1>7 DEF RunStates
<1>11. LocksApart'
  <2>1. \A v, x \in Redactions : v # x => redaction'[v].locked \cap redaction'[x].locked = {}
    BY <1>7 DEF RecordsIInv, LocksApart
  <2>2. ASSUME NEW v \in Redactions
        PROVE  redaction'[v].locked \subseteq
                 IF redaction'[v].pc = "update" THEN DueRows(redaction[v].cutoff)' ELSE {}
    <3>1. CASE v = u
      BY <1>7, <3>1
    <3>2. CASE v # u
      <4>1. redaction'[v] = redaction[v] /\ redaction[v].locked \cap pass.locked = {}
        BY <1>7, <3>2 DEF RecordsIInv, LocksApart, pass
      <4>2. DueRows(redaction[v].cutoff)' = DueRows(redaction[v].cutoff) \ pass.locked
        BY <1>9, <1>10, <4>1
      <4> QED
        BY <4>1, <4>2 DEF RecordsIInv, LocksApart
    <3> QED
      BY <3>1, <3>2
  <2> QED
    BY <2>1, <2>2 DEF LocksApart
<1>12. CutoffsAreOld'
  BY <1>1, <1>2, <1>7 DEF RecordsIInv, CutoffsAreOld
<1>13. ShortBatches' /\ DrainedIsDrained'
  <2>1. ASSUME NEW v \in Redactions
        PROVE  /\ redaction'[v].pc = "update" /\ Cardinality(redaction'[v].locked) < BatchSize =>
                    DueRows(redaction[v].cutoff)' \subseteq
                       redaction'[v].locked \cup redaction'[v].skipped
               /\ redaction'[v].pc = "drained" =>
                    DueRows(redaction[v].cutoff)' \subseteq redaction'[v].skipped
    <3>1. DueRows(redaction[v].cutoff)' = DueRows(redaction[v].cutoff) \ pass.locked
      BY <1>7, <1>9, <1>10 DEF pass
    <3>2. CASE v = u
      BY <1>1, <1>7, <3>1, <3>2 DEF RecordsIInv, ShortBatches, pass
    <3>3. CASE v # u
      BY <1>7, <3>1, <3>3 DEF RecordsIInv, ShortBatches, DrainedIsDrained
    <3> QED
      BY <3>2, <3>3
  <2> QED
    BY <2>1 DEF ShortBatches, DrainedIsDrained
<1>14. BodiesAreWholeOrNarrow'
  <2>1. ASSUME NEW i \in DOMAIN stored'
        PROVE  stored'[i].payload = IF stored'[i].redacted = None THEN original[i]
                                    ELSE Narrowed(original[i])
    <3>1. CASE i \in pass.locked
      <4>1. stored'[i].redacted # None
        BY <1>2, <1>5, <3>1, RecordsConstants
      <4> QED
        BY <1>5, <3>1, <4>1
    <3>2. CASE i \notin pass.locked
      BY <1>4, <3>2 DEF RecordsIInv, BodiesAreWholeOrNarrow, Narrowed
    <3> QED
      BY <3>1, <3>2
  <2> QED
    BY <1>1, <2>1 DEF BodiesAreWholeOrNarrow, Narrowed
<1>15. NothingIsNarrowedEarly'
  <2>1. ASSUME NEW i \in pass.locked PROVE stored'[i].redacted - stored'[i].received >= MinRetention
    <3>1. /\ stored[i].received \in Int /\ pass.cutoff \in Int /\ MinRetention \in Int
          /\ stored[i].received <= pass.cutoff
      BY <1>3, <1>10, RecordsConstants DEF StoredRows, pass
    <3> QED
      BY <1>1, <1>2, <1>5, <3>1
  <2> QED
    BY <1>4, <2>1 DEF RecordsIInv, NothingIsNarrowedEarly
<1> QED
  BY <1>8, <1>11, <1>12, <1>13, <1>14, <1>15 DEF RecordsIInv

LEMMA RecordsNextKeeps == ASSUME RecordsIInv, [RecordsNext]_recordVars PROVE RecordsIInv'
<1>1. CASE UNCHANGED recordVars
  BY <1>1 DEF recordVars, RecordsIInv, RecordsTyped, LocksApart, CutoffsAreOld, ShortBatches,
              DueRows, BodiesAreWholeOrNarrow, NothingIsNarrowedEarly, DrainedIsDrained
<1> QED
  BY <1>1, RejectKeeps, StoreKeeps, StartKeeps, SelectKeeps, UpdateKeeps, StopKeeps,
     TodayEndsKeeps DEF RecordsNext

\* The invariant holds in every reachable state.
THEOREM RecordsInvariance == RecordsSpec => []RecordsIInv
<1>1. RecordsInit => RecordsIInv
  BY RecordsInitHolds
<1>2. RecordsIInv /\ [RecordsNext]_recordVars => RecordsIInv'
  BY RecordsNextKeeps
<1> QED
  BY <1>1, <1>2, PTL DEF RecordsSpec

\* A stored body is whole until it is redacted and narrow afterwards, never before the
\* shortest retention, and a run that says so has drained the backlog (WebhookRecords),
\* for any number of overlapping and interrupted runs.
THEOREM RetentionHoldsAlways == RecordsSpec => []RetentionHolds
<1>1. RecordsIInv => RetentionHolds
  <2> SUFFICES ASSUME RecordsIInv PROVE RecordsTypeOK
    BY DEF RetentionHolds, RecordsIInv
  <2>1. \A i \in DOMAIN stored : stored[i] \in StoredRows
    BY DEF RecordsIInv, RecordsTyped
  <2>2. \A i \in DOMAIN rejections : rejections[i] \in RejectionRows
    BY DEF RecordsIInv, RecordsTyped
  <2>3. \A u \in Redactions : redaction[u] \in RunStates /\ redaction[u].locked \subseteq DOMAIN stored
    BY DEF RecordsIInv, RecordsTyped, LocksApart, DueRows
  <2> QED
    BY <2>1, <2>2, <2>3 DEF RecordsIInv, RecordsTyped, RecordsTypeOK, StoredRows, RejectionRows,
                           RunStates
<1> QED
  BY <1>1, RecordsInvariance, PTL

\* A narrowed row is never touched again (WebhookRecords, UpdateDue).
THEOREM RedactionIsFinalAlways == RecordsSpec => RedactionIsFinal
<1>1. ASSUME RecordsIInv, [RecordsNext]_recordVars PROVE [RedactionStep]_recordVars
  <2>1. stored \in Seq(StoredRows)
    BY <1>1 DEF RecordsIInv, RecordsTyped
  <2>2. CASE stored' = stored
    BY <2>2 DEF RedactionStep
  <2>3. ASSUME NEW q, NEW body, StoreBody(q, body) PROVE RedactionStep
    BY <2>1, <2>3 DEF StoreBody, RedactionStep
  <2>4. ASSUME NEW u \in Redactions, UpdateDue(u) PROVE RedactionStep
    <3>1. \A i \in redaction[u].locked : stored[i].redacted = None
      BY <1>1, <2>4 DEF UpdateDue, RecordsIInv, LocksApart, DueRows
    <3> QED
      BY <2>4, <3>1 DEF UpdateDue, RedactionStep
  <2> QED
    BY <1>1, <2>2, <2>3, <2>4 DEF RecordsNext, recordVars, RejectRequest, StartRedaction, SelectDue,
                                  StopRedaction, TodayEnds
<1> QED
  BY <1>1, RecordsInvariance, PTL DEF RecordsSpec, RedactionIsFinal

---------------------------------------------------------------------------
(***************************************************************************)
(* The detection of duplicates keeps what it promises (ReconciliationHolds)*)
(* for every list of dimensions, every window and any number of runs that  *)
(* overlap or stop half-way.                                               *)
(***************************************************************************)

--------------------------------------------------------------------------
(* Ranks: how many members of a finite set of numbers are below one.       *)

Rank(T, x) == Cardinality(Below(T, x))

LEMMA RankIsBelow ==
    ASSUME NEW T, T \subseteq Nat, IsFiniteSet(T), NEW x \in T
    PROVE  IsFiniteSet(Below(T, x)) /\ Rank(T, x) \in Nat /\ Rank(T, x) < Cardinality(T)
<1>1. Below(T, x) \subseteq T /\ x \notin Below(T, x)
  BY DEF Below
<1>2. /\ IsFiniteSet(Below(T, x)) /\ Rank(T, x) <= Cardinality(T)
      /\ Rank(T, x) # Cardinality(T)
  BY <1>1, FS_Subset DEF Rank
<1>3. Rank(T, x) \in Nat /\ Cardinality(T) \in Nat
  BY <1>2, FS_CardinalityType DEF Rank
<1> QED BY <1>2, <1>3

LEMMA RankGrows ==
    ASSUME NEW T, T \subseteq Nat, IsFiniteSet(T), NEW x \in T, NEW y \in T
    PROVE  x < y <=> Rank(T, x) < Rank(T, y)
<1>1. ASSUME NEW a \in T, NEW b \in T, a < b
      PROVE  Rank(T, a) < Rank(T, b)
  <2>1. Below(T, a) \subseteq Below(T, b) /\ a \in Below(T, b) /\ a \notin Below(T, a)
    <3>1. a \in Nat /\ b \in Nat /\ \A z \in T : z \in Nat
      OBVIOUS
    <3>2. ~(a < a) /\ \A z \in T : z < a => z < b
      BY <1>1, <3>1
    <3> QED BY <1>1, <3>2 DEF Below
  <2>2. IsFiniteSet(Below(T, b)) /\ Rank(T, a) \in Nat /\ Rank(T, b) \in Nat
    BY RankIsBelow
  <2>3. Rank(T, a) <= Rank(T, b) /\ Rank(T, a) # Rank(T, b)
    BY <2>1, <2>2, FS_Subset DEF Rank
  <2> QED BY <2>2, <2>3
<1>2. Rank(T, x) \in Nat /\ Rank(T, y) \in Nat
  BY RankIsBelow
<1>3. CASE x < y
  BY <1>1, <1>3
<1>4. CASE y < x
  BY <1>1, <1>2, <1>4
<1>5. CASE x = y
  BY <1>2, <1>5
<1> QED BY <1>3, <1>4, <1>5

\* Every rank below the size of the set is somebody's.
LEMMA RankIsTaken ==
    ASSUME NEW T, T \subseteq Nat, IsFiniteSet(T), NEW n \in Nat, n < Cardinality(T)
    PROVE  \E x \in T : Rank(T, x) = n
<1> DEFINE Free == {m \in Nat : m < Cardinality(T) /\ \A x \in T : Rank(T, x) # m}
<1> SUFFICES ASSUME Free # {} PROVE FALSE
  OBVIOUS
<1>1. PICK m \in Free : \A k \in Free : m <= k
  BY LeastOf
<1>2. m \in Nat /\ m < Cardinality(T) /\ Cardinality(T) \in Nat
  BY FS_CardinalityType
<1>3. \A x \in T : Rank(T, x) # m
  OBVIOUS
<1>4. CASE m = 0
  <2>1. T # {}
    BY <1>2, FS_EmptySet
  <2>2. PICK x \in T : \A y \in T : x <= y
    BY <2>1, LeastOf
  <2>3. Below(T, x) = {}
    <3>1. \A y \in T : ~(y < x)
      BY <2>2
    <3> QED BY <3>1 DEF Below
  <2> QED BY <1>3, <1>4, <2>3, FS_EmptySet DEF Rank
<1>5. CASE m # 0
  <2>1. m - 1 \in Nat /\ m - 1 < Cardinality(T) /\ m - 1 \notin Free
    BY <1>1, <1>2, <1>5
  <2>2. PICK x \in T : Rank(T, x) = m - 1
    BY <2>1
  <2> DEFINE above == {y \in T : x < y}
  <2>3. IsFiniteSet(Below(T, x) \cup {x}) /\ Cardinality(Below(T, x) \cup {x}) = m
    <3>1. x \notin Below(T, x) /\ IsFiniteSet(Below(T, x))
      <4>1. x \in Nat /\ ~(x < x)
        OBVIOUS
      <4> QED BY <4>1, RankIsBelow DEF Below
    <3>2. Cardinality(Below(T, x) \cup {x}) = Rank(T, x) + 1
      BY <3>1, FS_AddElement DEF Rank
    <3> QED BY <1>2, <2>2, <3>1, <3>2, FS_AddElement
  <2>4. above # {}
    <3> SUFFICES ASSUME above = {} PROVE FALSE
      OBVIOUS
    <3>1. \A y \in T : y < x \/ y = x
      OBVIOUS
    <3>2. T = Below(T, x) \cup {x}
      BY <3>1 DEF Below
    <3> QED BY <1>2, <2>3, <3>2
  <2>5. PICK y \in above : \A z \in above : y <= z
    BY <2>4, LeastOf
  <2>6. Below(T, y) = Below(T, x) \cup {x}
    <3>1. ASSUME NEW z \in T PROVE z < y <=> z < x \/ z = x
      <4>1. z \in Nat /\ y \in Nat /\ x \in Nat /\ x < y
        OBVIOUS
      <4>2. x < z => y <= z
        BY <2>5
      <4> QED BY <4>1, <4>2
    <3> QED BY <3>1 DEF Below
  <2> QED BY <1>3, <2>3, <2>5, <2>6 DEF Rank
<1> QED BY <1>4, <1>5

\* Of a set the first few are as many as the limit allows.
LEMMA FirstFewAre ==
    ASSUME NEW T, T \subseteq Nat, IsFiniteSet(T), NEW limit \in Nat
    PROVE  /\ FirstFew(T, limit) \subseteq T
           /\ IsFiniteSet(FirstFew(T, limit))
           /\ Cardinality(FirstFew(T, limit))
                = IF Cardinality(T) < limit THEN Cardinality(T) ELSE limit
           /\ Cardinality(T) > limit <=> FirstFew(T, limit) # T
           /\ \A x \in FirstFew(T, limit), y \in T \ FirstFew(T, limit) : x < y
<1>1. FirstFew(T, limit) = {x \in T : Rank(T, x) < limit}
  BY DEF FirstFew, Rank
<1>2. Cardinality(T) \in Nat
  BY FS_CardinalityType
<1>3. FirstFew(T, limit) \subseteq T /\ IsFiniteSet(FirstFew(T, limit))
  BY <1>1, FS_Subset
<1>4. \A x \in FirstFew(T, limit), y \in T \ FirstFew(T, limit) : x < y
  <2> SUFFICES ASSUME NEW x \in FirstFew(T, limit), NEW y \in T \ FirstFew(T, limit)
               PROVE  x < y
    OBVIOUS
  <2>1. x \in T /\ Rank(T, x) < limit /\ ~(Rank(T, y) < limit)
    BY <1>1
  <2>2. Rank(T, x) \in Nat /\ Rank(T, y) \in Nat
    BY <2>1, RankIsBelow
  <2>3. Rank(T, x) < Rank(T, y)
    BY <2>1, <2>2
  <2> QED BY <2>1, <2>3, RankGrows
<1>5. CASE Cardinality(T) <= limit
  <2>1. \A x \in T : Rank(T, x) < limit
    <3> SUFFICES ASSUME NEW x \in T PROVE Rank(T, x) < limit
      OBVIOUS
    <3>1. Rank(T, x) \in Nat /\ Rank(T, x) < Cardinality(T)
      BY RankIsBelow
    <3> QED BY <1>2, <1>5, <3>1
  <2>2. FirstFew(T, limit) = T
    BY <1>1, <2>1
  <2> QED BY <1>2, <1>3, <1>4, <1>5, <2>2
<1>6. CASE Cardinality(T) > limit
  <2>1. PICK x \in T : Rank(T, x) = limit
    BY <1>2, <1>6, RankIsTaken
  <2>2. \A y \in T : Rank(T, y) < limit <=> y < x
    BY <2>1, RankGrows
  <2>3. FirstFew(T, limit) = Below(T, x)
    BY <1>1, <2>2 DEF Below
  <2>4. x \notin FirstFew(T, limit)
    BY <1>1, <2>1
  <2> QED BY <1>2, <1>3, <1>4, <1>6, <2>1, <2>3, <2>4 DEF Rank
<1> QED BY <1>2, <1>5, <1>6

\* Counting a set off by rank names every member once.
LEMMA CountedOff ==
    ASSUME NEW T, T \subseteq Nat, IsFiniteSet(T)
    PROVE  /\ \A i \in 1..Cardinality(T) :
                (CHOOSE x \in T : Cardinality(Below(T, x)) = i - 1) \in T
           /\ \A v \in T : \E i \in 1..Cardinality(T) :
                (CHOOSE x \in T : Cardinality(Below(T, x)) = i - 1) = v
<1>1. Cardinality(T) \in Nat
  BY FS_CardinalityType
<1>2. ASSUME NEW i \in 1..Cardinality(T)
      PROVE  \E x \in T : Cardinality(Below(T, x)) = i - 1
  <2>1. i - 1 \in Nat /\ i - 1 < Cardinality(T)
    BY <1>1
  <2> QED BY <2>1, RankIsTaken DEF Rank
<1>3. ASSUME NEW v \in T
      PROVE  \E i \in 1..Cardinality(T) :
                (CHOOSE x \in T : Cardinality(Below(T, x)) = i - 1) = v
  <2> DEFINE i == Rank(T, v) + 1
             w == CHOOSE x \in T : Cardinality(Below(T, x)) = i - 1
  <2>1. Rank(T, v) \in Nat /\ Rank(T, v) < Cardinality(T)
    BY RankIsBelow
  <2>2. i \in 1..Cardinality(T) /\ i - 1 = Rank(T, v)
    BY <1>1, <2>1
  <2>3. w \in T /\ Cardinality(Below(T, w)) = i - 1
    BY <1>2, <2>2
  <2>4. Rank(T, w) = Rank(T, v)
    BY <2>2, <2>3 DEF Rank
  <2> HIDE DEF w
  <2>5. w = v
    <3>1. ~(Rank(T, w) < Rank(T, v)) /\ ~(Rank(T, v) < Rank(T, w))
      BY <2>1, <2>4
    <3>2. ~(w < v) /\ ~(v < w)
      BY <2>3, <3>1, RankGrows
    <3>3. w \in Nat /\ v \in Nat
      BY <2>3
    <3> QED BY <3>2, <3>3
  <2> QED BY <2>2, <2>5 DEF w
<1> QED BY <1>2, <1>3

--------------------------------------------------------------------------
(* The inductive invariant.                                                *)

Rows == [table : Tables, keys : UNION {KeysOf(t) : t \in Tables}, createdAt : 0..MaxTick]
RecordTypes == {RecordTypeOf(d) : d \in Dimensions}
GroupSet ==
    [dimension : Dimensions, recordType : RecordTypes, duplicateKey : Dimensions \X Nat,
     rawKey : Nat, recordCount : Nat, rows : SUBSET Nat, sampleTruncated : BOOLEAN,
     seen : Nat, window : {WindowOf(r) : r \in Scans}]
CaseKeys == [recordType : RecordTypes, duplicateKey : Dimensions \X Nat]
CaseSet == [status : CaseStatuses, recordCount : Nat, snapshot : GroupSet]
RunSet ==
    [pc : {"idle", "scan", "persist", "done", "dead"}, next : Nat, groups : Seq(GroupSet),
     seen : Seq(Nat), created : SUBSET CaseKeys, updated : SUBSET CaseKeys]

ScanTyped ==
    /\ tick \in 0..MaxTick
    /\ records \in Seq(Rows)
    /\ Len(records) <= MaxRecords
    /\ cases \in [DOMAIN cases -> CaseSet]
    /\ DOMAIN cases \subseteq CaseKeys
    /\ triage \in Seq([key : CaseKeys, status : CaseStatuses])
    /\ scan \in [Scans -> RunSet]

\* A group tells what was in the window when its dimension was scanned.
TrueGroup(g) ==
    LET all == Matching(g.dimension, g.rawKey, g.window, g.seen)
    IN  /\ g.seen <= Len(records)
        /\ g.duplicateKey = <<g.dimension, g.rawKey>>
        /\ g.recordType = RecordTypeOf(g.dimension)
        /\ g.rawKey \in ValuesOf(g.dimension)
        /\ g.recordCount = Cardinality(all) /\ g.recordCount > 1
        /\ g.rows \subseteq all
        /\ g.sampleTruncated <=> g.rows # all
        /\ \A i \in g.rows, j \in all \ g.rows : i < j

GroupsIInv == \A r \in Scans : \A g \in Range(scan[r].groups) : TrueGroup(g)

CasesIInv ==
    \A k \in DOMAIN cases :
        \E g \in {cases[k].snapshot} :
            TrueGroup(g) /\ k = CaseKey(g) /\ cases[k].recordCount = g.recordCount

\* The values of a dimension that collided when the first rows were there, and those of them
\* that a run has a group for.
There(d, window, seen) ==
    {v \in ValuesOf(d) : Cardinality(Matching(d, v, window, seen)) > 1}
Named(s, d) == {v \in ValuesOf(d) : \E g \in Range(s.groups) : g.dimension = d /\ g.rawKey = v}

\* What a run has written so far.
Written(s) == {CaseKey(s.groups[j]) : j \in 1..(s.next - 1)}

\* A run goes through its dimensions and then through its groups.
RunSteps(s) ==
    /\ s.pc = "idle" => s.next = 1 /\ s.groups = << >> /\ s.seen = << >>
    /\ s.pc = "scan" => s.next \in DOMAIN DUPLICATE_DIMENSIONS /\ Len(s.seen) = s.next - 1
    /\ s.pc \in {"idle", "scan"} => s.created = {} /\ s.updated = {}
    /\ s.pc \in {"persist", "done"} =>
         /\ Len(s.seen) = Len(DUPLICATE_DIMENSIONS)
         /\ s.next \in 1..(Len(s.groups) + 1)
         /\ s.created \cup s.updated = Written(s)
    /\ s.pc = "done" => s.next = Len(s.groups) + 1

\* Of each dimension it has scanned, a run has the groups there were, as far as they go.
RunFinds(r, s) ==
    /\ Len(s.seen) <= Len(DUPLICATE_DIMENSIONS)
    /\ \A i \in DOMAIN s.seen :
          /\ s.seen[i] <= Len(records)
          /\ Named(s, DUPLICATE_DIMENSIONS[i])
               = FirstFew(There(DUPLICATE_DIMENSIONS[i], WindowOf(r), s.seen[i]), MaxGroups)
    /\ \A g \in Range(s.groups) : \E i \in DOMAIN s.seen : g.dimension = DUPLICATE_DIMENSIONS[i]

RunsIInv ==
    \A r \in Scans : \E s \in {scan[r]} : RunSteps(s) /\ RunFinds(r, s)

\* What runs report there is, and one run alone made it.
ReportsIInv ==
    /\ \A r \in Scans : scan[r].created \subseteq DOMAIN cases /\ scan[r].updated \subseteq DOMAIN cases
    /\ \A k \in DOMAIN cases : \E r \in Scans : {q \in Scans : k \in scan[q].created} = {r}

\* Humans move what there is.
TriageIInv ==
    /\ \A i \in DOMAIN triage : triage[i].key \in DOMAIN cases
    /\ TriageIsKept

ScanIInv ==
    ScanTyped /\ GroupsIInv /\ CasesIInv /\ RunsIInv /\ ReportsIInv /\ TriageIInv

--------------------------------------------------------------------------
(* Detection.                                                              *)

LEMMA MatchingIsFinite ==
    ASSUME NEW d, NEW v, NEW w, NEW n \in Nat
    PROVE  /\ Matching(d, v, w, n) \subseteq 1..n
           /\ IsFiniteSet(Matching(d, v, w, n))
           /\ Cardinality(Matching(d, v, w, n)) \in Nat
<1>1. Matching(d, v, w, n) \subseteq 1..n /\ IsFiniteSet(1..n)
  BY FS_Interval DEF Matching
<1> QED BY <1>1, FS_Subset, FS_CardinalityType

\* Only values that some row has collide, and rows are finitely many.
LEMMA ThereIsFinite ==
    ASSUME NEW d \in Dimensions, NEW w, NEW n \in Nat
    PROVE  There(d, w, n) \subseteq Nat /\ IsFiniteSet(There(d, w, n))
<1> DEFINE value == [i \in 1..n |-> records[i].keys[d]]
           held == {value[i] : i \in 1..n}
<1>1. There(d, w, n) \subseteq Nat
  BY ReconciliationConstants DEF There
<1>2. value \in Surjection(1..n, held)
  BY DEF Surjection
<1>3. IsFiniteSet(held)
  <2>1. IsFiniteSet(1..n)
    BY FS_Interval
  <2> HIDE DEF value, held
  <2> QED
    BY <1>2, <2>1, FS_Surjection
<1>4. There(d, w, n) \subseteq held
  <2> SUFFICES ASSUME NEW v \in There(d, w, n) PROVE v \in held
    OBVIOUS
  <2>1. Matching(d, v, w, n) # {}
    <3> SUFFICES ASSUME Matching(d, v, w, n) = {} PROVE FALSE
      OBVIOUS
    <3>1. Cardinality(Matching(d, v, w, n)) = 0
      BY FS_EmptySet
    <3> QED BY <3>1 DEF There
  <2>2. PICK i \in 1..n : records[i].keys[d] = v
    BY <2>1 DEF Matching
  <2>3. value[i] = v
    BY <2>2
  <2> QED BY <2>3
<1> QED BY <1>1, <1>3, <1>4, FS_Subset

LEMMA PartitionIsMatching ==
    ASSUME ScanTyped, NEW d, NEW v, NEW w
    PROVE  Partition(d, v, w) = Matching(d, v, w, Len(records))
<1>1. DOMAIN records = 1..Len(records)
  BY DEF ScanTyped
<1> QED BY <1>1 DEF Partition, Matching, InWindow

\* A group is true when it is made.
LEMMA GroupIsTrue ==
    ASSUME ScanTyped, NEW r \in Scans, NEW d \in Dimensions,
           NEW v \in There(d, WindowOf(r), Len(records))
    PROVE  LET g == Group(d, v, WindowOf(r))
           IN  g \in GroupSet /\ TrueGroup(g) /\ g.dimension = d /\ g.rawKey = v
<1> DEFINE w == WindowOf(r)
           all == Matching(d, v, w, Len(records))
           g == Group(d, v, w)
<1>1. Len(records) \in Nat
  BY DEF ScanTyped
<1>2. all \subseteq Nat /\ IsFiniteSet(all) /\ Cardinality(all) \in Nat
  BY <1>1, MatchingIsFinite
<1>3. MaxRowsPerGroup \in Nat
  BY ReconciliationConstants
<1>4. /\ FirstFew(all, MaxRowsPerGroup) \subseteq all
      /\ Cardinality(all) > MaxRowsPerGroup <=> FirstFew(all, MaxRowsPerGroup) # all
      /\ \A x \in FirstFew(all, MaxRowsPerGroup), y \in all \ FirstFew(all, MaxRowsPerGroup) :
            x < y
  BY <1>2, <1>3, FirstFewAre
<1>5. v \in ValuesOf(d) /\ v \in Nat /\ Cardinality(all) > 1
  BY ReconciliationConstants DEF There
<1>6. g = [dimension |-> d, recordType |-> RecordTypeOf(d), duplicateKey |-> <<d, v>>,
           rawKey |-> v, recordCount |-> Cardinality(all),
           rows |-> FirstFew(all, MaxRowsPerGroup),
           sampleTruncated |-> (Cardinality(all) > MaxRowsPerGroup),
           seen |-> Len(records), window |-> w]
  BY PartitionIsMatching DEF Group, QualifyKey
<1> HIDE DEF all, g, w
<1>7. g \in GroupSet
  <2>1. w \in {WindowOf(q) : q \in Scans} /\ RecordTypeOf(d) \in RecordTypes
    BY DEF w, RecordTypes
  <2>2. FirstFew(all, MaxRowsPerGroup) \in SUBSET Nat
    BY <1>2, <1>4
  <2> QED BY <1>1, <1>2, <1>5, <1>6, <2>1, <2>2 DEF GroupSet
<1>8. /\ g.dimension = d /\ g.rawKey = v /\ g.window = w /\ g.seen = Len(records)
      /\ g.duplicateKey = <<d, v>> /\ g.recordType = RecordTypeOf(d)
      /\ g.recordCount = Cardinality(all) /\ g.rows = FirstFew(all, MaxRowsPerGroup)
      /\ g.sampleTruncated <=> Cardinality(all) > MaxRowsPerGroup
  BY <1>6
<1>9. TrueGroup(g)
  <2>1. all = Matching(g.dimension, g.rawKey, g.window, g.seen)
    BY <1>8 DEF all
  <2> QED BY <1>1, <1>4, <1>5, <1>8, <2>1 DEF TrueGroup
<1> QED BY <1>7, <1>8, <1>9 DEF g, w

\* One query finds the groups there are, as many as the limit allows.
LEMMA DetectFinds ==
    ASSUME ScanTyped, NEW r \in Scans, NEW d \in Dimensions
    PROVE  LET detected == Detect(d, WindowOf(r))
           IN  /\ detected \in Seq(GroupSet)
               /\ \A g \in Range(detected) : TrueGroup(g) /\ g.dimension = d
               /\ {g.rawKey : g \in Range(detected)}
                    = FirstFew(There(d, WindowOf(r), Len(records)), MaxGroups)
<1> DEFINE w == WindowOf(r)
           there == There(d, w, Len(records))
           kept == FirstFew(there, MaxGroups)
           pick(i) == CHOOSE v \in kept : Cardinality(Below(kept, v)) = i - 1
           detected == Detect(d, w)
<1>1. Len(records) \in Nat /\ MaxGroups \in Nat
  BY ReconciliationConstants DEF ScanTyped
<1>2. there \subseteq Nat /\ IsFiniteSet(there)
  BY <1>1, ThereIsFinite
<1>3. kept \subseteq there /\ IsFiniteSet(kept)
  BY <1>1, <1>2, FirstFewAre
<1>4. Cardinality(kept) \in Nat
  BY <1>3, FS_CardinalityType
<1>5. /\ \A i \in 1..Cardinality(kept) : pick(i) \in kept
      /\ \A v \in kept : \E i \in 1..Cardinality(kept) : pick(i) = v
  BY <1>2, <1>3, CountedOff
<1>6. detected = [i \in 1..Cardinality(kept) |-> Group(d, pick(i), w)]
  <2>1. \A v : Partition(d, v, w) = Matching(d, v, w, Len(records))
    BY PartitionIsMatching
  <2>2. {v \in ValuesOf(d) : Cardinality(Partition(d, v, w)) > 1} = there
    BY <2>1 DEF There
  <2> DEFINE keys == {v \in ValuesOf(d) : Cardinality(Partition(d, v, w)) > 1}
             those == FirstFew(keys, MaxGroups)
  <2>3. detected = [i \in 1..Cardinality(those) |->
                   Group(d, CHOOSE v \in those : Cardinality(Below(those, v)) = i - 1, w)]
    BY DEF Detect
  <2>4. those = kept
    BY <2>2
  <2> HIDE DEF those, kept
  <2> QED BY <2>3, <2>4
<1> HIDE DEF pick, kept, there, detected
<1>7. \A i \in 1..Cardinality(kept) :
        /\ detected[i] \in GroupSet /\ TrueGroup(detected[i])
        /\ detected[i].dimension = d /\ detected[i].rawKey = pick(i)
  <2> SUFFICES ASSUME NEW i \in 1..Cardinality(kept)
               PROVE  /\ detected[i] \in GroupSet /\ TrueGroup(detected[i])
                      /\ detected[i].dimension = d /\ detected[i].rawKey = pick(i)
    OBVIOUS
  <2>1. pick(i) \in There(d, WindowOf(r), Len(records))
    BY <1>3, <1>5 DEF there
  <2>2. detected[i] = Group(d, pick(i), WindowOf(r))
    BY <1>6
  <2> QED BY <2>1, <2>2, GroupIsTrue
<1>8. detected \in Seq(GroupSet)
  BY <1>4, <1>6, <1>7
<1>9. \A g \in Range(detected) : \E i \in 1..Cardinality(kept) : g = detected[i]
  BY <1>6 DEF Range
<1>10. \A g \in Range(detected) : TrueGroup(g) /\ g.dimension = d /\ g.rawKey \in kept
  BY <1>5, <1>7, <1>9
<1>11. \A v \in kept : \E g \in Range(detected) : g.rawKey = v
  <2> SUFFICES ASSUME NEW v \in kept PROVE \E g \in Range(detected) : g.rawKey = v
    OBVIOUS
  <2>1. PICK i \in 1..Cardinality(kept) : pick(i) = v
    BY <1>5
  <2>2. detected[i] \in Range(detected) /\ detected[i].rawKey = v
    BY <1>6, <1>7, <2>1 DEF Range
  <2> QED BY <2>2
<1>12. {g.rawKey : g \in Range(detected)} = kept
  BY <1>10, <1>11
<1> QED BY <1>8, <1>10, <1>12 DEF detected, kept, there

--------------------------------------------------------------------------
(* What has been found stays true.                                         *)

Grows ==
    /\ Len(records) \in Nat /\ Len(records') \in Nat /\ Len(records) <= Len(records')
    /\ \A i \in 1..Len(records) : records'[i] = records[i]

LEMMA MatchingStays ==
    ASSUME Grows, NEW d, NEW v, NEW w, NEW n \in Nat, n <= Len(records)
    PROVE  Matching(d, v, w, n)' = Matching(d, v, w, n)
<1>1. \A i \in 1..n : records'[i] = records[i]
  BY DEF Grows
<1> QED BY <1>1 DEF Matching

LEMMA TruthStays ==
    ASSUME Grows, NEW g \in GroupSet, TrueGroup(g)
    PROVE  TrueGroup(g)'
<1>1. g.seen \in Nat /\ g.seen <= Len(records)
  BY DEF TrueGroup, GroupSet
<1>2. Matching(g.dimension, g.rawKey, g.window, g.seen)'
        = Matching(g.dimension, g.rawKey, g.window, g.seen)
  BY <1>1, MatchingStays
<1>3. g.seen <= Len(records)'
  BY <1>1 DEF Grows
<1> QED BY <1>2, <1>3 DEF TrueGroup

LEMMA FindingsStay ==
    ASSUME Grows, NEW r \in Scans, NEW s \in RunSet, RunFinds(r, s)
    PROVE  RunFinds(r, s)'
<1> SUFFICES ASSUME NEW i \in DOMAIN s.seen
             PROVE  /\ s.seen[i] <= Len(records)'
                    /\ Named(s, DUPLICATE_DIMENSIONS[i])
                         = FirstFew(There(DUPLICATE_DIMENSIONS[i], WindowOf(r), s.seen[i])', MaxGroups)
  BY DEF RunFinds
<1> DEFINE d == DUPLICATE_DIMENSIONS[i]
           n == s.seen[i]
<1>1. n \in Nat /\ n <= Len(records)
  BY DEF RunSet, RunFinds
<1>2. \A v : Matching(d, v, WindowOf(r), n)' = Matching(d, v, WindowOf(r), n)
  BY <1>1, MatchingStays
<1>3. There(d, WindowOf(r), n)' = There(d, WindowOf(r), n)
  BY <1>2 DEF There
<1>4. n <= Len(records)'
  BY <1>1 DEF Grows
<1> QED BY <1>3, <1>4 DEF RunFinds

LEMMA CasesStay ==
    ASSUME ScanTyped, CasesIInv, Grows, UNCHANGED cases
    PROVE  CasesIInv'
<1> SUFFICES ASSUME NEW k \in DOMAIN cases
             PROVE  \E g \in {cases[k].snapshot} :
                      TrueGroup(g)' /\ k = CaseKey(g) /\ cases[k].recordCount = g.recordCount
  BY DEF CasesIInv
<1>1. cases[k].snapshot \in GroupSet
  BY DEF ScanTyped, CaseSet
<1>2. PICK g \in {cases[k].snapshot} :
         TrueGroup(g) /\ k = CaseKey(g) /\ cases[k].recordCount = g.recordCount
  BY DEF CasesIInv
<1>3. TrueGroup(g)'
  BY <1>1, <1>2, TruthStays
<1> QED BY <1>2, <1>3

--------------------------------------------------------------------------
(* Each action keeps the invariant.                                        *)

LEMMA GroupOfRun ==
    ASSUME ScanTyped, NEW r \in Scans
    PROVE  scan[r] \in RunSet /\ Range(scan[r].groups) \subseteq GroupSet
<1>1. scan[r] \in RunSet
  BY DEF ScanTyped
<1>2. scan[r].groups \in Seq(GroupSet)
  BY <1>1 DEF RunSet
<1>3. Range(scan[r].groups) \subseteq GroupSet
  BY <1>2 DEF Range
<1> QED BY <1>1, <1>3

\* Rows that come in and time that passes change nothing that was found.
LEMMA WorldKeeps ==
    ASSUME ScanIInv,
           \/ \E t \in Tables : \E keys \in KeysOf(t) : InsertRow(t, keys)
           \/ TickPasses
    PROVE  ScanIInv'
<1> USE DEF ScanIInv
<1>1. UNCHANGED <<cases, triage, scan>>
  BY DEF InsertRow, TickPasses
<1>2. ScanTyped' /\ Grows
  <2>1. CASE TickPasses
    <3>1. tick' \in 0..MaxTick /\ records' = records /\ Len(records) \in Nat
      BY <2>1, ReconciliationConstants DEF ScanTyped, TickPasses
    <3> QED BY <1>1, <3>1 DEF ScanTyped, Grows
  <2>2. ASSUME NEW t \in Tables, NEW keys \in KeysOf(t), InsertRow(t, keys)
        PROVE  ScanTyped' /\ Grows
    <3> DEFINE row == [table |-> t, keys |-> keys, createdAt |-> tick]
    <3>1. row \in Rows
      BY DEF Rows, ScanTyped
    <3>2. /\ records \in Seq(Rows) /\ records' = Append(records, row) /\ tick' = tick
          /\ Len(records) < MaxRecords
      BY <2>2 DEF InsertRow, ScanTyped
    <3> HIDE DEF row
    <3>3. records' \in Seq(Rows) /\ Len(records') = Len(records) + 1 /\ Grows
      BY <3>1, <3>2 DEF Grows
    <3>4. Len(records') <= MaxRecords
      BY <3>2, <3>3, ReconciliationConstants
    <3> QED BY <1>1, <3>2, <3>3, <3>4 DEF ScanTyped
  <2> QED BY <2>1, <2>2
<1>3. GroupsIInv'
  <2> SUFFICES ASSUME NEW r \in Scans, NEW g \in Range(scan[r].groups)
               PROVE  TrueGroup(g)'
    BY <1>1 DEF GroupsIInv
  <2> QED BY <1>2, TruthStays, GroupOfRun DEF GroupsIInv
<1>4. CasesIInv'
  BY <1>1, <1>2, CasesStay
<1>5. RunsIInv'
  <2> SUFFICES ASSUME NEW r \in Scans
               PROVE  \E s \in {scan[r]} : RunSteps(s) /\ RunFinds(r, s)'
    BY <1>1 DEF RunsIInv
  <2>1. PICK s \in {scan[r]} : RunSteps(s) /\ RunFinds(r, s)
    BY DEF RunsIInv
  <2>2. RunFinds(r, s)'
    BY <1>2, <2>1, FindingsStay, GroupOfRun
  <2> QED BY <2>1, <2>2
<1>6. ReportsIInv' /\ TriageIInv'
  BY <1>1 DEF ReportsIInv, TriageIInv, TriageIsKept
<1> QED BY <1>2, <1>3, <1>4, <1>5, <1>6

\* What one run does leaves the others where they are.
LEMMA RunMoves ==
    ASSUME ScanIInv, NEW r \in Scans, NEW t \in RunSet,
           scan' = [scan EXCEPT ![r] = t], UNCHANGED records,
           RunSteps(t), RunFinds(r, t), \A g \in Range(t.groups) : TrueGroup(g)
    PROVE  /\ scan' \in [Scans -> RunSet]
           /\ RunsIInv'
           /\ GroupsIInv'
<1> USE DEF ScanIInv
<1>1. scan \in [Scans -> RunSet] /\ Grows
  BY DEF ScanTyped, Grows
<1>2. scan' \in [Scans -> RunSet] /\ scan'[r] = t
  BY <1>1
<1>3. \A q \in Scans \ {r} : scan'[q] = scan[q]
  BY <1>1
<1>4. ASSUME NEW q \in Scans, NEW s \in {scan'[q]}
      PROVE  RunSteps(s) /\ RunFinds(q, s)' /\ \A g \in Range(s.groups) : TrueGroup(g)'
  <2>1. s \in RunSet /\ Range(s.groups) \subseteq GroupSet
    <3>1. s \in RunSet
      BY <1>2
    <3> QED BY <3>1 DEF RunSet, Range
  <2>2. RunSteps(s) /\ RunFinds(q, s) /\ \A g \in Range(s.groups) : TrueGroup(g)
    <3>1. CASE q = r
      BY <1>2, <3>1
    <3>2. CASE q # r
      <4>1. s \in {scan[q]}
        BY <1>3, <3>2
      <4>2. \E z \in {scan[q]} : RunSteps(z) /\ RunFinds(q, z)
        BY DEF RunsIInv
      <4> QED BY <4>1, <4>2 DEF GroupsIInv
    <3> QED BY <3>1, <3>2
  <2> QED BY <1>1, <2>1, <2>2, TruthStays, FindingsStay
<1>5. RunsIInv'
  <2> SUFFICES ASSUME NEW q \in Scans
               PROVE  \E s \in {scan'[q]} : RunSteps(s) /\ RunFinds(q, s)'
    BY DEF RunsIInv
  <2> QED BY <1>4
<1>6. GroupsIInv'
  <2> SUFFICES ASSUME NEW q \in Scans, NEW g \in Range(scan'[q].groups)
               PROVE  TrueGroup(g)'
    BY DEF GroupsIInv
  <2> QED BY <1>4
<1> QED BY <1>2, <1>5, <1>6

\* A run that begins, ends or stops has found and written what it had.
LEMMA QuietMove ==
    ASSUME ScanIInv, NEW r \in Scans, NEW t \in RunSet,
           scan' = [scan EXCEPT ![r] = t], UNCHANGED <<tick, records, cases, triage>>,
           t.groups = scan[r].groups, t.seen = scan[r].seen,
           t.created = scan[r].created, t.updated = scan[r].updated,
           RunSteps(t)
    PROVE  ScanIInv'
<1> USE DEF ScanIInv
<1>1. PICK s \in {scan[r]} : RunSteps(s) /\ RunFinds(r, s)
  BY DEF RunsIInv
<1>2. RunFinds(r, t)
  <2>1. s.groups = t.groups /\ s.seen = t.seen
    BY <1>1
  <2>2. \A d : Named(t, d) = Named(s, d)
    BY <2>1 DEF Named
  <2> QED BY <1>1, <2>1, <2>2 DEF RunFinds
<1>3. \A g \in Range(t.groups) : TrueGroup(g)
  BY DEF GroupsIInv
<1>4. scan' \in [Scans -> RunSet] /\ RunsIInv' /\ GroupsIInv'
  BY <1>2, <1>3, RunMoves
<1>5. ScanTyped'
  BY <1>4 DEF ScanTyped
<1>6. \A q \in Scans : scan'[q].created = scan[q].created /\ scan'[q].updated = scan[q].updated
  BY DEF ScanTyped
<1>7. ReportsIInv'
  BY <1>6 DEF ReportsIInv
<1>8. TriageIInv'
  BY DEF TriageIInv, TriageIsKept
<1>9. CasesIInv'
  <2>1. Grows
    BY DEF Grows, ScanTyped
  <2> QED BY <2>1, CasesStay
<1> QED BY <1>4, <1>5, <1>7, <1>8, <1>9

LEMMA StepKeeps ==
    ASSUME ScanIInv, NEW r \in Scans, StartScan(r) \/ FinishScan(r) \/ StopScan(r)
    PROVE  ScanIInv'
<1> DEFINE to == IF StartScan(r) THEN "scan" ELSE IF FinishScan(r) THEN "done" ELSE "dead"
           t == [scan[r] EXCEPT !.pc = to]
<1>1. PICK s \in {scan[r]} : RunSteps(s) /\ RunFinds(r, s)
  BY DEF ScanIInv, RunsIInv
<1>2. s \in RunSet /\ s = scan[r]
  BY <1>1, GroupOfRun DEF ScanIInv
<1>3. scan' = [scan EXCEPT ![r] = t] /\ UNCHANGED <<tick, records, cases, triage>>
  BY DEF StartScan, FinishScan, StopScan
<1>4. /\ t \in RunSet /\ t.pc = to /\ t.next = s.next /\ t.groups = s.groups /\ t.seen = s.seen
      /\ t.created = s.created /\ t.updated = s.updated
  BY <1>2 DEF RunSet
<1>5. RunSteps(t)
  <2>1. CASE StartScan(r)
    <3>1. to = "scan" /\ s.pc = "idle"
      BY <1>2, <2>1 DEF StartScan
    <3>2. 1 \in DOMAIN DUPLICATE_DIMENSIONS
      BY ReconciliationConstants
    <3> QED BY <1>1, <1>2, <1>4, <3>1, <3>2 DEF RunSteps
  <2>2. CASE FinishScan(r)
    <3>1. to = "done" /\ s.pc = "persist" /\ s.next > Len(s.groups)
      BY <1>2, <2>2 DEF FinishScan, StartScan
    <3>2. s.next \in 1..(Len(s.groups) + 1) /\ Len(s.groups) \in Nat
      BY <1>1, <1>2, <3>1 DEF RunSteps, RunSet
    <3>3. s.next = Len(s.groups) + 1
      BY <3>1, <3>2
    <3>4. Written(t) = Written(s)
      BY <1>4 DEF Written
    <3> QED BY <1>1, <1>4, <3>1, <3>3, <3>4 DEF RunSteps
  <2>3. CASE ~StartScan(r) /\ ~FinishScan(r)
    BY <1>4, <2>3 DEF RunSteps
  <2> QED BY <2>1, <2>2, <2>3
<1> HIDE DEF t
<1> QED BY <1>2, <1>3, <1>4, <1>5, QuietMove

LEMMA RangeOfAppended ==
    ASSUME NEW S, NEW a \in Seq(S), NEW b \in Seq(S)
    PROVE  Range(a \o b) = Range(a) \cup Range(b)
<1>1. /\ a \o b \in Seq(S) /\ Len(a \o b) = Len(a) + Len(b)
      /\ Len(a) \in Nat /\ Len(b) \in Nat
      /\ \A i \in 1..(Len(a) + Len(b)) :
            (a \o b)[i] = IF i <= Len(a) THEN a[i] ELSE b[i - Len(a)]
  OBVIOUS
<1>2. ASSUME NEW x \in Range(a \o b) PROVE x \in Range(a) \cup Range(b)
  <2>1. PICK i \in 1..(Len(a) + Len(b)) : x = (a \o b)[i]
    BY <1>1 DEF Range
  <2>2. CASE i <= Len(a)
    BY <1>1, <2>1, <2>2 DEF Range
  <2>3. CASE i > Len(a)
    <3>1. i - Len(a) \in DOMAIN b /\ x = b[i - Len(a)]
      BY <1>1, <2>1, <2>3
    <3> QED BY <3>1 DEF Range
  <2> QED BY <1>1, <2>2, <2>3
<1>3. ASSUME NEW x \in Range(a) PROVE x \in Range(a \o b)
  <2>1. PICK i \in 1..Len(a) : x = a[i]
    BY DEF Range
  <2>2. i \in DOMAIN (a \o b) /\ x = (a \o b)[i]
    BY <1>1, <2>1
  <2> QED BY <2>2 DEF Range
<1>4. ASSUME NEW x \in Range(b) PROVE x \in Range(a \o b)
  <2>1. PICK i \in 1..Len(b) : x = b[i]
    BY DEF Range
  <2>2. i + Len(a) \in DOMAIN (a \o b) /\ x = (a \o b)[i + Len(a)]
    BY <1>1, <2>1
  <2> QED BY <2>2 DEF Range
<1> QED BY <1>2, <1>3, <1>4

\* A scan adds the groups of one more dimension.
LEMMA ScanKeeps ==
    ASSUME ScanIInv, NEW r \in Scans, ScanDimension(r)
    PROVE  ScanIInv'
<1> DEFINE n == scan[r].next
           d == DUPLICATE_DIMENSIONS[n]
           w == WindowOf(r)
           detected == Detect(d, w)
           last == Len(DUPLICATE_DIMENSIONS)
<1>1. PICK s \in {scan[r]} : RunSteps(s) /\ RunFinds(r, s)
  BY DEF ScanIInv, RunsIInv
<1>2. s = scan[r] /\ s \in RunSet /\ s.pc = "scan"
  BY <1>1, GroupOfRun DEF ScanIInv, ScanDimension
<1>3. /\ n \in 1..last /\ last \in Nat /\ Len(s.seen) = n - 1 /\ d \in Dimensions
      /\ s.created = {} /\ s.updated = {}
  <2>1. n \in DOMAIN DUPLICATE_DIMENSIONS /\ Len(s.seen) = n - 1
        /\ s.created = {} /\ s.updated = {}
    BY <1>1, <1>2 DEF RunSteps
  <2> QED BY <2>1, ReconciliationConstants DEF Range, Dimensions
<1>4. /\ detected \in Seq(GroupSet)
      /\ \A g \in Range(detected) : TrueGroup(g) /\ g.dimension = d
      /\ {g.rawKey : g \in Range(detected)} = FirstFew(There(d, w, Len(records)), MaxGroups)
  BY <1>3, DetectFinds DEF ScanIInv
<1>5. /\ s.groups \in Seq(GroupSet) /\ s.seen \in Seq(Nat) /\ s.next \in Nat
      /\ s.created \in SUBSET CaseKeys /\ s.updated \in SUBSET CaseKeys
  BY <1>2 DEF RunSet
<1>6. Len(records) \in Nat
  BY DEF ScanIInv, ScanTyped
<1> HIDE DEF detected, d, w
<1>7. PICK t : t = [scan[r] EXCEPT !.groups = @ \o detected, !.seen = Append(@, Len(records)),
                                   !.next = IF n < last THEN n + 1 ELSE 1,
                                   !.pc = IF n < last THEN "scan" ELSE "persist"]
  OBVIOUS
<1>8. /\ t.groups = s.groups \o detected /\ t.seen = Append(s.seen, Len(records))
      /\ t.next = IF n < last THEN n + 1 ELSE 1
      /\ t.pc = IF n < last THEN "scan" ELSE "persist"
      /\ t.created = s.created /\ t.updated = s.updated
      /\ t \in RunSet /\ scan' = [scan EXCEPT ![r] = t]
  <2>1. scan' = [scan EXCEPT ![r] = t]
    BY <1>7 DEF ScanDimension, detected, d, w
  <2>2. s.groups \o detected \in Seq(GroupSet) /\ Append(s.seen, Len(records)) \in Seq(Nat)
    BY <1>4, <1>5, <1>6
  <2>3. (IF n < last THEN n + 1 ELSE 1) \in Nat
    BY <1>3
  <2>4. t = [s EXCEPT !.groups = @ \o detected, !.seen = Append(@, Len(records)),
                      !.next = IF n < last THEN n + 1 ELSE 1,
                      !.pc = IF n < last THEN "scan" ELSE "persist"]
    BY <1>2, <1>7
  <2> HIDE DEF n, last
  <2>5. /\ t.groups = s.groups \o detected /\ t.seen = Append(s.seen, Len(records))
        /\ t.next = IF n < last THEN n + 1 ELSE 1
        /\ t.pc = IF n < last THEN "scan" ELSE "persist"
        /\ t.created = s.created /\ t.updated = s.updated
    BY <1>2, <2>4 DEF RunSet
  <2>6. t \in RunSet
    BY <1>2, <2>2, <2>3, <2>4 DEF RunSet
  <2> QED BY <2>1, <2>5, <2>6
<1>9. Range(t.groups) = Range(s.groups) \cup Range(detected)
  BY <1>4, <1>5, <1>8, RangeOfAppended
<1>10. /\ DOMAIN t.seen = 1..n /\ Len(t.seen) = n
       /\ \A i \in 1..(n - 1) : t.seen[i] = s.seen[i]
       /\ t.seen[n] = Len(records)
       /\ DOMAIN s.seen = 1..(n - 1)
  <2>1. t.seen = Append(s.seen, Len(records))
    BY <1>8
  <2>2. DOMAIN s.seen = 1..(n - 1) /\ (n - 1) + 1 = n /\ n \in Nat
    BY <1>3, <1>5
  <2> QED BY <1>3, <1>5, <1>6, <2>1, <2>2
<1>11. RunSteps(t)
  <2>1. t.created = {} /\ t.updated = {} /\ Len(t.seen) = n
    BY <1>3, <1>8, <1>10
  <2>2. CASE n < last
    <3>1. t.pc = "scan" /\ t.next = n + 1
      BY <1>8, <2>2
    <3>2. n + 1 \in DOMAIN DUPLICATE_DIMENSIONS /\ (n + 1) - 1 = n
      BY <1>3, <2>2, ReconciliationConstants
    <3> QED BY <2>1, <3>1, <3>2 DEF RunSteps
  <2>3. CASE ~(n < last)
    <3>1. t.pc = "persist" /\ t.next = 1 /\ n = last
      BY <1>3, <1>8, <2>3
    <3>2. t.groups \in Seq(GroupSet)
      BY <1>4, <1>5, <1>8
    <3>3. 1 \in 1..(Len(t.groups) + 1)
      BY <3>2
    <3>4. Written(t) = {}
      BY <3>1 DEF Written
    <3> QED BY <2>1, <3>1, <3>3, <3>4 DEF RunSteps
  <2> QED BY <2>2, <2>3
<1>12. \A i \in 1..(n - 1) : DUPLICATE_DIMENSIONS[i] # d
  BY <1>3, ReconciliationConstants DEF d
<1>13. RunFinds(r, t)
  <2>1. ASSUME NEW i \in DOMAIN t.seen
        PROVE  /\ t.seen[i] <= Len(records)
               /\ Named(t, DUPLICATE_DIMENSIONS[i])
                    = FirstFew(There(DUPLICATE_DIMENSIONS[i], w, t.seen[i]), MaxGroups)
    <3>1. CASE i = n
      <4>1. Named(t, d) = {v \in ValuesOf(d) : \E g \in Range(detected) : g.rawKey = v}
        <5>1. \A g \in Range(s.groups) : g.dimension # d
          BY <1>1, <1>10, <1>12 DEF RunFinds
        <5> QED BY <1>4, <1>9, <5>1 DEF Named
      <4>2. FirstFew(There(d, w, Len(records)), MaxGroups) \subseteq ValuesOf(d)
        BY DEF FirstFew, There
      <4>3. Named(t, d) = FirstFew(There(d, w, Len(records)), MaxGroups)
        BY <1>4, <4>1, <4>2
      <4> QED BY <1>6, <1>10, <3>1, <4>3 DEF d
    <3>2. CASE i # n
      <4>1. i \in 1..(n - 1) /\ i \in DOMAIN s.seen /\ t.seen[i] = s.seen[i]
        BY <1>3, <1>10, <3>2
      <4>2. Named(t, DUPLICATE_DIMENSIONS[i]) = Named(s, DUPLICATE_DIMENSIONS[i])
        BY <1>4, <1>9, <1>12, <4>1 DEF Named
      <4> QED BY <1>1, <4>1, <4>2 DEF RunFinds, w
    <3> QED BY <3>1, <3>2
  <2>2. ASSUME NEW g \in Range(t.groups)
        PROVE  \E i \in DOMAIN t.seen : g.dimension = DUPLICATE_DIMENSIONS[i]
    <3>1. CASE g \in Range(s.groups)
      <4>1. PICK i \in DOMAIN s.seen : g.dimension = DUPLICATE_DIMENSIONS[i]
        BY <1>1, <3>1 DEF RunFinds
      <4>2. i \in DOMAIN t.seen
        BY <1>3, <1>10
      <4> QED BY <4>1, <4>2
    <3>2. CASE g \in Range(detected)
      <4>1. n \in DOMAIN t.seen /\ g.dimension = DUPLICATE_DIMENSIONS[n]
        BY <1>3, <1>4, <1>10, <3>2 DEF d
      <4> QED BY <4>1
    <3> QED BY <1>9, <3>1, <3>2
  <2>3. Len(t.seen) <= last
    BY <1>3, <1>10
  <2> QED BY <2>1, <2>2, <2>3 DEF RunFinds, w
<1>14. \A g \in Range(t.groups) : TrueGroup(g)
  BY <1>2, <1>4, <1>9 DEF ScanIInv, GroupsIInv
<1>15. t.created = scan[r].created /\ t.updated = scan[r].updated
  BY <1>2, <1>8
<1>16. UNCHANGED <<tick, records, cases, triage>>
  BY DEF ScanDimension
<1>17. scan' \in [Scans -> RunSet] /\ RunsIInv' /\ GroupsIInv'
  BY <1>8, <1>11, <1>13, <1>14, <1>16, RunMoves
<1>18. ScanTyped'
  BY <1>16, <1>17 DEF ScanIInv, ScanTyped
<1>19. \A q \in Scans : scan'[q].created = scan[q].created /\ scan'[q].updated = scan[q].updated
  BY <1>8, <1>15 DEF ScanIInv, ScanTyped
<1>20. ReportsIInv' /\ TriageIInv'
  <2>1. ReportsIInv'
    BY <1>16, <1>19 DEF ScanIInv, ReportsIInv
  <2>2. TriageIInv'
    BY <1>16 DEF ScanIInv, TriageIInv, TriageIsKept
  <2> QED BY <2>1, <2>2
<1>21. CasesIInv'
  <2>1. Grows
    BY <1>6, <1>16 DEF Grows
  <2> QED BY <1>16, <2>1, CasesStay DEF ScanIInv
<1> QED BY <1>17, <1>18, <1>20, <1>21 DEF ScanIInv

\* A case is made or brought up to date; its status is nobody's but a human's.
LEMMA UpsertIs ==
    ASSUME ScanTyped, NEW g \in GroupSet, cases' = UpsertCase(g)
    PROVE  /\ DOMAIN cases' = DOMAIN cases \cup {CaseKey(g)}
           /\ CaseKey(g) \in CaseKeys
           /\ cases' \in [DOMAIN cases' -> CaseSet]
           /\ \A k \in DOMAIN cases \ {CaseKey(g)} : cases'[k] = cases[k]
           /\ cases'[CaseKey(g)].snapshot = g
           /\ cases'[CaseKey(g)].recordCount = g.recordCount
           /\ cases'[CaseKey(g)].status =
                IF CaseKey(g) \in DOMAIN cases THEN cases[CaseKey(g)].status ELSE "OPEN"
<1> DEFINE key == CaseKey(g)
<1>1. CaseKey(g) \in CaseKeys
  BY DEF CaseKey, CaseKeys, GroupSet
<1>2. \A ruling \in CaseStatuses :
        /\ CaseOf(g, ruling) \in CaseSet
        /\ CaseOf(g, ruling).snapshot = g /\ CaseOf(g, ruling).recordCount = g.recordCount
        /\ CaseOf(g, ruling).status = ruling
  BY DEF CaseOf, CaseSet, GroupSet
<1>3. cases \in [DOMAIN cases -> CaseSet]
  BY DEF ScanTyped
<1> HIDE DEF key
<1>4. CASE key \in DOMAIN cases
  <2>1. cases[key].status \in CaseStatuses
    BY <1>3, <1>4 DEF CaseSet
  <2>2. PICK c : c = CaseOf(g, cases[key].status)
    OBVIOUS
  <2>3. cases' = [cases EXCEPT ![key] = c]
    BY <1>4, <2>2 DEF UpsertCase, key
  <2>4. c \in CaseSet /\ c.snapshot = g /\ c.recordCount = g.recordCount
        /\ c.status = cases[key].status
    BY <1>2, <2>1, <2>2
  <2>5. /\ DOMAIN cases' = DOMAIN cases /\ cases'[key] = c
        /\ \A k \in DOMAIN cases \ {key} : cases'[k] = cases[k]
        /\ cases' \in [DOMAIN cases' -> CaseSet]
    BY <1>3, <1>4, <2>3, <2>4
  <2> QED BY <1>1, <1>4, <2>4, <2>5 DEF key
<1>5. CASE key \notin DOMAIN cases
  <2>1. "OPEN" \in CaseStatuses
    BY DEF CaseStatuses
  <2>2. PICK c : c = CaseOf(g, "OPEN")
    OBVIOUS
  <2>3. cases' = [k \in DOMAIN cases \cup {key} |-> IF k = key THEN c ELSE cases[k]]
    BY <1>5, <2>2 DEF UpsertCase, key
  <2>4. c \in CaseSet /\ c.snapshot = g /\ c.recordCount = g.recordCount /\ c.status = "OPEN"
    BY <1>2, <2>1, <2>2
  <2>5. /\ DOMAIN cases' = DOMAIN cases \cup {key} /\ cases'[key] = c
        /\ \A k \in DOMAIN cases \ {key} : cases'[k] = cases[k]
        /\ cases' \in [DOMAIN cases' -> CaseSet]
    BY <1>3, <1>5, <2>3, <2>4
  <2> QED BY <1>1, <1>5, <2>4, <2>5 DEF key
<1> QED BY <1>4, <1>5

LEMMA PersistKeeps ==
    ASSUME ScanIInv, NEW r \in Scans, PersistCase(r)
    PROVE  ScanIInv'
<1>1. PICK s \in {scan[r]} : RunSteps(s) /\ RunFinds(r, s)
  BY DEF ScanIInv, RunsIInv
<1>2. s = scan[r] /\ s \in RunSet /\ s.pc = "persist" /\ s.next <= Len(s.groups)
  BY <1>1, GroupOfRun DEF ScanIInv, PersistCase
<1>3. /\ s.groups \in Seq(GroupSet) /\ s.next \in 1..Len(s.groups) /\ s.next + 1 \in Nat
      /\ s.created \in SUBSET CaseKeys /\ s.updated \in SUBSET CaseKeys
      /\ s.created \cup s.updated = Written(s) /\ Len(s.seen) = Len(DUPLICATE_DIMENSIONS)
  BY <1>1, <1>2 DEF RunSet, RunSteps
<1>4. PICK g : g = s.groups[s.next]
  OBVIOUS
<1>5. g \in GroupSet /\ g \in Range(s.groups) /\ TrueGroup(g)
  <2>1. g \in Range(s.groups)
    BY <1>3, <1>4 DEF Range
  <2> QED BY <1>2, <1>3, <1>4, <2>1 DEF ScanIInv, GroupsIInv
<1> DEFINE key == CaseKey(g)
           known == key \in DOMAIN cases
<1>6. cases' = UpsertCase(g) /\ UNCHANGED <<tick, records, triage>>
  BY <1>2, <1>4 DEF PersistCase
<1>7. /\ DOMAIN cases' = DOMAIN cases \cup {key} /\ key \in CaseKeys
      /\ cases' \in [DOMAIN cases' -> CaseSet]
      /\ \A k \in DOMAIN cases \ {key} : cases'[k] = cases[k]
      /\ cases'[key].snapshot = g /\ cases'[key].recordCount = g.recordCount
      /\ cases'[key].status = IF known THEN cases[key].status ELSE "OPEN"
  BY <1>5, <1>6, UpsertIs DEF ScanIInv
<1>8. PICK t : t = [scan[r] EXCEPT !.next = @ + 1,
                       !.created = IF known THEN @ ELSE @ \cup {key},
                       !.updated = IF known THEN @ \cup {key} ELSE @]
  OBVIOUS
<1>9. scan' = [scan EXCEPT ![r] = t]
  BY <1>2, <1>4, <1>8 DEF PersistCase
<1>10. /\ t.pc = "persist" /\ t.next = s.next + 1 /\ t.groups = s.groups /\ t.seen = s.seen
       /\ t.created = IF known THEN s.created ELSE s.created \cup {key}
       /\ t.updated = IF known THEN s.updated \cup {key} ELSE s.updated
       /\ t \in RunSet
  <2> HIDE DEF key, known
  <2>1. PICK created : created = IF known THEN s.created ELSE s.created \cup {key}
    OBVIOUS
  <2>2. PICK updated : updated = IF known THEN s.updated \cup {key} ELSE s.updated
    OBVIOUS
  <2>3. PICK next : next = s.next + 1
    OBVIOUS
  <2>4. t = [s EXCEPT !.next = next, !.created = created, !.updated = updated]
    BY <1>2, <1>8, <2>1, <2>2, <2>3
  <2>5. created \in SUBSET CaseKeys /\ updated \in SUBSET CaseKeys /\ next \in Nat
    BY <1>3, <1>7, <2>1, <2>2, <2>3
  <2>6. /\ t.pc = s.pc /\ t.next = next /\ t.groups = s.groups /\ t.seen = s.seen
        /\ t.created = created /\ t.updated = updated
    BY <1>2, <2>4, <2>5 DEF RunSet
  <2>7. t \in RunSet
    BY <1>2, <2>4, <2>5 DEF RunSet
  <2> QED BY <1>2, <2>1, <2>2, <2>3, <2>6, <2>7
<1> HIDE DEF key, known
<1>11. RunSteps(t)
  <2>1. Written(t) = Written(s) \cup {key}
    <3>1. 1..(t.next - 1) = 1..(s.next - 1) \cup {s.next}
      BY <1>3, <1>10
    <3> QED BY <1>4, <1>10, <3>1 DEF Written, key
  <2>2. t.created \cup t.updated = Written(t)
    BY <1>3, <1>10, <2>1
  <2>3. t.next \in 1..(Len(t.groups) + 1)
    BY <1>3, <1>10
  <2> QED BY <1>3, <1>10, <2>2, <2>3 DEF RunSteps
<1>12. RunFinds(r, t)
  <2>1. \A d : Named(t, d) = Named(s, d)
    BY <1>10 DEF Named
  <2> QED BY <1>1, <1>10, <2>1 DEF RunFinds
<1>13. \A h \in Range(t.groups) : TrueGroup(h)
  BY <1>2, <1>10 DEF ScanIInv, GroupsIInv
<1>14. scan' \in [Scans -> RunSet] /\ RunsIInv' /\ GroupsIInv'
  BY <1>6, <1>9, <1>10, <1>11, <1>12, <1>13, RunMoves
<1>15. ScanTyped'
  BY <1>6, <1>7, <1>14 DEF ScanIInv, ScanTyped
<1>16. CasesIInv'
  <2>1. Grows
    BY <1>6 DEF Grows, ScanIInv, ScanTyped
  <2> SUFFICES ASSUME NEW k \in DOMAIN cases'
               PROVE  \E h \in {cases'[k].snapshot} :
                        TrueGroup(h)' /\ k = CaseKey(h) /\ cases'[k].recordCount = h.recordCount
    BY DEF CasesIInv
  <2>2. CASE k = key
    BY <1>5, <1>7, <2>1, <2>2, TruthStays DEF key
  <2>3. CASE k # key
    <3>1. k \in DOMAIN cases /\ cases'[k] = cases[k]
      BY <1>7, <2>3
    <3>2. cases[k].snapshot \in GroupSet
      BY <3>1 DEF ScanIInv, ScanTyped, CaseSet
    <3>3. PICK h \in {cases[k].snapshot} :
             TrueGroup(h) /\ k = CaseKey(h) /\ cases[k].recordCount = h.recordCount
      BY <3>1 DEF ScanIInv, CasesIInv
    <3>4. TrueGroup(h)'
      BY <2>1, <3>2, <3>3, TruthStays
    <3> QED BY <3>1, <3>3, <3>4
  <2> QED BY <2>2, <2>3
<1>17. /\ scan'[r] = t
       /\ \A q \in Scans \ {r} : scan'[q] = scan[q]
  BY <1>9 DEF ScanIInv, ScanTyped
<1>18. ReportsIInv'
  <2>1. \A q \in Scans : scan'[q].created \subseteq DOMAIN cases'
                         /\ scan'[q].updated \subseteq DOMAIN cases'
    BY <1>2, <1>7, <1>10, <1>17 DEF ScanIInv, ReportsIInv
  <2>2. ASSUME NEW k \in DOMAIN cases'
        PROVE  \E q \in Scans : {p \in Scans : k \in scan'[p].created} = {q}
    <3>1. CASE k \in DOMAIN cases
      <4>1. \A p \in Scans : k \in scan'[p].created <=> k \in scan[p].created
        BY <1>2, <1>10, <1>17, <3>1 DEF known
      <4> QED BY <3>1, <4>1 DEF ScanIInv, ReportsIInv
    <3>2. CASE k \notin DOMAIN cases
      <4>1. k = key /\ ~known
        BY <1>7, <3>2 DEF known
      <4>2. \A p \in Scans : k \notin scan[p].created
        BY <3>2 DEF ScanIInv, ReportsIInv
      <4>3. {p \in Scans : k \in scan'[p].created} = {r}
        BY <1>10, <1>17, <4>1, <4>2
      <4> QED BY <4>3
    <3> QED BY <3>1, <3>2
  <2> QED BY <2>1, <2>2 DEF ReportsIInv
<1>19. TriageIInv'
  <2>1. \A i \in DOMAIN triage : triage[i].key \in DOMAIN cases'
    BY <1>7 DEF ScanIInv, TriageIInv
  <2>2. ASSUME NEW k \in DOMAIN cases'
        PROVE  LET moves == {i \in DOMAIN triage : triage[i].key = k}
               IN  cases'[k].status = IF moves = {} THEN "OPEN" ELSE triage[Max(moves)].status
    <3>1. CASE k \in DOMAIN cases
      <4>1. cases'[k].status = cases[k].status
        BY <1>7, <3>1 DEF known
      <4> QED BY <3>1, <4>1 DEF ScanIInv, TriageIInv, TriageIsKept
    <3>2. CASE k \notin DOMAIN cases
      <4>1. cases'[k].status = "OPEN"
        BY <1>7, <3>2 DEF known
      <4>2. {i \in DOMAIN triage : triage[i].key = k} = {}
        BY <3>2 DEF ScanIInv, TriageIInv
      <4> QED BY <4>1, <4>2
    <3> QED BY <3>1, <3>2
  <2> QED BY <1>6, <2>1, <2>2 DEF TriageIInv, TriageIsKept
<1> QED BY <1>14, <1>15, <1>16, <1>18, <1>19 DEF ScanIInv

\* The last of a run of numbers is the greatest.
LEMMA MaxIsLast ==
    ASSUME NEW n \in Nat, NEW S \in SUBSET (1..n)
    PROVE  Max(S \cup {n + 1}) = n + 1
<1>1. \A y \in S \cup {n + 1} : n + 1 >= y
  OBVIOUS
<1>2. \A x \in S \cup {n + 1} : x >= n + 1 => x = n + 1
  OBVIOUS
<1> QED BY <1>1, <1>2 DEF Max

LEMMA MaxIsIn ==
    ASSUME NEW n \in Nat, NEW S \in SUBSET (1..n), S # {}
    PROVE  Max(S) \in S
<1>1. \E x \in {n - y : y \in S} : \A z \in {n - y : y \in S} : x <= z
  <2>1. {n - y : y \in S} \subseteq Nat /\ {n - y : y \in S} # {}
    <3>1. \A y \in S : n - y \in Nat
      OBVIOUS
    <3> QED BY <3>1
  <2> QED BY <2>1, LeastOf
<1>2. PICK y \in S : \A z \in S : n - y <= n - z
  BY <1>1
<1>3. \A z \in S : y >= z
  <2> SUFFICES ASSUME NEW z \in S PROVE y >= z
    OBVIOUS
  <2>1. y \in 1..n /\ z \in 1..n /\ n - y <= n - z
    BY <1>2
  <2> QED BY <2>1
<1> QED BY <1>3 DEF Max

LEMMA TriageKeeps ==
    ASSUME ScanIInv, NEW k \in DOMAIN cases, NEW ruling \in CaseStatuses, Triage(k, ruling)
    PROVE  ScanIInv'
<1> USE DEF ScanIInv
<1> DEFINE move == [key |-> k, status |-> ruling]
<1>1. /\ cases' = [cases EXCEPT ![k].status = ruling]
      /\ triage' = Append(triage, move)
      /\ UNCHANGED <<tick, records, scan>>
  BY DEF Triage
<1>2. PICK c : c = [cases[k] EXCEPT !.status = ruling]
  OBVIOUS
<1>3. cases \in [DOMAIN cases -> CaseSet] /\ cases[k] \in CaseSet /\ k \in CaseKeys
  BY DEF ScanTyped
<1>4. /\ c \in CaseSet /\ c.status = ruling /\ c.snapshot = cases[k].snapshot
      /\ c.recordCount = cases[k].recordCount
  BY <1>2, <1>3 DEF CaseSet
<1>5. /\ DOMAIN cases' = DOMAIN cases /\ cases' \in [DOMAIN cases' -> CaseSet] /\ cases'[k] = c
      /\ \A j \in DOMAIN cases \ {k} : cases'[j] = cases[j]
  <2>1. cases' = [cases EXCEPT ![k] = c]
    BY <1>1, <1>2
  <2> QED BY <1>3, <1>4, <2>1
<1>6. move \in [key : CaseKeys, status : CaseStatuses] /\ move.key = k /\ move.status = ruling
  BY <1>3
<1> HIDE DEF move
<1>7. /\ triage \in Seq([key : CaseKeys, status : CaseStatuses])
      /\ triage' \in Seq([key : CaseKeys, status : CaseStatuses])
      /\ Len(triage) \in Nat /\ DOMAIN triage = 1..Len(triage)
      /\ DOMAIN triage' = 1..(Len(triage) + 1)
      /\ triage'[Len(triage) + 1] = move
      /\ \A i \in DOMAIN triage : triage'[i] = triage[i]
  BY <1>1, <1>6 DEF ScanTyped
<1>8. ScanTyped'
  BY <1>1, <1>5, <1>7 DEF ScanTyped
<1>9. Grows
  BY <1>1 DEF Grows, ScanTyped
<1>10. RunsIInv' /\ GroupsIInv'
  <2>1. ASSUME NEW r \in Scans, NEW g \in Range(scan[r].groups) PROVE TrueGroup(g)'
    BY <1>9, TruthStays, GroupOfRun DEF GroupsIInv
  <2>2. ASSUME NEW r \in Scans
        PROVE  \E s \in {scan[r]} : RunSteps(s) /\ RunFinds(r, s)'
    <3>1. PICK s \in {scan[r]} : RunSteps(s) /\ RunFinds(r, s)
      BY DEF RunsIInv
    <3> QED BY <1>9, <3>1, FindingsStay, GroupOfRun
  <2>3. GroupsIInv'
    BY <1>1, <2>1 DEF GroupsIInv
  <2>4. RunsIInv'
    BY <1>1, <2>2 DEF RunsIInv
  <2> QED BY <2>3, <2>4
<1>11. CasesIInv'
  <2> SUFFICES ASSUME NEW j \in DOMAIN cases
               PROVE  \E h \in {cases'[j].snapshot} :
                        TrueGroup(h)' /\ j = CaseKey(h) /\ cases'[j].recordCount = h.recordCount
    BY <1>5 DEF CasesIInv
  <2>1. cases'[j].snapshot = cases[j].snapshot /\ cases'[j].recordCount = cases[j].recordCount
    BY <1>4, <1>5
  <2>2. cases[j].snapshot \in GroupSet
    BY DEF ScanTyped, CaseSet
  <2>3. PICK h \in {cases[j].snapshot} :
           TrueGroup(h) /\ j = CaseKey(h) /\ cases[j].recordCount = h.recordCount
    BY DEF CasesIInv
  <2>4. TrueGroup(h)'
    BY <1>9, <2>2, <2>3, TruthStays
  <2> QED BY <2>1, <2>3, <2>4
<1>12. ReportsIInv'
  BY <1>1, <1>5 DEF ReportsIInv
<1>13. TriageIInv'
  <2>1. \A i \in DOMAIN triage' : triage'[i].key \in DOMAIN cases'
    BY <1>5, <1>6, <1>7 DEF TriageIInv
  <2>2. ASSUME NEW j \in DOMAIN cases
        PROVE  LET moves == {i \in DOMAIN triage' : triage'[i].key = j}
               IN  cases'[j].status = IF moves = {} THEN "OPEN" ELSE triage'[Max(moves)].status
    <3> DEFINE before == {i \in DOMAIN triage : triage[i].key = j}
               moves == {i \in DOMAIN triage' : triage'[i].key = j}
    <3>1. before \in SUBSET (1..Len(triage))
      BY <1>7
    <3>2. CASE j = k
      <4>1. moves = before \cup {Len(triage) + 1}
        BY <1>6, <1>7, <3>2
      <4>2. Max(moves) = Len(triage) + 1
        BY <1>7, <3>1, <4>1, MaxIsLast
      <4>3. cases'[j].status = ruling
        BY <1>4, <1>5, <3>2
      <4> QED BY <1>6, <1>7, <4>1, <4>2, <4>3
    <3>3. CASE j # k
      <4>1. moves = before
        BY <1>6, <1>7, <3>3
      <4>2. cases'[j].status = cases[j].status
        BY <1>5, <3>3
      <4>3. before # {} => Max(before) \in before
        BY <1>7, <3>1, MaxIsIn
      <4>4. before # {} => triage'[Max(before)] = triage[Max(before)]
        BY <1>7, <3>1, <4>3
      <4>5. cases[j].status = IF before = {} THEN "OPEN" ELSE triage[Max(before)].status
        BY DEF TriageIInv, TriageIsKept
      <4> HIDE DEF before, moves
      <4>6. cases'[j].status = IF moves = {} THEN "OPEN" ELSE triage'[Max(moves)].status
        BY <4>1, <4>2, <4>4, <4>5
      <4> QED BY <4>6 DEF moves
    <3> QED BY <3>2, <3>3
  <2> QED BY <1>5, <2>1, <2>2 DEF TriageIInv, TriageIsKept
<1> QED BY <1>8, <1>10, <1>11, <1>12, <1>13

LEMMA ScanInitHolds == ScanInit => ScanIInv
<1> SUFFICES ASSUME ScanInit PROVE ScanIInv
  OBVIOUS
<1> USE DEF ScanInit
<1>1. \A r \in Scans : /\ scan[r].pc = "idle" /\ scan[r].next = 1 /\ scan[r].groups = << >>
                       /\ scan[r].seen = << >> /\ scan[r].created = {} /\ scan[r].updated = {}
                       /\ scan[r] \in RunSet
  BY DEF RunSet
<1>2. ScanTyped
  <2>1. tick \in 0..MaxTick /\ records \in Seq(Rows) /\ Len(records) <= MaxRecords
    BY ReconciliationConstants
  <2>2. cases \in [DOMAIN cases -> CaseSet] /\ DOMAIN cases \subseteq CaseKeys
    OBVIOUS
  <2>3. triage \in Seq([key : CaseKeys, status : CaseStatuses])
    OBVIOUS
  <2>4. scan \in [Scans -> RunSet]
    BY <1>1
  <2> QED BY <2>1, <2>2, <2>3, <2>4 DEF ScanTyped
<1>3. GroupsIInv /\ CasesIInv /\ ReportsIInv
  BY <1>1 DEF GroupsIInv, CasesIInv, ReportsIInv, Range
<1>4. RunsIInv
  <2> SUFFICES ASSUME NEW r \in Scans
               PROVE  \E s \in {scan[r]} : RunSteps(s) /\ RunFinds(r, s)
    BY DEF RunsIInv
  <2>1. RunSteps(scan[r])
    BY <1>1 DEF RunSteps
  <2>2. RunFinds(r, scan[r])
    BY <1>1, ReconciliationConstants DEF RunFinds, Range
  <2> QED BY <2>1, <2>2
<1>5. TriageIInv
  BY DEF TriageIInv, TriageIsKept
<1> QED BY <1>2, <1>3, <1>4, <1>5 DEF ScanIInv

LEMMA StandStillKeeps ==
    ASSUME ScanIInv, UNCHANGED scanVars
    PROVE  ScanIInv'
<1> USE DEF ScanIInv, scanVars
<1>1. ScanTyped' /\ Grows
  BY DEF ScanTyped, Grows
<1>2. GroupsIInv' /\ RunsIInv'
  <2>1. ASSUME NEW r \in Scans, NEW g \in Range(scan[r].groups) PROVE TrueGroup(g)'
    BY <1>1, TruthStays, GroupOfRun DEF GroupsIInv
  <2>2. ASSUME NEW r \in Scans
        PROVE  \E s \in {scan[r]} : RunSteps(s) /\ RunFinds(r, s)'
    <3>1. PICK s \in {scan[r]} : RunSteps(s) /\ RunFinds(r, s)
      BY DEF RunsIInv
    <3> QED BY <1>1, <3>1, FindingsStay, GroupOfRun
  <2>3. GroupsIInv'
    BY <2>1 DEF GroupsIInv
  <2>4. RunsIInv'
    BY <2>2 DEF RunsIInv
  <2> QED BY <2>3, <2>4
<1>3. CasesIInv'
  BY <1>1, CasesStay
<1>4. ReportsIInv'
  BY DEF ReportsIInv
<1>5. TriageIInv'
  BY DEF TriageIInv, TriageIsKept
<1> QED BY <1>1, <1>2, <1>3, <1>4, <1>5

\* The invariant of detection: groups and cases stay true, and a run has found and written
\* what its steps say.
THEOREM ReconciliationInvariance == ScanSpec => []ScanIInv
<1>1. ScanInit => ScanIInv
  BY ScanInitHolds
<1>2. ScanIInv /\ [ScanNext]_scanVars => ScanIInv'
  <2> SUFFICES ASSUME ScanIInv, [ScanNext]_scanVars PROVE ScanIInv'
    OBVIOUS
  <2>1. CASE \E t \in Tables : \E keys \in KeysOf(t) : InsertRow(t, keys)
    BY <2>1, WorldKeeps
  <2>2. CASE TickPasses
    BY <2>2, WorldKeeps
  <2>3. ASSUME NEW r \in Scans,
               \/ StartScan(r) \/ ScanDimension(r) \/ PersistCase(r)
               \/ FinishScan(r) \/ StopScan(r)
        PROVE  ScanIInv'
    BY <2>3, StepKeeps, ScanKeeps, PersistKeeps
  <2>4. CASE \E k \in DOMAIN cases, s \in CaseStatuses : Triage(k, s)
    BY <2>4, TriageKeeps
  <2>5. CASE UNCHANGED scanVars
    BY <2>5, StandStillKeeps
  <2> QED BY <2>1, <2>2, <2>3, <2>4, <2>5 DEF ScanNext
<1> QED BY <1>1, <1>2, PTL DEF ScanSpec

\* A run that finished has a case for every collision it could see, as far as the limit on
\* groups goes, and for nothing else.
LEMMA FinishedFollows ==
    ASSUME ScanIInv
    PROVE  FinishedIsComplete
<1> SUFFICES ASSUME NEW r \in Scans, scan[r].pc = "done", NEW i \in DOMAIN DUPLICATE_DIMENSIONS
             PROVE  LET d == DUPLICATE_DIMENSIONS[i]
                        there == There(d, WindowOf(r), scan[r].seen[i])
                        told == {v \in ValuesOf(d) :
                                   [recordType |-> RecordTypeOf(d), duplicateKey |-> <<d, v>>]
                                     \in scan[r].created \cup scan[r].updated}
                    IN  /\ told \subseteq there
                        /\ Cardinality(told) = IF Cardinality(there) < MaxGroups
                                               THEN Cardinality(there) ELSE MaxGroups
  BY DEF FinishedIsComplete, There
<1> DEFINE d == DUPLICATE_DIMENSIONS[i]
           there == There(d, WindowOf(r), scan[r].seen[i])
           told == {v \in ValuesOf(d) :
                      [recordType |-> RecordTypeOf(d), duplicateKey |-> <<d, v>>]
                        \in scan[r].created \cup scan[r].updated}
<1>1. PICK s \in {scan[r]} : RunSteps(s) /\ RunFinds(r, s)
  BY DEF ScanIInv, RunsIInv
<1>2. s = scan[r] /\ s \in RunSet
  BY GroupOfRun DEF ScanIInv
<1>3. /\ Len(s.seen) = Len(DUPLICATE_DIMENSIONS) /\ s.next = Len(s.groups) + 1
      /\ s.created \cup s.updated = Written(s)
  BY <1>1, <1>2 DEF RunSteps
<1>4. /\ i \in DOMAIN s.seen /\ s.seen[i] \in Nat /\ d \in Dimensions
      /\ s.groups \in Seq(GroupSet) /\ DOMAIN s.groups = 1..(s.next - 1)
  <2>1. i \in DOMAIN s.seen /\ s.groups \in Seq(GroupSet) /\ s.seen \in Seq(Nat)
    BY <1>2, <1>3, ReconciliationConstants DEF RunSet
  <2>2. Len(s.groups) \in Nat /\ DOMAIN s.groups = 1..Len(s.groups)
    BY <2>1
  <2>3. d \in Dimensions
    BY DEF Dimensions, Range
  <2> QED BY <1>3, <2>1, <2>2, <2>3
<1>5. Named(s, d) = FirstFew(there, MaxGroups)
  BY <1>1, <1>2, <1>4 DEF RunFinds
<1>6. \A g \in Range(s.groups) : TrueGroup(g)
  BY <1>2 DEF ScanIInv, GroupsIInv
<1>7. told = Named(s, d)
  <2> SUFFICES ASSUME NEW v \in ValuesOf(d)
               PROVE  [recordType |-> RecordTypeOf(d), duplicateKey |-> <<d, v>>] \in Written(s)
                        <=> \E g \in Range(s.groups) : g.dimension = d /\ g.rawKey = v
    BY <1>2, <1>3 DEF Named
  <2>1. ASSUME NEW g \in Range(s.groups)
        PROVE  CaseKey(g) = [recordType |-> RecordTypeOf(d), duplicateKey |-> <<d, v>>]
                 <=> g.dimension = d /\ g.rawKey = v
    <3>1. g.duplicateKey = <<g.dimension, g.rawKey>> /\ g.recordType = RecordTypeOf(g.dimension)
      BY <1>6 DEF TrueGroup
    <3>2. CaseKey(g) = [recordType |-> g.recordType, duplicateKey |-> g.duplicateKey]
      BY DEF CaseKey
    <3>3. ASSUME CaseKey(g) = [recordType |-> RecordTypeOf(d), duplicateKey |-> <<d, v>>]
          PROVE  g.dimension = d /\ g.rawKey = v
      <4>1. g.duplicateKey = <<d, v>>
        BY <3>2, <3>3
      <4> QED BY <3>1, <4>1
    <3>4. ASSUME g.dimension = d, g.rawKey = v
          PROVE  CaseKey(g) = [recordType |-> RecordTypeOf(d), duplicateKey |-> <<d, v>>]
      BY <3>1, <3>2, <3>4
    <3> QED BY <3>3, <3>4
  <2>2. Written(s) = {CaseKey(g) : g \in Range(s.groups)}
    BY <1>4 DEF Written, Range
  <2> QED BY <2>1, <2>2
<1>8. there \subseteq Nat /\ IsFiniteSet(there)
  BY <1>2, <1>4, ThereIsFinite
<1>9. MaxGroups \in Nat
  BY ReconciliationConstants
<1> HIDE DEF there, told, d
<1>10. told \subseteq there /\ Cardinality(told) = IF Cardinality(there) < MaxGroups
                                                  THEN Cardinality(there) ELSE MaxGroups
  <2>1. told = FirstFew(there, MaxGroups)
    BY <1>5, <1>7
  <2>2. /\ FirstFew(there, MaxGroups) \subseteq there
        /\ Cardinality(FirstFew(there, MaxGroups)) = IF Cardinality(there) < MaxGroups
                                                     THEN Cardinality(there) ELSE MaxGroups
    BY <1>8, <1>9, FirstFewAre
  <2> QED BY <2>1, <2>2
<1> QED BY <1>10 DEF there, told, d

\* Cases are true, triage is kept, one run creates a case, and a finished run is complete,
\* however runs overlap and stop.
THEOREM ReconciliationHoldsAlways == ScanSpec => []ReconciliationHolds
<1>1. ScanIInv => ReconciliationHolds
  <2> SUFFICES ASSUME ScanIInv PROVE ReconciliationHolds
    OBVIOUS
  <2>1. ScanTypeOK
    <3>1. \A k \in DOMAIN cases : cases[k].status \in CaseStatuses /\ cases[k].recordCount > 1
      <4> SUFFICES ASSUME NEW k \in DOMAIN cases
                   PROVE  cases[k].status \in CaseStatuses /\ cases[k].recordCount > 1
        OBVIOUS
      <4>1. cases[k].status \in CaseStatuses
        BY DEF ScanIInv, ScanTyped, CaseSet
      <4>2. cases[k].recordCount > 1
        BY DEF ScanIInv, CasesIInv, TrueGroup
      <4> QED BY <4>1, <4>2
    <3>2. \A r \in Scans : scan[r].pc \in {"idle", "scan", "persist", "done", "dead"}
      BY DEF ScanIInv, ScanTyped, RunSet
    <3> QED BY <3>1, <3>2 DEF ScanIInv, ScanTyped, ReportsIInv, ScanTypeOK
  <2>2. CasesAreTrue
    BY DEF ScanIInv, CasesIInv, TrueGroup, CaseKey, CasesAreTrue
  <2>3. CreatedOnce
    BY FS_Singleton DEF ScanIInv, ReportsIInv, CreatedOnce
  <2> QED BY <2>1, <2>2, <2>3, FinishedFollows DEF ScanIInv, TriageIInv, ReconciliationHolds
<1> QED BY <1>1, ReconciliationInvariance, PTL

===========================================================================
