---------------------------- MODULE MetaEventWorker ----------------------------
(***************************************************************************)
(* The Meta conversion outbox: rows of the table meta_events, written by   *)
(* the payment webhook and delivered by a pool of workers that claim rows  *)
(* under a lease, call Meta, and settle each row with one conditional      *)
(* UPDATE (apps/worker/src/metaEvents).                                    *)
(*                                                                         *)
(* Time is left nondeterministic: a row only knows whether it is due and   *)
(* whether its lease has run out.  The code compares deadlines with the    *)
(* clock of whichever worker asks, so a lease may be seen expired at any   *)
(* moment after it was taken; every order of those moments is explored.    *)
(*                                                                         *)
(* One action is one database statement or one HTTP call, which is where   *)
(* the await points of processMetaEvent are.                               *)
(***************************************************************************)
EXTENDS Naturals, FiniteSets

CONSTANTS
    Events,        \* the rows of meta_events
    Unsupported,   \* those whose event_name is not in SUPPORTED_META_EVENTS
    Workers,       \* worker ids, unique per process as MetaEventWorkerDeps demands
    NoWorker,      \* lease_owner IS NULL
    NoEvent,       \* a worker that is between events
    MaxAttempts,   \* resolveMaxAttempts: the attempt budget
    BatchLimit,    \* the limit of one claim
    MaxFaults      \* bound: crashes, failed statements and overrun leases

ASSUME NoWorkerAssumption == NoWorker \notin Workers
ASSUME NoEventAssumption == NoEvent \notin Events
ASSUME UnsupportedAssumption == Unsupported \subseteq Events
\* assertWorkerConfig refuses every other budget.
ASSUME MaxAttemptsAssumption == MaxAttempts \in 1..20
ASSUME BatchLimitAssumption == BatchLimit \in Nat \ {0}
ASSUME MaxFaultsAssumption == MaxFaults \in Nat

VARIABLES
    meta_events,   \* the table
    pc,            \* where each worker's processMetaEvent stands
    held,          \* the claimed events a worker has not finished processing
    cur,           \* the one it is processing
    snap,          \* ClaimedMetaEvent.attempts, read by the claim
    accepted,      \* whether Meta has ever accepted the event
    faults         \* faults so far

vars == <<meta_events, pc, held, cur, snap, accepted, faults>>

Status == {"ABSENT", "PENDING", "PROCESSING", "SENT", "DEAD_LETTER"}
Note == {"none", "error", "DELIVERED_UNCONFIRMED"}

Row == [status : Status, attempts : 0..MaxAttempts, owner : Workers \cup {NoWorker},
        expired : BOOLEAN, due : BOOLEAN, last_error : Note]

\* The results a worker still has to write to the row.
Verdicts == {"accepted", "permanent", "meta_failed", "load_failed"}
PC == {"idle", "load", "send", "annotate"} \cup Verdicts

\* Rows, and what a worker holds of them, keep to their domains; attempts stay
\* within the budget.
TypeOK ==
    /\ meta_events \in [Events -> Row]
    /\ pc \in [Workers -> PC]
    /\ held \in [Workers -> SUBSET Events]
    /\ cur \in [Workers -> Events \cup {NoEvent}]
    /\ snap \in [Workers -> [Events -> 0..MaxAttempts]]
    /\ accepted \in [Events -> BOOLEAN]
    /\ faults \in 0..MaxFaults

Init ==
    /\ meta_events = [e \in Events |->
           [status |-> "ABSENT", attempts |-> 0, owner |-> NoWorker,
            expired |-> FALSE, due |-> FALSE, last_error |-> "none"]]
    /\ pc = [w \in Workers |-> "idle"]
    /\ held = [w \in Workers |-> {}]
    /\ cur = [w \in Workers |-> NoEvent]
    /\ snap = [w \in Workers |-> [e \in Events |-> 0]]
    /\ accepted = [e \in Events |-> FALSE]
    /\ faults = 0

--------------------------------------------------------------------------
(* The statements of the PostgreSQL repository.                            *)

\* The webhook's INSERT ... ON CONFLICT (meta_event_id) DO NOTHING; the
\* column defaults make the row due at once.
Enqueue(e) ==
    /\ meta_events[e].status = "ABSENT"
    /\ meta_events' = [meta_events EXCEPT ![e] =
           [@ EXCEPT !.status = "PENDING", !.due = TRUE]]
    /\ UNCHANGED <<pc, held, cur, snap, accepted, faults>>

\* The fence: the WHERE clause of every statement that ends a PROCESSING row.
\* It does not look at the expiry.
Owned(w, e) == meta_events[e].status = "PROCESSING" /\ meta_events[e].owner = w

\* A row without a lease, in the given status.
Unleased(e, status) ==
    [meta_events[e] EXCEPT !.status = status, !.owner = NoWorker, !.expired = FALSE]

\* Mutant: the settling statements without their fence.
FencedUpdateUnfenced(w, e, row) == meta_events' = [meta_events EXCEPT ![e] = row]

FencedUpdate(w, e, row) ==
    meta_events' = IF Owned(w, e) THEN [meta_events EXCEPT ![e] = row] ELSE meta_events

MarkSent(w, e) == FencedUpdate(w, e, [Unleased(e, "SENT") EXCEPT !.last_error = "none"])

MarkForRetry(w, e, attempts, due) ==
    FencedUpdate(w, e, [Unleased(e, "PENDING") EXCEPT
        !.attempts = attempts, !.due = due, !.last_error = "error"])

MarkDeadLetter(w, e, attempts) ==
    FencedUpdate(w, e, [Unleased(e, "DEAD_LETTER") EXCEPT
        !.attempts = attempts, !.last_error = "error"])

\* No fence, on purpose; touches nothing but the note.
RecordAmbiguousSend(e) ==
    meta_events' = [meta_events EXCEPT ![e] = [@ EXCEPT !.last_error = "DELIVERED_UNCONFIRMED"]]

Claimable == {e \in Events : meta_events[e].status = "PENDING" /\ meta_events[e].due}

\* Mutant: the release does not compare lease_expires_at with now.
ReleasableEarly == {e \in Events : meta_events[e].status = "PROCESSING"}

Releasable == {e \in Events : meta_events[e].status = "PROCESSING" /\ meta_events[e].expired}

\* Mutant: a lease recovery charges an attempt.
ReleasedRowCharged(e) == [Unleased(e, "PENDING") EXCEPT !.attempts = @ + 1]

\* Mutant: a lease recovery clears the lease and forgets the status.
ReleasedRowStillProcessing(e) == Unleased(e, "PROCESSING")

ReleasedRow(e) == Unleased(e, "PENDING")

--------------------------------------------------------------------------
(* The worker.  A worker processes the rows of its batch one after the     *)
(* other and polls again when it has finished them.                        *)

Polling(w) == pc[w] = "idle" /\ held[w] = {}

\* releaseExpiredLeases: one UPDATE over the table.
Release(w) ==
    /\ Polling(w)
    /\ Releasable # {}
    /\ meta_events' = [e \in Events |->
           IF e \in Releasable THEN ReleasedRow(e) ELSE meta_events[e]]
    /\ UNCHANGED <<pc, held, cur, snap, accepted, faults>>

\* Mutant: the claim charges the attempt itself and reports the old count.
ClaimCharging(w) ==
    /\ Polling(w)
    /\ \E batch \in SUBSET Claimable :
         /\ batch # {}
         /\ Cardinality(batch) <= BatchLimit
         /\ meta_events' = [e \in Events |->
                IF e \in batch
                THEN [meta_events[e] EXCEPT !.status = "PROCESSING", !.owner = w,
                                            !.expired = FALSE, !.attempts = @ + 1]
                ELSE meta_events[e]]
         /\ held' = [held EXCEPT ![w] = batch]
         /\ snap' = [snap EXCEPT ![w] = [e \in Events |->
                IF e \in batch THEN meta_events[e].attempts ELSE 0]]
    /\ UNCHANGED <<pc, cur, accepted, faults>>

\* claimMetaEvents.  SKIP LOCKED passes over rows another transaction has
\* locked, so the batch is any set of claimable rows within the limit.
Claim(w) ==
    /\ Polling(w)
    /\ \E batch \in SUBSET Claimable :
         /\ batch # {}
         /\ Cardinality(batch) <= BatchLimit
         /\ meta_events' = [e \in Events |->
                IF e \in batch
                THEN [meta_events[e] EXCEPT !.status = "PROCESSING", !.owner = w,
                                            !.expired = FALSE]
                ELSE meta_events[e]]
         /\ held' = [held EXCEPT ![w] = batch]
         /\ snap' = [snap EXCEPT ![w] = [e \in Events |->
                IF e \in batch THEN meta_events[e].attempts ELSE 0]]
    /\ UNCHANGED <<pc, cur, accepted, faults>>

\* Mutant: no routing check.
BeginUnrouted(w, e) ==
    /\ pc[w] = "idle"
    /\ e \in held[w]
    /\ cur' = [cur EXCEPT ![w] = e]
    /\ pc' = [pc EXCEPT ![w] = "load"]
    /\ UNCHANGED <<meta_events, held, snap, accepted, faults>>

\* processMetaEvent begins: the routing check comes before anything else.
Begin(w, e) ==
    /\ pc[w] = "idle"
    /\ e \in held[w]
    /\ cur' = [cur EXCEPT ![w] = e]
    /\ pc' = [pc EXCEPT ![w] = IF e \in Unsupported THEN "permanent" ELSE "load"]
    /\ UNCHANGED <<meta_events, held, snap, accepted, faults>>

\* deps.loadContext: a context, no context (terminal), or an exception.
LoadContext(w) ==
    /\ pc[w] = "load"
    /\ \E result \in {"send", "permanent", "load_failed"} : pc' = [pc EXCEPT ![w] = result]
    /\ UNCHANGED <<meta_events, held, cur, snap, accepted, faults>>

\* Mutant: a request without an answer counts as accepted.
SendOptimistic(w) ==
    /\ pc[w] = "send"
    /\ \E result \in {"accepted", "permanent"}, delivered \in BOOLEAN :
         /\ result = "permanent" => ~delivered
         /\ pc' = [pc EXCEPT ![w] = result]
         /\ accepted' = [accepted EXCEPT ![cur[w]] = @ \/ delivered]
    /\ UNCHANGED <<meta_events, held, cur, snap, faults>>

\* sendMetaPurchase: a payload refused before any request is "permanent"; a
\* failure may hide an acceptance whose answer was lost.  Nothing rereads
\* the row before the request goes out.
Send(w) ==
    /\ pc[w] = "send"
    /\ \E result \in {"accepted", "permanent", "meta_failed"}, delivered \in BOOLEAN :
         /\ result = "accepted" => delivered
         /\ result = "permanent" => ~delivered
         /\ pc' = [pc EXCEPT ![w] = result]
         /\ accepted' = [accepted EXCEPT ![cur[w]] = @ \/ delivered]
    /\ UNCHANGED <<meta_events, held, cur, snap, faults>>

\* The worker drops the event it was processing.
Finish(w) ==
    /\ pc' = [pc EXCEPT ![w] = "idle"]
    /\ held' = [held EXCEPT ![w] = @ \ {cur[w]}]
    /\ cur' = [cur EXCEPT ![w] = NoEvent]
    /\ UNCHANGED <<snap, accepted, faults>>

\* Meta accepted: markSent, or the unfenced note when the lease is gone.
SettleAccepted(w) ==
    /\ pc[w] = "accepted"
    /\ MarkSent(w, cur[w])
    /\ IF Owned(w, cur[w])
       THEN Finish(w)
       ELSE pc' = [pc EXCEPT ![w] = "annotate"] /\ UNCHANGED <<held, cur, snap, accepted, faults>>

Annotate(w) ==
    /\ pc[w] = "annotate"
    /\ RecordAmbiguousSend(cur[w])
    /\ Finish(w)

\* Mutant: a row that can never be sent is charged an attempt.
SettlePermanentCharged(w) ==
    /\ pc[w] = "permanent"
    /\ MarkDeadLetter(w, cur[w], snap[w][cur[w]] + 1)
    /\ Finish(w)

\* Unroutable, no context or an invalid payload: no attempt is charged.
SettlePermanent(w) ==
    /\ pc[w] = "permanent"
    /\ MarkDeadLetter(w, cur[w], snap[w][cur[w]])
    /\ Finish(w)

HasExhaustedAttempts(attempts) == attempts >= MaxAttempts

\* scheduleRetry: one more than the attempts the claim read.  The full-jitter
\* delay may be zero.
ScheduleRetry(w) ==
    LET attempts == snap[w][cur[w]] + 1 IN
    /\ pc[w] \in {"meta_failed", "load_failed"}
    /\ IF HasExhaustedAttempts(attempts)
       THEN MarkDeadLetter(w, cur[w], attempts)
       ELSE \E due \in BOOLEAN : MarkForRetry(w, cur[w], attempts, due)
    /\ Finish(w)

--------------------------------------------------------------------------
(* Time and faults.                                                        *)

\* next_attempt_at passes.
BecomesDue(e) ==
    /\ meta_events[e].status = "PENDING"
    /\ ~meta_events[e].due
    /\ meta_events' = [meta_events EXCEPT ![e] = [@ EXCEPT !.due = TRUE]]
    /\ UNCHANGED <<pc, held, cur, snap, accepted, faults>>

\* The owner of the lease has forgotten the row: it crashed, or gave it up
\* when a statement failed.
Abandoned(e) == \A w \in Workers : Owned(w, e) => e \notin held[w]

\* lease_expires_at passes.  It passes for an abandoned row in any case; a
\* worker that overruns a lease it still works under is a fault.
LeaseRunsOut(e) ==
    /\ meta_events[e].status = "PROCESSING"
    /\ ~meta_events[e].expired
    /\ IF Abandoned(e) THEN UNCHANGED faults
                       ELSE faults < MaxFaults /\ faults' = faults + 1
    /\ meta_events' = [meta_events EXCEPT ![e] = [@ EXCEPT !.expired = TRUE]]
    /\ UNCHANGED <<pc, held, cur, snap, accepted>>

\* The settling statement throws: the exception leaves processMetaEvent and
\* the row stays as it was.
StatementFails(w) ==
    /\ pc[w] \in Verdicts \cup {"annotate"}
    /\ faults < MaxFaults
    /\ faults' = faults + 1
    /\ pc' = [pc EXCEPT ![w] = "idle"]
    /\ held' = [held EXCEPT ![w] = @ \ {cur[w]}]
    /\ cur' = [cur EXCEPT ![w] = NoEvent]
    /\ UNCHANGED <<meta_events, snap, accepted>>

\* The process dies and is started again with an empty memory.
Crash(w) ==
    /\ ~Polling(w)
    /\ faults < MaxFaults
    /\ faults' = faults + 1
    /\ pc' = [pc EXCEPT ![w] = "idle"]
    /\ held' = [held EXCEPT ![w] = {}]
    /\ cur' = [cur EXCEPT ![w] = NoEvent]
    /\ UNCHANGED <<meta_events, snap, accepted>>

--------------------------------------------------------------------------
Process(w) ==
    \/ \E e \in Events : Begin(w, e)
    \/ LoadContext(w)
    \/ Send(w)
    \/ SettleAccepted(w)
    \/ Annotate(w)
    \/ SettlePermanent(w)
    \/ ScheduleRetry(w)

Next ==
    \/ \E e \in Events : Enqueue(e) \/ BecomesDue(e) \/ LeaseRunsOut(e)
    \/ \E w \in Workers : Release(w) \/ Claim(w) \/ Process(w)
    \/ \E w \in Workers : StatementFails(w) \/ Crash(w)

Spec == Init /\ [][Next]_vars

\* A worker keeps running its loop and time keeps passing.  The HTTP timeout
\* of the sender makes every request end.
Fairness ==
    /\ \A w \in Workers : WF_vars(Process(w)) /\ WF_vars(Release(w)) /\ WF_vars(Claim(w))
    /\ \A e \in Events : WF_vars(BecomesDue(e)) /\ WF_vars(LeaseRunsOut(e) /\ Abandoned(e))

FairSpec == Spec /\ Fairness

--------------------------------------------------------------------------
(* Properties.                                                             *)

\* A row says SENT only for a conversion Meta has really accepted, and Meta
\* never receives a row whose event name the worker does not know as a
\* Purchase (worker.ts, the routing check and markSent).
DeliveryIsReal ==
    \A e \in Events : /\ meta_events[e].status = "SENT" => accepted[e]
                      /\ accepted[e] => e \notin Unsupported

\* A worker that still owns the row it processes holds the row's current
\* attempt count: its write, computed from what the claim read long before,
\* loses no update of another worker (worker.ts scheduleRetry, pgRepository.ts).
FreshSnapshot ==
    \A w \in Workers, e \in Events :
        (e \in held[w] /\ Owned(w, e)) => snap[w][e] = meta_events[e].attempts

\* A row that can still be delivered has budget left, and the budget is never
\* exceeded (backoff.ts hasExhaustedAttempts).
BudgetRespected ==
    \A e \in Events :
        meta_events[e].status \notin {"SENT", "DEAD_LETTER"} => meta_events[e].attempts < MaxAttempts

LiveLeaseStep ==
    \A w \in Workers, e \in Events :
        (Owned(w, e) /\ ~Owned(w, e)')
           => meta_events[e].expired \/ (cur[w] = e /\ pc[w] \in Verdicts)

\* A lease that has not run out is ended by its owner alone, when it settles
\* the row it works on: nobody takes a live lease away (pgRepository.ts claim
\* and releaseExpiredLeases).
LiveLeaseHonoured == [][LiveLeaseStep]_vars

TerminalStep ==
    \A e \in Events :
        meta_events[e].status \in {"SENT", "DEAD_LETTER"}
           => /\ meta_events'[e].status = meta_events[e].status
              /\ meta_events'[e].attempts = meta_events[e].attempts
              /\ meta_events'[e].owner = NoWorker

\* SENT and DEAD_LETTER are final: no claim, release or stale settlement moves
\* the row or its attempts again (worker.ts, the state machine of its header).
TerminalIsFinal == [][TerminalStep]_vars

AttemptsStep ==
    \A e \in Events :
        /\ meta_events'[e].attempts # meta_events[e].attempts =>
             \E w \in Workers :
               /\ Owned(w, e)
               /\ cur[w] = e
               /\ pc[w] \in {"meta_failed", "load_failed"}
               /\ meta_events'[e].attempts = meta_events[e].attempts + 1
        /\ (meta_events'[e].status = "DEAD_LETTER" /\ meta_events[e].status # "DEAD_LETTER") =>
             \/ meta_events'[e].attempts = MaxAttempts
             \/ \E w \in Workers : Owned(w, e) /\ cur[w] = e /\ pc[w] = "permanent"

\* attempts moves by exactly one, by the owner of the row, after a failed
\* delivery; a crash, a lease recovery or a stale worker never charges it, and
\* a row is dead-lettered only when its budget is spent or its payload cannot
\* be sent (worker.ts scheduleRetry, repository.ts releaseExpiredLeases).
AttemptsCountFailures == [][AttemptsStep]_vars

\* Every enqueued conversion is finally settled, whatever Meta answers and
\* whichever worker dies, once faults stop (worker.ts, releaseExpiredLeases).
EventuallySettled ==
    \A e \in Events :
        meta_events[e].status = "PENDING" ~> meta_events[e].status \in {"SENT", "DEAD_LETTER"}

\* The outbox implements the delivery promise.
OutcomeOf(status) ==
    CASE status = "ABSENT" -> "absent"
      [] status \in {"PENDING", "PROCESSING"} -> "queued"
      [] status = "SENT" -> "sent"
      [] OTHER -> "dead"

outcomeBar == [e \in Events |-> OutcomeOf(meta_events[e].status)]

Delivery == INSTANCE ConversionDelivery WITH outcome <- outcomeBar

\* Every behaviour of the outbox is one of the delivery promise: outcomes are
\* decided once, and SENT only after an acceptance (the whole of metaEvents/).
ImplementsDelivery == Delivery!Spec

\* The comment in processMetaEvent: "attempts is incremented ONLY when Meta
\* itself failed us".
AttemptsOnlyForMetaFailures ==
    [][\A e \in Events : meta_events'[e].attempts # meta_events[e].attempts =>
          \E w \in Workers : cur[w] = e /\ pc[w] = "meta_failed"]_vars
=============================================================================
