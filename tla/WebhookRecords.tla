------------------------------ MODULE WebhookRecords ------------------------------
(***************************************************************************)
(* What the system keeps of a webhook request (verifyRazorpayWebhook and   *)
(* the route, migrations 0007 and 0011, webhookRetention.ts).  A request   *)
(* that is refused leaves a row of metadata; a verified one leaves its     *)
(* body, which redaction runs narrow to an allowlist once it is old        *)
(* enough.  Runs of two replicas may overlap: a statement locks the rows   *)
(* it took and skips those another has locked, and it may be killed before *)
(* it commits.                                                             *)
(*                                                                         *)
(* A body is the set of paths present in its JSON.  The transaction that   *)
(* stores it is module WebhookPayments.                                    *)
(***************************************************************************)
EXTENDS Absence, Integers, Sequences, FiniteSets, SequencesExt

CONSTANTS
    WebhookBodies,  \* bodies a request may carry: sets of paths
    Redactions,     \* redaction runs
    Configured(_),  \* the retention a run is given, or None
    DefaultRetention, MinRetention, MaxRetention,
    BatchSize, MaxBatches,
    MaxToday,       \* bound: days of the clock
    MaxStored,      \* bound: rows stored
    MaxRejections   \* bound: rejections recorded

\* Paths are sequences, and no configuration brings the retention below a day.
ASSUME RecordsConstants ==
    /\ \A path \in UNION WebhookBodies : path \in Seq(Range(path))
    /\ \A u \in Redactions : Configured(u) \in Int \cup {None}
    /\ MinRetention \in Nat \ {0} /\ MaxRetention \in Nat /\ DefaultRetention \in Nat
    /\ MinRetention <= DefaultRetention /\ MinRetention <= MaxRetention
    /\ BatchSize \in Nat /\ MaxToday \in Nat
    /\ None \notin Nat

VARIABLES
    today,
    stored,      \* webhook_events, by age: [received, payload, redacted]
    original,    \* the bodies as they arrived: a history for the properties
    rejections,  \* webhook_rejections
    redaction    \* each run: its day and cutoff, the rows it has locked, how it ended

recordVars == <<today, stored, original, rejections, redaction>>

Reasons ==
    {"missing-signature", "malformed-signature", "bad-signature", "empty-body", "body-too-large"}

\* Rows, rejections and runs keep to their domains.
RecordsTypeOK ==
    /\ today \in 0..MaxToday
    /\ \A i \in DOMAIN stored : /\ stored[i].received \in 0..MaxToday
                                /\ stored[i].redacted \in 0..MaxToday \cup {None}
    /\ \A i \in DOMAIN rejections : rejections[i].reason \in Reasons
    /\ \A u \in Redactions :
          /\ redaction[u].pc \in {"idle", "select", "update", "drained", "incomplete"}
          /\ redaction[u].locked \subseteq DOMAIN stored

RecordsInit ==
    /\ today = 0
    /\ stored = << >>
    /\ original = << >>
    /\ rejections = << >>
    /\ redaction = [u \in Redactions |->
                     [pc |-> "idle", on |-> 0, cutoff |-> 0, locked |-> {}, batches |-> 0,
                      skipped |-> {}]]

--------------------------------------------------------------------------
(* The trust boundary.                                                     *)

WebhookRequests ==
    [size : {"empty", "small", "huge"},
     signature : {"none", "garbled", "forged", "good"},
     eventId : BOOLEAN, json : BOOLEAN]

\* Size before signature, shape before HMAC: the first check that fails.
VerifyRazorpayWebhook(q) ==
    CASE q.size = "empty" -> "empty-body"
      [] q.size = "huge" -> "body-too-large"
      [] q.size = "small" /\ q.signature = "none" -> "missing-signature"
      [] q.size = "small" /\ q.signature = "garbled" -> "malformed-signature"
      [] q.size = "small" /\ q.signature = "forged" -> "bad-signature"
      [] OTHER -> "ok"

\* The route: a verified request without an event id, or whose body is no JSON
\* of the expected shape, is turned away as well, under the reason of a
\* malformed signature.
Refusal(q) ==
    IF VerifyRazorpayWebhook(q) # "ok" THEN VerifyRazorpayWebhook(q)
    ELSE IF ~q.eventId \/ ~q.json THEN "malformed-signature"
    ELSE None

Rejection(q, reason) ==
    [reason |-> reason, body |-> q.size, signaturePresent |-> q.signature # "none",
     wellFormed |-> q.signature \in {"forged", "good"}]

\* recordWebhookRejection: metadata, and not a byte of the body.
RejectRequest(q) ==
    /\ Refusal(q) # None
    /\ Len(rejections) < MaxRejections
    /\ rejections' = Append(rejections, Rejection(q, Refusal(q)))
    /\ UNCHANGED <<today, stored, original, redaction>>

\* insertWebhookEvent of a verified request, as the transaction commits.
StoreBody(q, body) ==
    /\ Refusal(q) = None
    /\ Len(stored) < MaxStored
    /\ stored' = Append(stored, [received |-> today, payload |-> body, redacted |-> None])
    /\ original' = Append(original, body)
    /\ UNCHANGED <<today, rejections, redaction>>

--------------------------------------------------------------------------
(* Redaction.                                                              *)

EnvelopeFields == {"entity", "account_id", "event", "contains", "created_at"}
PaymentFields ==
    {"id", "entity", "order_id", "invoice_id", "amount", "currency", "status", "method",
     "captured", "amount_refunded", "refund_status", "international", "fee", "tax",
     "error_code", "error_source", "error_step", "error_reason", "created_at"}
OrderFields ==
    {"id", "entity", "amount", "amount_paid", "amount_due", "currency", "status", "attempts",
     "created_at"}
RefundFields ==
    {"id", "entity", "payment_id", "amount", "currency", "status", "speed_processed",
     "created_at"}

EntityPath(kind, field) == <<"payload", kind, "entity", field>>

REDACTION_ALLOWLIST ==
    {<<f>> : f \in EnvelopeFields}
    \cup {EntityPath("payment", f) : f \in PaymentFields}
    \cup {EntityPath("order", f) : f \in OrderFields}
    \cup {EntityPath("refund", f) : f \in RefundFields}

\* Mutant: the list names whole entities.
RedactWebhookPayloadCoarse(payload) ==
    {p \in payload : \E a \in REDACTION_ALLOWLIST :
        Len(a) <= Len(p) /\ SubSeq(a, 1, 1) = SubSeq(p, 1, 1)}

\* The payload rebuilt from the listed paths, each with all that lies below it
\* (redactWebhookPayload in TypeScript, redact_webhook_payload in SQL).
RedactWebhookPayload(payload) ==
    {p \in payload : \E a \in REDACTION_ALLOWLIST : IsPrefix(a, p)}

ResolveRetentionDays(configured) ==
    IF configured = None THEN DefaultRetention
    ELSE IF configured < MinRetention THEN MinRetention
    ELSE IF configured > MaxRetention THEN MaxRetention
    ELSE configured

RedactionCutoff(u) == today - ResolveRetentionDays(Configured(u))

DueRows(cutoff) ==
    {i \in DOMAIN stored : stored[i].redacted = None /\ stored[i].received <= cutoff}

\* redactExpiredPayloads: its day and its cutoff are fixed for the whole run.
StartRedaction(u) ==
    /\ redaction[u].pc = "idle"
    /\ redaction' = [redaction EXCEPT ![u].pc = "select", ![u].on = today,
                                      ![u].cutoff = RedactionCutoff(u)]
    /\ UNCHANGED <<today, stored, original, rejections>>

LockedByOthers(u) == UNION {redaction[v].locked : v \in Redactions \ {u}}

\* The oldest rows due, at most a batch of them; rows are in order of receipt.
Batch(free) == {i \in free : Cardinality({j \in free : j < i}) < BatchSize}

\* Mutant: the statement takes the rows another run has locked, too.
SelectDueBlind(u) ==
    /\ redaction[u].pc = "select"
    /\ redaction' = [redaction EXCEPT ![u].pc = "update",
                                      ![u].locked = Batch(DueRows(redaction[u].cutoff)),
                                      ![u].batches = @ + 1,
                                      ![u].skipped = {}]
    /\ UNCHANGED <<today, stored, original, rejections>>

\* redactBatch, its SELECT ... FOR UPDATE SKIP LOCKED.
SelectDue(u) ==
    /\ redaction[u].pc = "select"
    /\ LET due == DueRows(redaction[u].cutoff) IN
       redaction' = [redaction EXCEPT ![u].pc = "update",
                                      ![u].locked = Batch(due \ LockedByOthers(u)),
                                      ![u].batches = @ + 1,
                                      ![u].skipped = due \cap LockedByOthers(u)]
    /\ UNCHANGED <<today, stored, original, rejections>>

\* A short batch is taken to mean that nothing is left.
AfterBatch(u) ==
    IF Cardinality(redaction[u].locked) < BatchSize THEN "drained"
    ELSE IF redaction[u].batches < MaxBatches THEN "select"
    ELSE "incomplete"

\* redactBatch, its UPDATE, and the end of the statement: rows are stamped with the day
\* the run started.
UpdateDue(u) ==
    /\ redaction[u].pc = "update"
    /\ stored' = [i \in DOMAIN stored |->
                    IF i \in redaction[u].locked
                    THEN [stored[i] EXCEPT !.payload = RedactWebhookPayload(@),
                                          !.redacted = redaction[u].on]
                    ELSE stored[i]]
    /\ redaction' = [redaction EXCEPT ![u].pc = AfterBatch(u), ![u].locked = {}]
    /\ UNCHANGED <<today, original, rejections>>

\* The process dies, or its signal aborts it between two statements: what the
\* open statement did is rolled back and its locks are gone.
StopRedaction(u) ==
    /\ redaction[u].pc \in {"select", "update"}
    /\ redaction' = [redaction EXCEPT ![u].pc = "incomplete", ![u].locked = {}]
    /\ UNCHANGED <<today, stored, original, rejections>>

TodayEnds ==
    /\ today < MaxToday
    /\ today' = today + 1
    /\ UNCHANGED <<stored, original, rejections, redaction>>

--------------------------------------------------------------------------
RecordsNext ==
    \/ \E q \in WebhookRequests : RejectRequest(q)
    \/ \E q \in WebhookRequests, b \in WebhookBodies : StoreBody(q, b)
    \/ \E u \in Redactions : StartRedaction(u) \/ SelectDue(u) \/ UpdateDue(u) \/ StopRedaction(u)
    \/ TodayEnds

RecordsSpec == RecordsInit /\ [][RecordsNext]_recordVars

--------------------------------------------------------------------------
(* Properties.                                                             *)

\* A body is whole until it is redacted and holds listed paths only afterwards,
\* with all of those it came with: no run, repeated or overlapping, narrows a
\* row twice over or leaves it half narrowed (redactWebhookPayload).
BodiesAreWholeOrNarrow ==
    \A i \in DOMAIN stored :
        stored[i].payload = IF stored[i].redacted = None
                            THEN original[i]
                            ELSE {p \in original[i] :
                                    \E n \in 1..Len(p) : SubSeq(p, 1, n) \in REDACTION_ALLOWLIST}

\* Nothing is narrowed before the shortest retention anybody may configure.
NothingIsNarrowedEarly ==
    \A i \in DOMAIN stored :
        stored[i].redacted # None => stored[i].redacted - stored[i].received >= MinRetention

\* A run that reports a drained backlog left no row due at its cutoff, except
\* rows another run had locked at that moment and never finished
\* (redactExpiredPayloads, "A short batch means the backlog is drained").
DrainedIsDrained ==
    \A u \in Redactions :
        redaction[u].pc = "drained" => DueRows(redaction[u].cutoff) \subseteq redaction[u].skipped

\* What retention promises over overlapping and interrupted runs.
RetentionHolds ==
    RecordsTypeOK /\ BodiesAreWholeOrNarrow /\ NothingIsNarrowedEarly /\ DrainedIsDrained

RedactionStep ==
    \A i \in DOMAIN stored :
        /\ i \in DOMAIN stored'
        /\ stored[i].redacted # None => stored'[i] = stored[i]

\* The first narrowing of a row stands: its instant is never moved and the row
\* never comes back or goes away.
RedactionIsFinal == [][RedactionStep]_recordVars
=============================================================================
