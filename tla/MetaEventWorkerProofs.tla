------------------------- MODULE MetaEventWorkerProofs -------------------------
(***************************************************************************)
(* Machine-checked proofs about the conversion outbox, for any number of   *)
(* rows, workers, faults, attempts and any batch size.                     *)
(***************************************************************************)
EXTENDS MetaEventWorker, TLAPS

LEMMA InitTyped == Init => TypeOK
  BY MaxAttemptsAssumption, MaxFaultsAssumption DEF Init, TypeOK, Row, Status, Note, PC

\* The rows the statements write are rows of the table.
LEMMA RowsTyped ==
  ASSUME TypeOK, NEW e \in Events
  PROVE  /\ meta_events[e] \in Row
         /\ \A s \in Status : Unleased(e, s) \in Row
         /\ ReleasedRow(e) \in Row
  <1>1. meta_events[e] \in Row
    BY DEF TypeOK
  <1>2. ASSUME NEW s \in Status PROVE Unleased(e, s) \in Row
    BY <1>1 DEF Row, Unleased
  <1>3. QED
    BY <1>1, <1>2 DEF ReleasedRow, Status

LEMMA FencedUpdateTyped ==
  ASSUME TypeOK, NEW w \in Workers, NEW e \in Events, NEW row \in Row, FencedUpdate(w, e, row)
  PROVE  meta_events' \in [Events -> Row]
  BY DEF TypeOK, FencedUpdate

LEMMA MarkSentTyped ==
  ASSUME TypeOK, NEW w \in Workers, NEW e \in Events, MarkSent(w, e)
  PROVE  meta_events' \in [Events -> Row]
  <1>1. Unleased(e, "SENT") \in Row
    BY RowsTyped DEF Status
  <1>2. [Unleased(e, "SENT") EXCEPT !.last_error = "none"] \in Row
    BY <1>1 DEF Row, Note
  <1>3. QED
    BY <1>2, FencedUpdateTyped DEF MarkSent

LEMMA MarkForRetryTyped ==
  ASSUME TypeOK, NEW w \in Workers, NEW e \in Events, NEW n \in 0..MaxAttempts,
         NEW d \in BOOLEAN, MarkForRetry(w, e, n, d)
  PROVE  meta_events' \in [Events -> Row]
  <1>1. Unleased(e, "PENDING") \in Row
    BY RowsTyped DEF Status
  <1>2. [Unleased(e, "PENDING") EXCEPT
           !.attempts = n, !.due = d, !.last_error = "error"] \in Row
    BY <1>1 DEF Row, Note
  <1>3. QED
    BY <1>2, FencedUpdateTyped DEF MarkForRetry

LEMMA MarkDeadLetterTyped ==
  ASSUME TypeOK, NEW w \in Workers, NEW e \in Events, NEW n \in 0..MaxAttempts,
         MarkDeadLetter(w, e, n)
  PROVE  meta_events' \in [Events -> Row]
  <1>1. Unleased(e, "DEAD_LETTER") \in Row
    BY RowsTyped DEF Status
  <1>2. [Unleased(e, "DEAD_LETTER") EXCEPT !.attempts = n, !.last_error = "error"] \in Row
    BY <1>1 DEF Row, Note
  <1>3. QED
    BY <1>2, FencedUpdateTyped DEF MarkDeadLetter

LEMMA RecordAmbiguousSendTyped ==
  ASSUME TypeOK, NEW e \in Events, RecordAmbiguousSend(e)
  PROVE  meta_events' \in [Events -> Row]
  <1>1. [meta_events[e] EXCEPT !.last_error = "DELIVERED_UNCONFIRMED"] \in Row
    BY RowsTyped DEF Row, Note
  <1>2. QED
    BY <1>1 DEF RecordAmbiguousSend, TypeOK

--------------------------------------------------------------------------
(* The inductive invariant.                                                *)

\* A worker that is processing holds the event it processes.
Busy == \A w \in Workers : pc[w] # "idle" => cur[w] \in held[w]

\* A held event was enqueued and had budget left when it was claimed.
HeldInBudget ==
    \A w \in Workers, e \in Events :
        e \in held[w] => snap[w][e] < MaxAttempts /\ meta_events[e].status # "ABSENT"

\* What a worker's control point says about the event it processes.
Routed ==
    \A w \in Workers : /\ pc[w] \in {"load", "send"} => cur[w] \notin Unsupported
                       /\ pc[w] \in {"accepted", "annotate"} => accepted[cur[w]]

\* Only a PROCESSING row has a lease owner.
OnlyProcessingLeased ==
    \A e \in Events : meta_events[e].status # "PROCESSING" => meta_events[e].owner = NoWorker

IInv == /\ TypeOK
        /\ Busy
        /\ HeldInBudget
        /\ Routed
        /\ OnlyProcessingLeased
        /\ DeliveryIsReal
        /\ FreshSnapshot
        /\ BudgetRespected

LEMMA InitIInv == Init => IInv
  BY InitTyped, MaxAttemptsAssumption DEF Init, IInv, Busy, HeldInBudget, Routed,
     OnlyProcessingLeased, DeliveryIsReal, FreshSnapshot, BudgetRespected

\* A step that changes one row, keeps its lease and attempts, and leaves the
\* workers and Meta alone.
LEMMA RowStepKeeps ==
  ASSUME IInv, NEW e \in Events, NEW row \in Row,
         meta_events' = [meta_events EXCEPT ![e] = row],
         UNCHANGED <<pc, held, cur, snap, accepted>>, faults' \in 0..MaxFaults,
         row.attempts = meta_events[e].attempts,
         row.owner = meta_events[e].owner,
         \/ row.status = meta_events[e].status
         \/ meta_events[e].status = "ABSENT" /\ row.status = "PENDING"
  PROVE  IInv'
  <1>1. TypeOK'
    BY DEF IInv, TypeOK
  <1>2. Busy' /\ HeldInBudget' /\ Routed'
    BY DEF IInv, TypeOK, Busy, HeldInBudget, Routed, Row
  <1>3. OnlyProcessingLeased' /\ DeliveryIsReal'
    BY DEF IInv, TypeOK, OnlyProcessingLeased, DeliveryIsReal, Row
  <1>4. FreshSnapshot'
    BY DEF IInv, TypeOK, FreshSnapshot, Owned, Row
  <1>5. BudgetRespected'
    BY DEF IInv, TypeOK, BudgetRespected, Row
  <1>6. QED
    BY <1>1, <1>2, <1>3, <1>4, <1>5 DEF IInv

LEMMA EnqueueKeeps ==
  ASSUME IInv, NEW e \in Events, Enqueue(e)
  PROVE  IInv'
  <1> DEFINE row == [meta_events[e] EXCEPT !.status = "PENDING", !.due = TRUE]
  <1>1. row \in Row
    BY RowsTyped DEF IInv, Row, Status
  <1>2. /\ meta_events' = [meta_events EXCEPT ![e] = row]
        /\ UNCHANGED <<pc, held, cur, snap, accepted, faults>>
        /\ meta_events[e].status = "ABSENT"
    BY DEF Enqueue, IInv, TypeOK
  <1>3. /\ row.attempts = meta_events[e].attempts
        /\ row.owner = meta_events[e].owner
        /\ row.status = "PENDING"
    BY RowsTyped DEF IInv, Row
  <1>4. faults' \in 0..MaxFaults
    BY <1>2 DEF IInv, TypeOK
  <1>5. QED
    BY <1>1, <1>2, <1>3, <1>4, RowStepKeeps

LEMMA BecomesDueKeeps ==
  ASSUME IInv, NEW e \in Events, BecomesDue(e)
  PROVE  IInv'
  <1> DEFINE row == [meta_events[e] EXCEPT !.due = TRUE]
  <1>1. row \in Row
    BY RowsTyped DEF IInv, Row
  <1>2. /\ meta_events' = [meta_events EXCEPT ![e] = row]
        /\ UNCHANGED <<pc, held, cur, snap, accepted, faults>>
    BY DEF BecomesDue, IInv, TypeOK
  <1>3. /\ row.attempts = meta_events[e].attempts
        /\ row.owner = meta_events[e].owner
        /\ row.status = meta_events[e].status
    BY RowsTyped DEF IInv, Row
  <1>4. faults' \in 0..MaxFaults
    BY <1>2 DEF IInv, TypeOK
  <1>5. QED
    BY <1>1, <1>2, <1>3, <1>4, RowStepKeeps

LEMMA LeaseRunsOutKeeps ==
  ASSUME IInv, NEW e \in Events, LeaseRunsOut(e)
  PROVE  IInv'
  <1> DEFINE row == [meta_events[e] EXCEPT !.expired = TRUE]
  <1>1. row \in Row
    BY RowsTyped DEF IInv, Row
  <1>2. /\ meta_events' = [meta_events EXCEPT ![e] = row]
        /\ UNCHANGED <<pc, held, cur, snap, accepted>>
    BY DEF LeaseRunsOut, IInv, TypeOK
  <1>3. /\ row.attempts = meta_events[e].attempts
        /\ row.owner = meta_events[e].owner
        /\ row.status = meta_events[e].status
    BY RowsTyped DEF IInv, Row
  <1>4. faults' \in 0..MaxFaults
    BY MaxFaultsAssumption DEF LeaseRunsOut, IInv, TypeOK
  <1>5. QED
    BY <1>1, <1>2, <1>3, <1>4, RowStepKeeps

LEMMA ReleaseKeeps ==
  ASSUME IInv, NEW w \in Workers, Release(w)
  PROVE  IInv'
  <1>1. meta_events' \in [Events -> Row]
    BY RowsTyped DEF Release, IInv, TypeOK
  <1>2. UNCHANGED <<pc, held, cur, snap, accepted, faults>>
    BY DEF Release
  <1>3. ASSUME NEW e \in Events
        PROVE  \/ meta_events'[e] = meta_events[e]
               \/ /\ meta_events[e].status = "PROCESSING"
                  /\ meta_events'[e].status = "PENDING"
                  /\ meta_events'[e].owner = NoWorker
                  /\ meta_events'[e].attempts = meta_events[e].attempts
    BY RowsTyped DEF Release, Releasable, ReleasedRow, Unleased, IInv, Row
  <1>4. TypeOK'
    BY <1>1, <1>2 DEF IInv, TypeOK
  <1>5. Busy' /\ HeldInBudget' /\ Routed'
    BY <1>2, <1>3 DEF IInv, Busy, HeldInBudget, Routed
  <1>6. OnlyProcessingLeased' /\ DeliveryIsReal' /\ BudgetRespected'
    BY <1>2, <1>3 DEF IInv, OnlyProcessingLeased, DeliveryIsReal, BudgetRespected
  <1>7. FreshSnapshot'
    BY <1>2, <1>3 DEF IInv, FreshSnapshot, Owned
  <1>8. QED
    BY <1>4, <1>5, <1>6, <1>7 DEF IInv

LEMMA ClaimKeeps ==
  ASSUME IInv, NEW w \in Workers, Claim(w)
  PROVE  IInv'
  <1>1. PICK batch \in SUBSET Claimable :
          /\ meta_events' = [e \in Events |->
                 IF e \in batch
                 THEN [meta_events[e] EXCEPT !.status = "PROCESSING", !.owner = w,
                                             !.expired = FALSE]
                 ELSE meta_events[e]]
          /\ held' = [held EXCEPT ![w] = batch]
          /\ snap' = [snap EXCEPT ![w] = [e \in Events |->
                 IF e \in batch THEN meta_events[e].attempts ELSE 0]]
    BY DEF Claim
  <1>2. UNCHANGED <<pc, cur, accepted, faults>> /\ pc[w] = "idle" /\ held[w] = {}
    BY DEF Claim, Polling
  <1>3. ASSUME NEW e \in Events
        PROVE  /\ e \notin batch => meta_events'[e] = meta_events[e]
               /\ e \in batch => /\ meta_events[e].status = "PENDING"
                                 /\ meta_events'[e].status = "PROCESSING"
                                 /\ meta_events'[e].owner = w
                                 /\ meta_events'[e].attempts = meta_events[e].attempts
    BY <1>1, RowsTyped DEF IInv, Claimable, Row
  <1>4. meta_events' \in [Events -> Row]
    <2>1. ASSUME NEW e \in Events
          PROVE  [meta_events[e] EXCEPT !.status = "PROCESSING", !.owner = w, !.expired = FALSE]
                   \in Row
      BY RowsTyped DEF IInv, Row, Status
    <2>2. QED
      BY <1>1, <2>1, RowsTyped DEF IInv
  <1>5. /\ held' \in [Workers -> SUBSET Events]
        /\ snap' \in [Workers -> [Events -> 0..MaxAttempts]]
    <2>1. batch \in SUBSET Events
      BY DEF Claimable
    <2>2. [e \in Events |-> IF e \in batch THEN meta_events[e].attempts ELSE 0]
            \in [Events -> 0..MaxAttempts]
      BY RowsTyped, MaxAttemptsAssumption DEF IInv, Row
    <2>3. QED
      BY <1>1, <2>1, <2>2 DEF IInv, TypeOK
  <1>6. TypeOK'
    BY <1>2, <1>4, <1>5 DEF IInv, TypeOK
  <1>7. /\ \A v \in Workers \ {w} : held'[v] = held[v] /\ snap'[v] = snap[v]
        /\ held'[w] = batch
        /\ \A e \in Events : e \in batch => snap'[w][e] = meta_events[e].attempts
    BY <1>1 DEF IInv, TypeOK
  <1>8. Busy' /\ Routed'
    BY <1>2, <1>7 DEF IInv, Busy, Routed
  <1>9. HeldInBudget'
    BY <1>3, <1>7 DEF IInv, HeldInBudget, BudgetRespected
  <1>10. OnlyProcessingLeased' /\ DeliveryIsReal' /\ BudgetRespected'
    BY <1>2, <1>3 DEF IInv, OnlyProcessingLeased, DeliveryIsReal, BudgetRespected
  <1>11. FreshSnapshot'
    BY <1>3, <1>7 DEF IInv, FreshSnapshot, Owned
  <1>12. QED
    BY <1>6, <1>8, <1>9, <1>10, <1>11 DEF IInv

\* A step of the worker that changes neither the table nor what is held.
LEMMA PcStepKeeps ==
  ASSUME IInv, NEW w \in Workers, NEW p \in PC, NEW e \in held[w],
         pc' = [pc EXCEPT ![w] = p],
         cur' = [cur EXCEPT ![w] = e],
         accepted' \in [Events -> BOOLEAN],
         \A f \in Events : accepted[f] => accepted'[f],
         \A f \in Events : accepted'[f] => accepted[f] \/ f \notin Unsupported,
         p \in {"load", "send"} => e \notin Unsupported,
         p \in {"accepted", "annotate"} => accepted'[e],
         UNCHANGED <<meta_events, held, snap, faults>>
  PROVE  IInv'
  <1>1. TypeOK'
    BY DEF IInv, TypeOK
  <1>2. Busy' /\ HeldInBudget'
    BY DEF IInv, TypeOK, Busy, HeldInBudget
  <1>3. Routed'
    <2>1. ASSUME NEW v \in Workers, v # w
          PROVE  /\ pc'[v] = pc[v] /\ cur'[v] = cur[v]
                 /\ pc[v] # "idle" => cur[v] \in Events
      BY <2>1 DEF IInv, TypeOK, Busy
    <2>2. pc'[w] = p /\ cur'[w] = e
      BY DEF IInv, TypeOK
    <2>3. QED
      BY <2>1, <2>2 DEF IInv, Routed
  <1>4. OnlyProcessingLeased' /\ DeliveryIsReal' /\ BudgetRespected'
    BY DEF IInv, TypeOK, OnlyProcessingLeased, DeliveryIsReal, BudgetRespected
  <1>5. FreshSnapshot'
    BY DEF IInv, FreshSnapshot, Owned
  <1>6. QED
    BY <1>1, <1>2, <1>3, <1>4, <1>5 DEF IInv

LEMMA BeginKeeps ==
  ASSUME IInv, NEW w \in Workers, NEW e \in Events, Begin(w, e)
  PROVE  IInv'
  <1> DEFINE p == IF e \in Unsupported THEN "permanent" ELSE "load"
  <1>1. p \in PC
    BY DEF PC, Verdicts
  <1>2. p \in {"load", "send"} => e \notin Unsupported
    OBVIOUS
  <1>3. p \notin {"accepted", "annotate"}
    OBVIOUS
  <1>4. QED
    BY <1>1, <1>2, <1>3, PcStepKeeps DEF Begin, IInv, TypeOK

LEMMA LoadContextKeeps ==
  ASSUME IInv, NEW w \in Workers, LoadContext(w)
  PROVE  IInv'
  <1>1. PICK p \in {"send", "permanent", "load_failed"} : pc' = [pc EXCEPT ![w] = p]
    BY DEF LoadContext
  <1>2. p \in PC /\ p \notin {"accepted", "annotate"}
    BY DEF PC, Verdicts
  <1>3. /\ cur[w] \in held[w] /\ cur[w] \notin Unsupported
        /\ cur' = [cur EXCEPT ![w] = cur[w]]
        /\ UNCHANGED <<meta_events, held, snap, accepted, faults>>
    BY DEF LoadContext, IInv, TypeOK, Busy, Routed
  <1>4. QED
    BY <1>1, <1>2, <1>3, PcStepKeeps DEF IInv, TypeOK

LEMMA SendKeeps ==
  ASSUME IInv, NEW w \in Workers, Send(w)
  PROVE  IInv'
  <1>1. PICK p \in {"accepted", "permanent", "meta_failed"}, delivered \in BOOLEAN :
          /\ p = "accepted" => delivered
          /\ pc' = [pc EXCEPT ![w] = p]
          /\ accepted' = [accepted EXCEPT ![cur[w]] = @ \/ delivered]
    BY DEF Send
  <1>2. p \in PC /\ p \notin {"load", "send", "annotate"}
    BY DEF PC, Verdicts
  <1>3. /\ cur[w] \in held[w] /\ cur[w] \in Events /\ cur[w] \notin Unsupported
        /\ cur' = [cur EXCEPT ![w] = cur[w]]
        /\ UNCHANGED <<meta_events, held, snap, faults>>
    BY DEF Send, IInv, TypeOK, Busy, Routed
  <1>4. /\ accepted' \in [Events -> BOOLEAN]
        /\ \A f \in Events : accepted[f] => accepted'[f]
        /\ \A f \in Events : accepted'[f] => accepted[f] \/ f \notin Unsupported
        /\ p = "accepted" => accepted'[cur[w]]
    BY <1>1, <1>3 DEF IInv, TypeOK
  <1>5. QED
    BY <1>1, <1>2, <1>3, <1>4, PcStepKeeps

\* What a settling statement of worker w does to the table: the row e is ended
\* by its owner, or keeps its status, lease and attempts.
Ended(w, e) ==
    /\ \A f \in Events \ {e} : meta_events'[f] = meta_events[f]
    /\ \/ /\ meta_events'[e].owner = meta_events[e].owner
          /\ meta_events'[e].status = meta_events[e].status
          /\ meta_events'[e].attempts = meta_events[e].attempts
       \/ /\ Owned(w, e)
          /\ meta_events'[e].owner = NoWorker
          /\ meta_events'[e].status \in {"PENDING", "SENT", "DEAD_LETTER"}
          /\ meta_events'[e].status = "SENT" => accepted[e]
          /\ meta_events'[e].status = "PENDING" => meta_events'[e].attempts < MaxAttempts

\* Dropping events from what a worker holds, after at most one ended row.
LEMMA DropKeeps ==
  ASSUME IInv, NEW w \in Workers, NEW e \in Events, NEW rest \in SUBSET held[w],
         meta_events' \in [Events -> Row], Ended(w, e),
         pc' = [pc EXCEPT ![w] = "idle"],
         held' = [held EXCEPT ![w] = rest],
         cur' = [cur EXCEPT ![w] = NoEvent],
         UNCHANGED <<snap, accepted>>, faults' \in 0..MaxFaults
  PROVE  IInv'
  <1>1. TypeOK'
    BY DEF IInv, TypeOK, PC
  <1>2. ASSUME NEW f \in Events
        PROVE  \/ /\ meta_events'[f].owner = meta_events[f].owner
                  /\ meta_events'[f].status = meta_events[f].status
                  /\ meta_events'[f].attempts = meta_events[f].attempts
               \/ /\ meta_events[f].status = "PROCESSING"
                  /\ meta_events'[f].owner = NoWorker
                  /\ meta_events'[f].status \in {"PENDING", "SENT", "DEAD_LETTER"}
                  /\ meta_events'[f].status = "SENT" => accepted[f]
                  /\ meta_events'[f].status = "PENDING" => meta_events'[f].attempts < MaxAttempts
    BY DEF Ended, Owned
  <1>3. ASSUME NEW v \in Workers
        PROVE  /\ held'[v] \in SUBSET held[v]
               /\ v # w => pc'[v] = pc[v] /\ cur'[v] = cur[v] /\ held'[v] = held[v]
               /\ pc'[w] = "idle"
    BY DEF IInv, TypeOK
  <1>4. Busy' /\ Routed'
    BY <1>3 DEF IInv, Busy, Routed
  <1>5. HeldInBudget'
    BY <1>2, <1>3 DEF IInv, HeldInBudget
  <1>6. OnlyProcessingLeased' /\ DeliveryIsReal' /\ BudgetRespected'
    BY <1>2 DEF IInv, OnlyProcessingLeased, DeliveryIsReal, BudgetRespected
  <1>7. FreshSnapshot'
    BY <1>2, <1>3, NoWorkerAssumption DEF IInv, FreshSnapshot, Owned
  <1>8. QED
    BY <1>1, <1>4, <1>5, <1>6, <1>7 DEF IInv

LEMMA MarkSentEnds ==
  ASSUME IInv, NEW w \in Workers, NEW e \in Events, MarkSent(w, e), accepted[e]
  PROVE  Ended(w, e)
  BY RowsTyped DEF IInv, TypeOK, MarkSent, FencedUpdate, Unleased, Ended, Row

LEMMA MarkDeadLetterEnds ==
  ASSUME IInv, NEW w \in Workers, NEW e \in Events, NEW n \in 0..MaxAttempts,
         MarkDeadLetter(w, e, n)
  PROVE  Ended(w, e)
  BY RowsTyped DEF IInv, TypeOK, MarkDeadLetter, FencedUpdate, Unleased, Ended, Row

LEMMA MarkForRetryEnds ==
  ASSUME IInv, NEW w \in Workers, NEW e \in Events, NEW n \in 0..MaxAttempts,
         NEW d \in BOOLEAN, n < MaxAttempts, MarkForRetry(w, e, n, d)
  PROVE  Ended(w, e)
  BY RowsTyped DEF IInv, TypeOK, MarkForRetry, FencedUpdate, Unleased, Ended, Row

LEMMA CurrentIsHeld ==
  ASSUME IInv, NEW w \in Workers, pc[w] # "idle"
  PROVE  /\ cur[w] \in Events
         /\ cur[w] \in held[w]
         /\ held[w] \ {cur[w]} \in SUBSET held[w]
         /\ snap[w][cur[w]] \in 0..MaxAttempts
         /\ snap[w][cur[w]] < MaxAttempts
  BY DEF IInv, TypeOK, Busy, HeldInBudget

LEMMA FinishKeeps ==
  ASSUME IInv, NEW w \in Workers, pc[w] # "idle", Finish(w),
         meta_events' \in [Events -> Row], Ended(w, cur[w]), faults' = faults
  PROVE  IInv'
  <1>1. faults' \in 0..MaxFaults
    BY DEF IInv, TypeOK
  <1>2. QED
    BY <1>1, CurrentIsHeld, DropKeeps DEF Finish

LEMMA SettleAcceptedKeeps ==
  ASSUME IInv, NEW w \in Workers, SettleAccepted(w)
  PROVE  IInv'
  <1>1. /\ pc[w] = "accepted" /\ MarkSent(w, cur[w])
        /\ cur[w] \in Events /\ cur[w] \in held[w] /\ accepted[cur[w]]
    BY CurrentIsHeld DEF SettleAccepted, IInv, Routed
  <1>2. CASE Owned(w, cur[w])
    <2>1. Finish(w) /\ faults' = faults
      BY <1>2 DEF SettleAccepted, Finish
    <2>2. meta_events' \in [Events -> Row]
      BY <1>1, MarkSentTyped DEF IInv
    <2>3. QED
      BY <1>1, <2>1, <2>2, MarkSentEnds, FinishKeeps
  <1>3. CASE ~Owned(w, cur[w])
    <2>1. /\ pc' = [pc EXCEPT ![w] = "annotate"]
          /\ cur' = [cur EXCEPT ![w] = cur[w]]
          /\ UNCHANGED <<meta_events, held, snap, accepted, faults>>
      BY <1>1, <1>3 DEF SettleAccepted, MarkSent, FencedUpdate, IInv, TypeOK
    <2>2. "annotate" \in PC
      BY DEF PC
    <2>3. QED
      BY <1>1, <2>1, <2>2, PcStepKeeps DEF IInv, TypeOK
  <1>4. QED
    BY <1>2, <1>3

LEMMA AnnotateKeeps ==
  ASSUME IInv, NEW w \in Workers, Annotate(w)
  PROVE  IInv'
  <1>1. /\ pc[w] = "annotate" /\ RecordAmbiguousSend(cur[w])
        /\ Finish(w) /\ faults' = faults
        /\ cur[w] \in Events
    BY CurrentIsHeld DEF Annotate, Finish
  <1>2. meta_events' \in [Events -> Row]
    BY <1>1, RecordAmbiguousSendTyped DEF IInv
  <1>3. /\ \A f \in Events \ {cur[w]} : meta_events'[f] = meta_events[f]
        /\ meta_events'[cur[w]].owner = meta_events[cur[w]].owner
        /\ meta_events'[cur[w]].status = meta_events[cur[w]].status
        /\ meta_events'[cur[w]].attempts = meta_events[cur[w]].attempts
    BY <1>1, RowsTyped DEF IInv, TypeOK, RecordAmbiguousSend, Row
  <1>4. Ended(w, cur[w])
    BY <1>3 DEF Ended
  <1>5. QED
    BY <1>1, <1>2, <1>4, FinishKeeps

LEMMA SettlePermanentKeeps ==
  ASSUME IInv, NEW w \in Workers, SettlePermanent(w)
  PROVE  IInv'
  <1>1. /\ pc[w] # "idle" /\ MarkDeadLetter(w, cur[w], snap[w][cur[w]])
        /\ Finish(w) /\ faults' = faults
    BY DEF SettlePermanent, Finish
  <1>2. meta_events' \in [Events -> Row]
    BY <1>1, CurrentIsHeld, MarkDeadLetterTyped DEF IInv
  <1>3. QED
    BY <1>1, <1>2, CurrentIsHeld, MarkDeadLetterEnds, FinishKeeps

LEMMA ScheduleRetryKeeps ==
  ASSUME IInv, NEW w \in Workers, ScheduleRetry(w)
  PROVE  IInv'
  <1> DEFINE n == snap[w][cur[w]] + 1
  <1>1. pc[w] # "idle" /\ Finish(w) /\ faults' = faults
    BY DEF ScheduleRetry, Finish
  <1>2. n \in 0..MaxAttempts
    BY <1>1, CurrentIsHeld, MaxAttemptsAssumption
  <1>3. CASE n >= MaxAttempts
    <2>1. MarkDeadLetter(w, cur[w], n)
      BY <1>3 DEF ScheduleRetry, HasExhaustedAttempts
    <2>2. meta_events' \in [Events -> Row]
      BY <1>1, <1>2, <2>1, CurrentIsHeld, MarkDeadLetterTyped DEF IInv
    <2>3. QED
      BY <1>1, <1>2, <2>1, <2>2, CurrentIsHeld, MarkDeadLetterEnds, FinishKeeps
  <1>4. CASE ~(n >= MaxAttempts)
    <2>1. PICK d \in BOOLEAN : MarkForRetry(w, cur[w], n, d)
      BY <1>4 DEF ScheduleRetry, HasExhaustedAttempts
    <2>2. meta_events' \in [Events -> Row]
      BY <1>1, <1>2, <2>1, CurrentIsHeld, MarkForRetryTyped DEF IInv
    <2>3. n < MaxAttempts
      BY <1>2, <1>4, MaxAttemptsAssumption
    <2>4. QED
      BY <1>1, <1>2, <2>1, <2>2, <2>3, CurrentIsHeld, MarkForRetryEnds, FinishKeeps
  <1>5. QED
    BY <1>3, <1>4

LEMMA StatementFailsKeeps ==
  ASSUME IInv, NEW w \in Workers, StatementFails(w)
  PROVE  IInv'
  <1>1. /\ pc[w] # "idle"
        /\ pc' = [pc EXCEPT ![w] = "idle"]
        /\ held' = [held EXCEPT ![w] = @ \ {cur[w]}]
        /\ cur' = [cur EXCEPT ![w] = NoEvent]
        /\ UNCHANGED <<meta_events, snap, accepted>>
    BY DEF StatementFails, Verdicts
  <1>2. held' = [held EXCEPT ![w] = held[w] \ {cur[w]}]
    BY <1>1 DEF IInv, TypeOK
  <1>3. faults' \in 0..MaxFaults /\ meta_events' \in [Events -> Row]
    BY <1>1, MaxFaultsAssumption DEF StatementFails, IInv, TypeOK
  <1>4. Ended(w, cur[w])
    BY <1>1 DEF Ended
  <1>5. QED
    BY <1>1, <1>2, <1>3, <1>4, CurrentIsHeld, DropKeeps

LEMMA CrashKeeps ==
  ASSUME IInv, NEW w \in Workers, Crash(w)
  PROVE  IInv'
  <1>1. /\ pc' = [pc EXCEPT ![w] = "idle"]
        /\ held' = [held EXCEPT ![w] = {}]
        /\ cur' = [cur EXCEPT ![w] = NoEvent]
        /\ UNCHANGED <<meta_events, snap, accepted>>
    BY DEF Crash
  <1>2. PICK e \in Events : e \in held[w]
    BY DEF Crash, Polling, IInv, TypeOK, Busy
  <1>3. faults' \in 0..MaxFaults /\ meta_events' \in [Events -> Row]
    BY <1>1, MaxFaultsAssumption DEF Crash, IInv, TypeOK
  <1>4. Ended(w, e) /\ {} \in SUBSET held[w]
    BY <1>1 DEF Ended
  <1>5. QED
    BY <1>1, <1>2, <1>3, <1>4, DropKeeps

LEMMA NextKeeps ==
  ASSUME IInv, [Next]_vars
  PROVE  IInv'
  <1>1. ASSUME NEW e \in Events, Enqueue(e) \/ BecomesDue(e) \/ LeaseRunsOut(e)
        PROVE  IInv'
    BY <1>1, EnqueueKeeps, BecomesDueKeeps, LeaseRunsOutKeeps
  <1>2. ASSUME NEW w \in Workers, Release(w) \/ Claim(w)
        PROVE  IInv'
    BY <1>2, ReleaseKeeps, ClaimKeeps
  <1>3. ASSUME NEW w \in Workers, Process(w)
        PROVE  IInv'
    BY <1>3, BeginKeeps, LoadContextKeeps, SendKeeps, SettleAcceptedKeeps, AnnotateKeeps,
       SettlePermanentKeeps, ScheduleRetryKeeps DEF Process
  <1>4. ASSUME NEW w \in Workers, StatementFails(w) \/ Crash(w)
        PROVE  IInv'
    BY <1>4, StatementFailsKeeps, CrashKeeps
  <1>5. CASE UNCHANGED vars
    BY <1>5 DEF vars, IInv, TypeOK, Busy, HeldInBudget, Routed, OnlyProcessingLeased,
       DeliveryIsReal, FreshSnapshot, BudgetRespected, Owned
  <1>6. QED
    BY <1>1, <1>2, <1>3, <1>4, <1>5 DEF Next

\* The strengthened invariant holds in every state of every behaviour.
THEOREM Invariance == Spec => []IInv
  <1>1. Init => IInv
    BY InitIInv
  <1>2. IInv /\ [Next]_vars => IInv'
    BY NextKeeps
  <1>3. QED
    BY <1>1, <1>2, PTL DEF Spec

\* Every variable keeps its type: in particular attempts never passes the
\* budget (the table's columns, backoff.ts).
THEOREM TypeCorrect == Spec => []TypeOK
  <1>1. IInv => TypeOK
    BY DEF IInv
  <1>2. QED
    BY <1>1, Invariance, PTL

\* SENT only for what Meta accepted, and no unknown event name ever reaches
\* Meta (worker.ts processMetaEvent).
THEOREM DeliveryIsRealHolds == Spec => []DeliveryIsReal
  <1>1. IInv => DeliveryIsReal
    BY DEF IInv
  <1>2. QED
    BY <1>1, Invariance, PTL

\* The owner of a row always computes from the row's current attempt count
\* (worker.ts scheduleRetry).
THEOREM FreshSnapshotHolds == Spec => []FreshSnapshot
  <1>1. IInv => FreshSnapshot
    BY DEF IInv
  <1>2. QED
    BY <1>1, Invariance, PTL

\* A row that can still be delivered has attempts left (backoff.ts).
THEOREM BudgetHolds == Spec => []BudgetRespected
  <1>1. IInv => BudgetRespected
    BY DEF IInv
  <1>2. QED
    BY <1>1, Invariance, PTL

--------------------------------------------------------------------------
(* What one step may do to one row.                                        *)

Kept(e) == /\ meta_events'[e].status = meta_events[e].status
           /\ meta_events'[e].owner = meta_events[e].owner
           /\ meta_events'[e].attempts = meta_events[e].attempts

Enqueued(e) == /\ meta_events[e].status = "ABSENT"
               /\ meta_events'[e].status = "PENDING"
               /\ meta_events'[e].attempts = meta_events[e].attempts

Claimed(e) == /\ meta_events[e].status = "PENDING"
              /\ meta_events'[e].status = "PROCESSING"
              /\ meta_events'[e].attempts = meta_events[e].attempts

Released(e) == /\ meta_events[e].status = "PROCESSING"
               /\ meta_events[e].expired
               /\ meta_events'[e].status = "PENDING"
               /\ meta_events'[e].attempts = meta_events[e].attempts

SettledBy(w, e) ==
    /\ Owned(w, e)
    /\ cur[w] = e
    /\ \/ /\ pc[w] = "accepted"
          /\ accepted[e]
          /\ meta_events'[e].status = "SENT"
          /\ meta_events'[e].attempts = meta_events[e].attempts
       \/ /\ pc[w] = "permanent"
          /\ meta_events'[e].status = "DEAD_LETTER"
          /\ meta_events'[e].attempts = meta_events[e].attempts
       \/ /\ pc[w] \in {"meta_failed", "load_failed"}
          /\ meta_events'[e].attempts = meta_events[e].attempts + 1
          /\ \/ meta_events'[e].status = "PENDING"
             \/ /\ meta_events'[e].status = "DEAD_LETTER"
                /\ meta_events'[e].attempts = MaxAttempts

RowEffect(e) == \/ Kept(e)
                \/ Enqueued(e)
                \/ Claimed(e)
                \/ Released(e)
                \/ \E w \in Workers : SettledBy(w, e)

LEMMA SettlementEffect ==
  ASSUME IInv, NEW w \in Workers, NEW e \in Events,
         SettleAccepted(w) \/ Annotate(w) \/ SettlePermanent(w) \/ ScheduleRetry(w)
  PROVE  Kept(e) \/ SettledBy(w, e)
  <1> DEFINE c == cur[w]
             n == snap[w][c] + 1
  <1>1. pc[w] # "idle" /\ c \in Events /\ n \in Nat /\ n <= MaxAttempts
    BY CurrentIsHeld, MaxAttemptsAssumption
       DEF SettleAccepted, Annotate, SettlePermanent, ScheduleRetry
  <1>2. Owned(w, c) => snap[w][c] = meta_events[c].attempts
    BY <1>1, CurrentIsHeld DEF IInv, FreshSnapshot
  <1>3. CASE SettleAccepted(w)
    <2>1. pc[w] = "accepted" /\ accepted[c] /\ MarkSent(w, c)
      BY <1>3 DEF SettleAccepted, IInv, Routed
    <2>2. QED
      BY <1>1, <2>1, RowsTyped
         DEF IInv, TypeOK, MarkSent, FencedUpdate, Unleased, Kept, SettledBy, Row
  <1>4. CASE Annotate(w)
    BY <1>1, <1>4, RowsTyped DEF IInv, TypeOK, Annotate, RecordAmbiguousSend, Kept, Row
  <1>5. CASE SettlePermanent(w)
    <2>1. pc[w] = "permanent" /\ MarkDeadLetter(w, c, snap[w][c])
      BY <1>5 DEF SettlePermanent
    <2>2. QED
      BY <1>1, <1>2, <2>1, RowsTyped
         DEF IInv, TypeOK, MarkDeadLetter, FencedUpdate, Unleased, Kept, SettledBy, Row
  <1>6. CASE ScheduleRetry(w)
    <2>1. pc[w] \in {"meta_failed", "load_failed"}
      BY <1>6 DEF ScheduleRetry
    <2>2. CASE n >= MaxAttempts
      <3>1. MarkDeadLetter(w, c, n) /\ n = MaxAttempts
        BY <1>1, <1>6, <2>2, MaxAttemptsAssumption DEF ScheduleRetry, HasExhaustedAttempts
      <3>2. QED
        BY <1>1, <1>2, <2>1, <3>1, RowsTyped
           DEF IInv, TypeOK, MarkDeadLetter, FencedUpdate, Unleased, Kept, SettledBy, Row
    <2>3. CASE ~(n >= MaxAttempts)
      <3>1. PICK d \in BOOLEAN : MarkForRetry(w, c, n, d)
        BY <1>6, <2>3 DEF ScheduleRetry, HasExhaustedAttempts
      <3>2. QED
        BY <1>1, <1>2, <2>1, <3>1, RowsTyped
           DEF IInv, TypeOK, MarkForRetry, FencedUpdate, Unleased, Kept, SettledBy, Row
    <2>4. QED
      BY <2>2, <2>3
  <1>7. QED
    BY <1>3, <1>4, <1>5, <1>6

LEMMA RowOfTimeEffect ==
  ASSUME IInv, NEW e \in Events, NEW f \in Events,
         Enqueue(f) \/ BecomesDue(f) \/ LeaseRunsOut(f)
  PROVE  Kept(e) \/ (e = f /\ Enqueued(e))
  <1>1. meta_events[e] \in Row /\ meta_events \in [Events -> Row]
    BY RowsTyped DEF IInv, TypeOK
  <1>2. CASE Enqueue(f)
    BY <1>1, <1>2 DEF Enqueue, Kept, Enqueued, Row
  <1>3. CASE BecomesDue(f)
    BY <1>1, <1>3 DEF BecomesDue, Kept, Row
  <1>4. CASE LeaseRunsOut(f)
    BY <1>1, <1>4 DEF LeaseRunsOut, Kept, Row
  <1>5. QED
    BY <1>2, <1>3, <1>4

LEMMA ClaimEffect ==
  ASSUME IInv, NEW e \in Events, NEW w \in Workers, Claim(w)
  PROVE  Kept(e) \/ Claimed(e)
  <1>1. meta_events[e] \in Row
    BY RowsTyped DEF IInv
  <1>2. PICK batch \in SUBSET Claimable :
          meta_events' = [f \in Events |->
              IF f \in batch
              THEN [meta_events[f] EXCEPT !.status = "PROCESSING", !.owner = w,
                                          !.expired = FALSE]
              ELSE meta_events[f]]
    BY DEF Claim
  <1>3. CASE e \in batch
    BY <1>1, <1>2, <1>3 DEF Claimable, Claimed, Row
  <1>4. CASE e \notin batch
    BY <1>2, <1>4 DEF Kept
  <1>5. QED
    BY <1>3, <1>4

LEMMA ReleaseEffect ==
  ASSUME IInv, NEW e \in Events, NEW w \in Workers, Release(w)
  PROVE  Kept(e) \/ Released(e)
  BY RowsTyped DEF IInv, Release, Releasable, ReleasedRow, Unleased, Kept, Released, Row

LEMMA StepEffect ==
  ASSUME IInv, [Next]_vars, NEW e \in Events
  PROVE  RowEffect(e)
  <1>1. meta_events[e] \in Row
    BY RowsTyped DEF IInv
  <1>2. ASSUME meta_events' = meta_events PROVE Kept(e)
    BY <1>2 DEF Kept
  <1>3. ASSUME NEW f \in Events, Enqueue(f) \/ BecomesDue(f) \/ LeaseRunsOut(f)
        PROVE  Kept(e) \/ Enqueued(e)
    BY <1>3, RowOfTimeEffect
  <1>4. ASSUME NEW w \in Workers, Release(w)
        PROVE  Kept(e) \/ Released(e)
    BY <1>4, ReleaseEffect
  <1>5. ASSUME NEW w \in Workers, Claim(w)
        PROVE  Kept(e) \/ Claimed(e)
    BY <1>5, ClaimEffect
  <1>6. ASSUME NEW w \in Workers, Process(w)
        PROVE  Kept(e) \/ SettledBy(w, e)
    BY <1>2, <1>6, SettlementEffect DEF Process, Begin, LoadContext, Send
  <1>7. ASSUME NEW w \in Workers, StatementFails(w) \/ Crash(w)
        PROVE  Kept(e)
    BY <1>2, <1>7 DEF StatementFails, Crash
  <1>8. CASE UNCHANGED vars
    BY <1>2, <1>8 DEF vars, RowEffect
  <1>9. QED
    BY <1>3, <1>4, <1>5, <1>6, <1>7, <1>8 DEF Next, RowEffect

\* Nobody but its owner ends a lease that has not run out (pgRepository.ts).
THEOREM LiveLeaseHonouredHolds == Spec => LiveLeaseHonoured
  <1>1. ASSUME IInv, [Next]_vars, NEW w \in Workers, NEW e \in Events,
               Owned(w, e), ~Owned(w, e)'
        PROVE  meta_events[e].expired \/ (cur[w] = e /\ pc[w] \in Verdicts)
    BY <1>1, StepEffect
       DEF RowEffect, Kept, Enqueued, Claimed, Released, SettledBy, Owned, Verdicts
  <1>2. IInv /\ IInv' /\ [Next]_vars => [LiveLeaseStep]_vars
    BY <1>1 DEF LiveLeaseStep
  <1>3. QED
    BY <1>2, Invariance, PTL DEF Spec, LiveLeaseHonoured

\* SENT and DEAD_LETTER rows never move again (worker.ts, state machine).
THEOREM TerminalIsFinalHolds == Spec => TerminalIsFinal
  <1>1. ASSUME IInv, IInv', [Next]_vars, NEW e \in Events,
               meta_events[e].status \in {"SENT", "DEAD_LETTER"}
        PROVE  /\ meta_events'[e].status = meta_events[e].status
               /\ meta_events'[e].attempts = meta_events[e].attempts
               /\ meta_events'[e].owner = NoWorker
    <2>1. Kept(e)
      BY <1>1, StepEffect DEF RowEffect, Enqueued, Claimed, Released, SettledBy, Owned
    <2>2. meta_events[e].owner = NoWorker
      BY <1>1 DEF IInv, OnlyProcessingLeased
    <2>3. QED
      BY <2>1, <2>2 DEF Kept
  <1>2. IInv /\ IInv' /\ [Next]_vars => [TerminalStep]_vars
    BY <1>1 DEF TerminalStep
  <1>3. QED
    BY <1>2, Invariance, PTL DEF Spec, TerminalIsFinal

\* Attempts are charged one by one, by the owner, for a failed delivery, and
\* nothing is given up with budget left (worker.ts scheduleRetry).
THEOREM AttemptsCountFailuresHolds == Spec => AttemptsCountFailures
  <1>1. ASSUME IInv, [Next]_vars, NEW e \in Events
        PROVE  /\ meta_events'[e].attempts # meta_events[e].attempts =>
                    \E w \in Workers :
                      /\ Owned(w, e)
                      /\ cur[w] = e
                      /\ pc[w] \in {"meta_failed", "load_failed"}
                      /\ meta_events'[e].attempts = meta_events[e].attempts + 1
               /\ (meta_events'[e].status = "DEAD_LETTER" /\ meta_events[e].status # "DEAD_LETTER") =>
                    \/ meta_events'[e].attempts = MaxAttempts
                    \/ \E w \in Workers : Owned(w, e) /\ cur[w] = e /\ pc[w] = "permanent"
    BY <1>1, StepEffect DEF RowEffect, Kept, Enqueued, Claimed, Released, SettledBy
  <1>2. IInv /\ IInv' /\ [Next]_vars => [AttemptsStep]_vars
    BY <1>1 DEF AttemptsStep
  <1>3. QED
    BY <1>2, Invariance, PTL DEF Spec, AttemptsCountFailures

LEMMA AcceptanceEffect ==
  ASSUME IInv, [Next]_vars
  PROVE  \/ accepted' = accepted
         \/ /\ meta_events' = meta_events
            /\ \E e \in Events : /\ meta_events[e].status # "ABSENT"
                                 /\ accepted' = [accepted EXCEPT ![e] = TRUE]
  <1>1. ASSUME NEW w \in Workers, Send(w)
        PROVE  \/ accepted' = accepted
               \/ /\ meta_events' = meta_events
                  /\ \E e \in Events : /\ meta_events[e].status # "ABSENT"
                                       /\ accepted' = [accepted EXCEPT ![e] = TRUE]
    <2>1. pc[w] # "idle" /\ meta_events' = meta_events
      BY <1>1 DEF Send
    <2>2. PICK delivered \in BOOLEAN : accepted' = [accepted EXCEPT ![cur[w]] = @ \/ delivered]
      BY <1>1 DEF Send
    <2>3. cur[w] \in Events /\ meta_events[cur[w]].status # "ABSENT"
      BY <2>1, CurrentIsHeld DEF IInv, HeldInBudget
    <2>4. CASE delivered
      BY <2>1, <2>2, <2>3, <2>4 DEF IInv, TypeOK
    <2>5. CASE ~delivered
      BY <2>2, <2>3, <2>5 DEF IInv, TypeOK
    <2>6. QED
      BY <2>4, <2>5
  <1>2. QED
    BY <1>1 DEF Next, Process, vars, Enqueue, BecomesDue, LeaseRunsOut, Release, Claim, Begin,
       LoadContext, SettleAccepted, Annotate, SettlePermanent, ScheduleRetry, Finish,
       StatementFails, Crash

LEMMA OutcomeEffect ==
  ASSUME IInv, [Next]_vars
  PROVE  \/ outcomeBar' = outcomeBar
         \/ \E e \in Events :
              /\ accepted' = accepted
              /\ \/ outcomeBar[e] = "absent" /\ outcomeBar' = [outcomeBar EXCEPT ![e] = "queued"]
                 \/ /\ outcomeBar[e] = "queued" /\ accepted[e]
                    /\ outcomeBar' = [outcomeBar EXCEPT ![e] = "sent"]
                 \/ outcomeBar[e] = "queued" /\ outcomeBar' = [outcomeBar EXCEPT ![e] = "dead"]
  <1> DEFINE Goal == \/ outcomeBar' = outcomeBar
                     \/ \E e \in Events :
                          /\ accepted' = accepted
                          /\ \/ /\ outcomeBar[e] = "absent"
                                /\ outcomeBar' = [outcomeBar EXCEPT ![e] = "queued"]
                             \/ /\ outcomeBar[e] = "queued" /\ accepted[e]
                                /\ outcomeBar' = [outcomeBar EXCEPT ![e] = "sent"]
                             \/ /\ outcomeBar[e] = "queued"
                                /\ outcomeBar' = [outcomeBar EXCEPT ![e] = "dead"]
  <1>1. ASSUME \A e \in Events : Kept(e) \/ Claimed(e) \/ Released(e)
        PROVE  Goal
    BY <1>1 DEF outcomeBar, OutcomeOf, Kept, Claimed, Released
  <1>2. ASSUME NEW f \in Events, Enqueue(f) \/ BecomesDue(f) \/ LeaseRunsOut(f)
        PROVE  Goal
    <2>1. \A e \in Events : Kept(e) \/ (e = f /\ Enqueued(e))
      BY <1>2, RowOfTimeEffect
    <2>2. accepted' = accepted
      BY <1>2 DEF Enqueue, BecomesDue, LeaseRunsOut
    <2>3. CASE Kept(f)
      BY <1>1, <2>1, <2>3
    <2>4. CASE Enqueued(f)
      <3>1. \A e \in Events \ {f} : outcomeBar'[e] = outcomeBar[e]
        BY <2>1 DEF outcomeBar, OutcomeOf, Kept
      <3>2. outcomeBar[f] = "absent" /\ outcomeBar'[f] = "queued"
        BY <2>4 DEF outcomeBar, OutcomeOf, Enqueued
      <3>3. QED
        BY <2>2, <3>1, <3>2 DEF outcomeBar
    <2>5. QED
      BY <2>1, <2>3, <2>4
  <1>3. ASSUME NEW w \in Workers,
               SettleAccepted(w) \/ Annotate(w) \/ SettlePermanent(w) \/ ScheduleRetry(w)
        PROVE  Goal
    <2>1. \A e \in Events : Kept(e) \/ SettledBy(w, e)
      BY <1>3, SettlementEffect
    <2>2. accepted' = accepted
      BY <1>3 DEF SettleAccepted, Annotate, SettlePermanent, ScheduleRetry, Finish
    <2>3. CASE \A e \in Events : Kept(e)
      BY <1>1, <2>3
    <2>4. CASE \E e \in Events : ~Kept(e)
      <3>1. PICK e \in Events : SettledBy(w, e)
        BY <2>1, <2>4
      <3>2. \A f \in Events \ {e} : Kept(f)
        BY <2>1, <3>1 DEF SettledBy
      <3>3. \A f \in Events \ {e} : outcomeBar'[f] = outcomeBar[f]
        BY <3>2 DEF outcomeBar, OutcomeOf, Kept
      <3>4. \/ outcomeBar'[e] = outcomeBar[e]
            \/ outcomeBar[e] = "queued" /\ accepted[e] /\ outcomeBar'[e] = "sent"
            \/ outcomeBar[e] = "queued" /\ outcomeBar'[e] = "dead"
        BY <3>1 DEF outcomeBar, OutcomeOf, SettledBy, Owned
      <3>5. QED
        BY <2>2, <3>3, <3>4 DEF outcomeBar
    <2>5. QED
      BY <2>3, <2>4
  <1>4. CASE meta_events' = meta_events
    BY <1>4 DEF outcomeBar
  <1>5. ASSUME NEW w \in Workers, Release(w)
        PROVE  Goal
    BY <1>1, <1>5, ReleaseEffect
  <1>6. ASSUME NEW w \in Workers, Claim(w)
        PROVE  Goal
    BY <1>1, <1>6, ClaimEffect
  <1>7. QED
    BY <1>2, <1>3, <1>4, <1>5, <1>6
       DEF Next, Process, vars, Begin, LoadContext, Send, StatementFails, Crash

\* The outbox implements the delivery promise (all of apps/worker/src/metaEvents):
\* outcomes are decided once, and sent only after Meta's acceptance.
THEOREM DeliveryRefined == Spec => ImplementsDelivery
  <1>1. Init => Delivery!Init
    BY DEF Init, Delivery!Init, outcomeBar, OutcomeOf
  <1>2. IInv /\ [Next]_vars => [Delivery!Next]_(Delivery!vars)
    <2> SUFFICES ASSUME IInv, [Next]_vars
                 PROVE  [Delivery!Next]_(Delivery!vars)
      OBVIOUS
    <2>1. CASE outcomeBar' = outcomeBar /\ accepted' = accepted
      BY <2>1 DEF Delivery!vars
    <2>2. CASE accepted' # accepted
      <3>1. PICK e \in Events : /\ meta_events' = meta_events
                                /\ meta_events[e].status # "ABSENT"
                                /\ accepted' = [accepted EXCEPT ![e] = TRUE]
        BY <2>2, AcceptanceEffect
      <3>2. outcomeBar' = outcomeBar /\ outcomeBar[e] # "absent"
        BY <3>1 DEF outcomeBar, OutcomeOf
      <3>3. QED
        BY <3>1, <3>2 DEF Delivery!Next, Delivery!MetaAccepts
    <2>3. CASE outcomeBar' # outcomeBar
      BY <2>3, OutcomeEffect
         DEF Delivery!Next, Delivery!Enqueue, Delivery!ConfirmSent, Delivery!GiveUp
    <2>4. QED
      BY <2>1, <2>2, <2>3
  <1>3. QED
    BY <1>1, <1>2, Invariance, PTL DEF Spec, ImplementsDelivery, Delivery!Spec
=============================================================================
