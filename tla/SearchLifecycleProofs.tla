-------------------------- MODULE SearchLifecycleProofs --------------------------
(***************************************************************************)
(* Proofs about the Search lifecycle, for any number of Searches, workers  *)
(* and faults, any attempt budget and any moves of the user.               *)
(*                                                                         *)
(* The row counts claims and the history counts failures; the budget is    *)
(* safe because a claim is always charged before its failure can be        *)
(* (Charged).  The fence compares worker ids only; it names the newest     *)
(* claim because a worker that still owns the row it works on holds the    *)
(* row's current count (NewestClaimIsHeld).                                *)
(***************************************************************************)
EXTENDS SearchLifecycle, TLAPS

Working == {"discover", "research", "complete", "fail"}

\* A worker has a Search exactly while it works on one.
Busy == \A w \in Workers : cur[w] \in Searches <=> pc[w] \in Working

Charged ==
    \A s \in Searches :
        /\ failures[s] <= searches[s].attempts
        /\ searches[s].status = "RUNNING" /\ searches[s].owner # NoWorker =>
              failures[s] < searches[s].attempts

\* A row that does not exist yet has neither owner nor past.
Fresh ==
    \A s \in Searches :
        searches[s].status = "ABSENT" => searches[s].owner = NoWorker /\ failures[s] = 0

NewestClaimIsHeld ==
    \A w \in Workers, s \in Searches :
        (cur[w] = s /\ Owned(w, s)) => claim[w] = searches[s].attempts

IInv ==
    /\ TypeOK
    /\ Busy
    /\ Fresh
    /\ Charged
    /\ NewestClaimIsHeld
    /\ FailuresWithinBudget
    /\ NoSearchIsStuck

LEMMA InitHolds == Init => IInv
<1> SUFFICES ASSUME Init PROVE IInv
  OBVIOUS
<1> USE NoWorkerAssumption, NoSearchAssumption, MaxAttemptsAssumption, MaxFaultsAssumption
<1>1. TypeOK
  BY DEF Init, TypeOK, Row, Status, PC
<1>2. Busy
  BY DEF Init, Busy, Working
<1>3. Fresh /\ Charged /\ NewestClaimIsHeld
  BY DEF Init, Fresh, Charged, NewestClaimIsHeld, Owned
<1>4. FailuresWithinBudget /\ NoSearchIsStuck
  BY DEF Init, FailuresWithinBudget, NoSearchIsStuck
<1> QED
  BY <1>1, <1>2, <1>3, <1>4 DEF IInv

\* The four ways a statement rewrites a row, field by field.
LEMMA MovedRowEffect ==
    ASSUME TypeOK, NEW s \in Searches, NEW to \in UserMoves
    PROVE  /\ MovedRow(s, to) \in Row
           /\ MovedRow(s, to).status = to
           /\ MovedRow(s, to).owner = searches[s].owner
           /\ MovedRow(s, to).lease = searches[s].lease
           /\ MovedRow(s, to).attempts =
                 IF to = "RUNNING" THEN searches[s].attempts + 1 ELSE searches[s].attempts
<1> DEFINE row == [searches[s] EXCEPT !.status = to]
<1>1. row \in Row /\ row.status = to /\ row.owner = searches[s].owner
      /\ row.lease = searches[s].lease /\ row.attempts = searches[s].attempts
  BY UserMovesAssumption DEF TypeOK, Row, Status
<1>2. [row EXCEPT !.attempts = row.attempts + 1] = [searches[s] EXCEPT !.status = to, !.attempts = searches[s].attempts + 1]
  BY <1>1 DEF TypeOK, Row
<1>3. CASE to = "RUNNING"
  <2>1. MovedRow(s, to) = [row EXCEPT !.attempts = row.attempts + 1]
    BY <1>3 DEF MovedRow
  <2> HIDE DEF row
  <2> QED
    BY <2>1, <1>1, <1>3 DEF Row
<1>4. CASE to = "FAILED"
  <2>1. MovedRow(s, to) = [row EXCEPT !.error = TRUE]
    BY <1>4 DEF MovedRow
  <2> HIDE DEF row
  <2> QED
    BY <2>1, <1>1, <1>4 DEF Row
<1>5. CASE to \notin {"RUNNING", "FAILED"}
  <2>1. MovedRow(s, to) = row
    BY <1>5 DEF MovedRow
  <2> QED
    BY <2>1, <1>1, <1>5
<1> QED
  BY <1>3, <1>4, <1>5

LEMMA UnleasedEffect ==
    ASSUME TypeOK, NEW s \in Searches, NEW status \in Status
    PROVE  /\ Unleased(s, status) \in Row
           /\ Unleased(s, status).status = status
           /\ Unleased(s, status).owner = NoWorker
           /\ Unleased(s, status).lease = "none"
           /\ Unleased(s, status).attempts = searches[s].attempts
BY DEF TypeOK, Row, Unleased

LEMMA FailedRowEffect ==
    ASSUME TypeOK, NEW s \in Searches
    PROVE  /\ FailedRow(s) \in Row
           /\ FailedRow(s).status \in {"FAILED", "PENDING"}
           /\ FailedRow(s).status = "PENDING" => searches[s].attempts < MaxAttempts
           /\ FailedRow(s).owner = NoWorker
           /\ FailedRow(s).lease = "none"
           /\ FailedRow(s).attempts = searches[s].attempts
<1> DEFINE status == IF Exhausted(searches[s].attempts) THEN "FAILED" ELSE "PENDING"
           row == Unleased(s, status)
<1>1. status \in Status /\ status \in {"FAILED", "PENDING"}
      /\ (status = "PENDING" => searches[s].attempts < MaxAttempts)
  BY MaxAttemptsAssumption DEF Status, Exhausted, TypeOK, Row
<1> HIDE DEF status
<1>2. /\ row \in Row /\ row.status = status /\ row.owner = NoWorker
      /\ row.lease = "none" /\ row.attempts = searches[s].attempts
  BY <1>1, UnleasedEffect
<1>3. FailedRow(s) = [row EXCEPT !.error = TRUE]
  BY DEF FailedRow, row, status
<1> HIDE DEF row
<1> QED
  BY <1>1, <1>2, <1>3 DEF Row

LEMMA ClaimEffect ==
    ASSUME TypeOK, NEW v \in Workers, NEW s \in Searches, Claim(v, s)
    PROVE  /\ searches' \in [Searches -> Row]
           /\ \A q \in Searches : q # s => searches'[q] = searches[q]
           /\ searches'[s].status = "RUNNING"
           /\ searches'[s].owner = v
           /\ searches'[s].lease = "live"
           /\ searches'[s].attempts = searches[s].attempts + 1
<1> DEFINE row == [searches[s] EXCEPT !.status = "RUNNING", !.owner = v, !.lease = "live",
                                      !.attempts = searches[s].attempts + 1]
<1>0. searches[s] \in Row /\ searches[s].attempts + 1 \in Nat
  BY DEF TypeOK, Row
<1>1. /\ row \in Row /\ row.status = "RUNNING" /\ row.owner = v
      /\ row.lease = "live" /\ row.attempts = searches[s].attempts + 1
  <2> DEFINE n == searches[s].attempts + 1
  <2>1. n \in Nat
    BY <1>0
  <2> HIDE DEF n
  <2> QED
    BY <2>1, <1>0 DEF Row, Status
<1>2. searches' = [searches EXCEPT ![s] = row]
  BY DEF Claim
<1> HIDE DEF row
<1>3. searches' \in [Searches -> Row] /\ searches'[s] = row
  BY <1>1, <1>2 DEF TypeOK
<1>4. \A q \in Searches : q # s => searches'[q] = searches[q]
  BY <1>2 DEF TypeOK
<1> QED
  BY <1>1, <1>3, <1>4

LEMMA CreateKeeps ==
    ASSUME IInv, NEW s \in Searches, Create(s)
    PROVE  IInv'
<1> USE NoWorkerAssumption, NoSearchAssumption, MaxAttemptsAssumption, MaxFaultsAssumption,
        UserMovesAssumption
<1> USE DEF IInv
<1>1. TypeOK'
  BY DEF TypeOK, Row, Status, PC, Busy, Working, Create
<1>2. Busy'
  BY DEF TypeOK, Busy, Working, PC, Create
<1>3. Charged'
  BY DEF TypeOK, Row, Busy, Working, Charged, NoSearchIsStuck, Owned, Create
<1>4. NewestClaimIsHeld'
  BY DEF TypeOK, Row, Busy, Working, NewestClaimIsHeld, NoSearchIsStuck, Owned, Create
<1>5. FailuresWithinBudget'
  BY DEF TypeOK, Row, Busy, Working, Fresh, Charged, FailuresWithinBudget, Owned, Create
<1>6. NoSearchIsStuck'
  BY DEF TypeOK, Row, Busy, Working, Fresh, NoSearchIsStuck, Owned, Create
<1>7. Fresh'
  BY DEF TypeOK, Row, Status, Busy, Working, Fresh, Owned, Create
<1> QED
  BY <1>1, <1>2, <1>3, <1>4, <1>5, <1>6, <1>7

LEMMA TransitionKeeps ==
    ASSUME IInv, NEW s \in Searches, NEW to \in UserMoves, TransitionSearch(s, to)
    PROVE  IInv'
<1> USE NoWorkerAssumption, NoSearchAssumption, MaxAttemptsAssumption, MaxFaultsAssumption,
        UserMovesAssumption
<1> USE DEF IInv
<1>a. ValidTransition(searches[s].status, to) /\ searches' = [searches EXCEPT ![s] = MovedRow(s, to)]
      /\ UNCHANGED <<pc, cur, claim, failures, faults>>
  BY DEF TransitionSearch
<1>b. /\ searches' \in [Searches -> Row]
      /\ \A q \in Searches : q # s => searches'[q] = searches[q]
      /\ searches'[s].status = to
      /\ searches'[s].owner = searches[s].owner
      /\ searches'[s].lease = searches[s].lease
      /\ searches'[s].attempts =
            IF to = "RUNNING" THEN searches[s].attempts + 1 ELSE searches[s].attempts
  BY <1>a, MovedRowEffect DEF TypeOK
<1>1. TypeOK'
  BY <1>a, <1>b DEF TypeOK, Row, Status, PC, Busy, Working, ValidTransition, Terminal
<1>2. Busy'
  BY <1>a, <1>b DEF TypeOK, Busy, Working, PC, ValidTransition, Terminal
<1>3. Charged'
  BY <1>a, <1>b DEF TypeOK, Row, Busy, Working, Charged, NoSearchIsStuck, Owned, ValidTransition, Terminal
<1>4. NewestClaimIsHeld'
  BY <1>a, <1>b DEF TypeOK, Row, Busy, Working, NewestClaimIsHeld, NoSearchIsStuck, Owned, ValidTransition, Terminal
<1>5. FailuresWithinBudget'
  BY <1>a, <1>b DEF TypeOK, Row, Busy, Working, Fresh, Charged, FailuresWithinBudget, Owned, ValidTransition, Terminal
<1>6. NoSearchIsStuck'
  BY <1>a, <1>b DEF TypeOK, Row, Busy, Working, Fresh, NoSearchIsStuck, Owned, ValidTransition, Terminal
<1>7. Fresh'
  BY <1>a, <1>b DEF TypeOK, Row, Status, Busy, Working, Fresh, Owned, ValidTransition, Terminal
<1> QED
  BY <1>1, <1>2, <1>3, <1>4, <1>5, <1>6, <1>7

LEMMA ReleaseKeeps ==
    ASSUME IInv, NEW v \in Workers, Release(v)
    PROVE  IInv'
<1> USE NoWorkerAssumption, NoSearchAssumption, MaxAttemptsAssumption, MaxFaultsAssumption,
        UserMovesAssumption
<1> USE DEF IInv
<1>a. /\ searches' \in [Searches -> Row]
      /\ \A q \in Searches : ~Expired(q) => searches'[q] = searches[q]
      /\ \A q \in Searches : Expired(q) =>
            /\ searches'[q].status = "PENDING" /\ searches'[q].owner = NoWorker
            /\ searches'[q].lease = "none" /\ searches'[q].attempts = searches[q].attempts
  BY UnleasedEffect DEF Release, ReleasedRow, TypeOK, Status
<1>b. pc[v] = "release" /\ pc' = [pc EXCEPT ![v] = "claim"] /\ UNCHANGED <<cur, claim, failures, faults>>
  BY DEF Release
<1>1. TypeOK'
  BY <1>a, <1>b DEF TypeOK, Row, Status, PC, Busy, Working, Expired
<1>2. Busy'
  BY <1>a, <1>b DEF TypeOK, Busy, Working, PC, Expired
<1>3. Charged'
  BY <1>a, <1>b DEF TypeOK, Row, Busy, Working, Charged, NoSearchIsStuck, Owned, Expired
<1>4. NewestClaimIsHeld'
  BY <1>a, <1>b DEF TypeOK, Row, Busy, Working, NewestClaimIsHeld, NoSearchIsStuck, Owned, Expired
<1>5. FailuresWithinBudget'
  BY <1>a, <1>b DEF TypeOK, Row, Busy, Working, Fresh, Charged, FailuresWithinBudget, Owned, Expired
<1>6. NoSearchIsStuck'
  BY <1>a, <1>b DEF TypeOK, Row, Busy, Working, Fresh, NoSearchIsStuck, Owned, Expired
<1>7. Fresh'
  BY <1>a, <1>b DEF TypeOK, Row, Status, Busy, Working, Fresh, Owned, Expired
<1> QED
  BY <1>1, <1>2, <1>3, <1>4, <1>5, <1>6, <1>7

LEMMA ClaimKeeps ==
    ASSUME IInv, NEW v \in Workers, NEW s \in Searches, Claim(v, s)
    PROVE  IInv'
<1> USE NoWorkerAssumption, NoSearchAssumption, MaxAttemptsAssumption, MaxFaultsAssumption,
        UserMovesAssumption
<1> USE DEF IInv
<1>a. /\ searches' \in [Searches -> Row]
      /\ \A q \in Searches : q # s => searches'[q] = searches[q]
      /\ searches'[s].status = "RUNNING"
      /\ searches'[s].owner = v
      /\ searches'[s].lease = "live"
      /\ searches'[s].attempts = searches[s].attempts + 1
  BY ClaimEffect
<1>b. /\ pc[v] = "claim" /\ searches[s].status = "PENDING"
      /\ pc' = [pc EXCEPT ![v] = "discover"] /\ cur' = [cur EXCEPT ![v] = s]
      /\ claim' = [claim EXCEPT ![v] = searches[s].attempts + 1] /\ UNCHANGED <<failures, faults>>
  BY DEF Claim
<1>1. TypeOK'
  BY <1>a, <1>b DEF TypeOK, Row, Status, PC, Busy, Working
<1>2. Busy'
  BY <1>a, <1>b DEF TypeOK, Busy, Working, PC
<1>3. Charged'
  BY <1>a, <1>b DEF TypeOK, Row, Busy, Working, Charged, NoSearchIsStuck, Owned
<1>4. NewestClaimIsHeld'
  BY <1>a, <1>b DEF TypeOK, Row, Busy, Working, NewestClaimIsHeld, NoSearchIsStuck, Owned
<1>5. FailuresWithinBudget'
  BY <1>a, <1>b DEF TypeOK, Row, Busy, Working, Fresh, Charged, FailuresWithinBudget, Owned
<1>6. NoSearchIsStuck'
  BY <1>a, <1>b DEF TypeOK, Row, Busy, Working, Fresh, NoSearchIsStuck, Owned
<1>7. Fresh'
  BY <1>a, <1>b DEF TypeOK, Row, Status, Busy, Working, Fresh, Owned
<1> QED
  BY <1>1, <1>2, <1>3, <1>4, <1>5, <1>6, <1>7

LEMMA CompleteKeeps ==
    ASSUME IInv, NEW v \in Workers, Complete(v)
    PROVE  IInv'
<1> USE NoWorkerAssumption, NoSearchAssumption, MaxAttemptsAssumption, MaxFaultsAssumption,
        UserMovesAssumption
<1> USE DEF IInv
<1>a. cur[v] \in Searches /\ pc[v] = "complete"
  BY DEF Complete, TypeOK, Busy, Working
<1>b. /\ searches' \in [Searches -> Row]
      /\ \A q \in Searches : (q # cur[v] \/ ~Owned(v, q)) => searches'[q] = searches[q]
      /\ Owned(v, cur[v]) =>
            /\ searches'[cur[v]].status = "COMPLETE" /\ searches'[cur[v]].owner = NoWorker
            /\ searches'[cur[v]].lease = "none"
            /\ searches'[cur[v]].attempts = searches[cur[v]].attempts
  BY <1>a, UnleasedEffect DEF Complete, TypeOK, Status
<1>c. /\ pc' = [pc EXCEPT ![v] = "release"] /\ cur' = [cur EXCEPT ![v] = NoSearch]
      /\ UNCHANGED <<claim, failures, faults>>
  BY DEF Complete, Forget
<1>1. TypeOK'
  BY <1>a, <1>b, <1>c DEF TypeOK, Row, Status, PC, Busy, Working
<1>2. Busy'
  BY <1>a, <1>b, <1>c DEF TypeOK, Busy, Working, PC
<1>3. Charged'
  BY <1>a, <1>b, <1>c DEF TypeOK, Row, Busy, Working, Charged, NoSearchIsStuck, Owned
<1>4. NewestClaimIsHeld'
  BY <1>a, <1>b, <1>c DEF TypeOK, Row, Busy, Working, NewestClaimIsHeld, NoSearchIsStuck, Owned
<1>5. FailuresWithinBudget'
  BY <1>a, <1>b, <1>c DEF TypeOK, Row, Busy, Working, Fresh, Charged, FailuresWithinBudget, Owned
<1>6. NoSearchIsStuck'
  BY <1>a, <1>b, <1>c DEF TypeOK, Row, Busy, Working, Fresh, NoSearchIsStuck, Owned
<1>7. Fresh'
  BY <1>a, <1>b, <1>c DEF TypeOK, Row, Status, Busy, Working, Fresh, Owned
<1> QED
  BY <1>1, <1>2, <1>3, <1>4, <1>5, <1>6, <1>7

LEMMA RecordFailureKeeps ==
    ASSUME IInv, NEW v \in Workers, RecordFailure(v)
    PROVE  IInv'
<1> USE NoWorkerAssumption, NoSearchAssumption, MaxAttemptsAssumption, MaxFaultsAssumption,
        UserMovesAssumption
<1> USE DEF IInv
<1>a. cur[v] \in Searches /\ pc[v] = "fail"
  BY DEF RecordFailure, TypeOK, Busy, Working
<1>b. /\ searches' \in [Searches -> Row]
      /\ \A q \in Searches : (q # cur[v] \/ ~Owned(v, q)) => searches'[q] = searches[q]
      /\ Owned(v, cur[v]) =>
            /\ searches'[cur[v]].status \in {"FAILED", "PENDING"}
            /\ searches'[cur[v]].status = "PENDING" => searches[cur[v]].attempts < MaxAttempts
            /\ searches'[cur[v]].owner = NoWorker
            /\ searches'[cur[v]].lease = "none"
            /\ searches'[cur[v]].attempts = searches[cur[v]].attempts
  BY <1>a, FailedRowEffect DEF RecordFailure, TypeOK
<1>c. /\ failures' = IF Owned(v, cur[v]) THEN [failures EXCEPT ![cur[v]] = @ + 1] ELSE failures
      /\ pc' = [pc EXCEPT ![v] = "release"] /\ cur' = [cur EXCEPT ![v] = NoSearch]
      /\ UNCHANGED <<claim, faults>>
  BY DEF RecordFailure, Forget
<1>1. TypeOK'
  BY <1>a, <1>b, <1>c DEF TypeOK, Row, Status, PC, Busy, Working
<1>2. Busy'
  BY <1>a, <1>b, <1>c DEF TypeOK, Busy, Working, PC
<1>3. Charged'
  BY <1>a, <1>b, <1>c DEF TypeOK, Row, Busy, Working, Charged, NoSearchIsStuck, Owned
<1>4. NewestClaimIsHeld'
  BY <1>a, <1>b, <1>c DEF TypeOK, Row, Busy, Working, NewestClaimIsHeld, NoSearchIsStuck, Owned
<1>5. FailuresWithinBudget'
  BY <1>a, <1>b, <1>c DEF TypeOK, Row, Busy, Working, Fresh, Charged, FailuresWithinBudget, Owned
<1>6. NoSearchIsStuck'
  BY <1>a, <1>b, <1>c DEF TypeOK, Row, Busy, Working, Fresh, NoSearchIsStuck, Owned
<1>7. Fresh'
  BY <1>a, <1>b, <1>c DEF TypeOK, Row, Status, Busy, Working, Fresh, Owned
<1> QED
  BY <1>1, <1>2, <1>3, <1>4, <1>5, <1>6, <1>7

LEMMA LeaseRunsOutKeeps ==
    ASSUME IInv, NEW s \in Searches, LeaseRunsOut(s)
    PROVE  IInv'
<1> USE NoWorkerAssumption, NoSearchAssumption, MaxAttemptsAssumption, MaxFaultsAssumption,
        UserMovesAssumption
<1> USE DEF IInv
<1>1. TypeOK'
  BY DEF TypeOK, Row, Status, PC, Busy, Working, LeaseRunsOut, Fault
<1>2. Busy'
  BY DEF TypeOK, Busy, Working, PC, LeaseRunsOut, Fault
<1>3. Charged'
  BY DEF TypeOK, Row, Busy, Working, Charged, NoSearchIsStuck, Owned, LeaseRunsOut, Fault
<1>4. NewestClaimIsHeld'
  BY DEF TypeOK, Row, Busy, Working, NewestClaimIsHeld, NoSearchIsStuck, Owned, LeaseRunsOut, Fault
<1>5. FailuresWithinBudget'
  BY DEF TypeOK, Row, Busy, Working, Fresh, Charged, FailuresWithinBudget, Owned, LeaseRunsOut, Fault
<1>6. NoSearchIsStuck'
  BY DEF TypeOK, Row, Busy, Working, Fresh, NoSearchIsStuck, Owned, LeaseRunsOut, Fault
<1>7. Fresh'
  BY DEF TypeOK, Row, Status, Busy, Working, Fresh, Owned, LeaseRunsOut, Fault
<1> QED
  BY <1>1, <1>2, <1>3, <1>4, <1>5, <1>6, <1>7

\* Steps that leave the table and the history alone.
LEMMA QuietKeeps ==
    ASSUME IInv, UNCHANGED <<searches, claim, failures>>, TypeOK', Busy',
           \A w \in Workers : cur'[w] \in {cur[w], NoSearch}
    PROVE  IInv'
<1>1. NewestClaimIsHeld'
  BY NoSearchAssumption DEF IInv, NewestClaimIsHeld, Owned
<1>2. Fresh' /\ Charged' /\ FailuresWithinBudget' /\ NoSearchIsStuck'
  BY DEF IInv, Fresh, Charged, FailuresWithinBudget, NoSearchIsStuck
<1> QED
  BY <1>1, <1>2 DEF IInv

LEMMA NextKeeps == IInv /\ [Next]_vars => IInv'
<1> SUFFICES ASSUME IInv, [Next]_vars PROVE IInv'
  OBVIOUS
<1> USE NoSearchAssumption, MaxFaultsAssumption
<1>1. ASSUME NEW s \in Searches, Create(s) PROVE IInv'
  BY <1>1, CreateKeeps
<1>2. ASSUME NEW s \in Searches, LeaseRunsOut(s) PROVE IInv'
  BY <1>2, LeaseRunsOutKeeps
<1>3. ASSUME NEW s \in Searches, NEW to \in UserMoves, TransitionSearch(s, to) PROVE IInv'
  BY <1>3, TransitionKeeps
<1>4. ASSUME NEW w \in Workers, Release(w) PROVE IInv'
  BY <1>4, ReleaseKeeps
<1>5. ASSUME NEW w \in Workers, NEW s \in Searches, Claim(w, s) PROVE IInv'
  BY <1>5, ClaimKeeps
<1>6. ASSUME NEW w \in Workers, ClaimNothing(w) PROVE IInv'
  <2>1. TypeOK' /\ Busy' /\ UNCHANGED <<searches, cur, claim, failures>>
    BY <1>6 DEF IInv, TypeOK, PC, Busy, Working, ClaimNothing
  <2> QED
    BY <2>1, QuietKeeps
<1>7. ASSUME NEW w \in Workers, Discover(w) PROVE IInv'
  <2>1. \E to \in {"research", "fail"} : pc' = [pc EXCEPT ![w] = to]
    BY <1>7 DEF Discover
  <2>2. TypeOK' /\ Busy' /\ UNCHANGED <<searches, cur, claim, failures>>
    BY <1>7, <2>1 DEF IInv, TypeOK, PC, Busy, Working, Discover
  <2> QED
    BY <2>2, QuietKeeps
<1>8. ASSUME NEW w \in Workers, Research(w) PROVE IInv'
  <2>1. \E to \in {"complete", "fail"} : pc' = [pc EXCEPT ![w] = to]
    BY <1>8 DEF Research
  <2>2. TypeOK' /\ Busy' /\ UNCHANGED <<searches, cur, claim, failures>>
    BY <1>8, <2>1 DEF IInv, TypeOK, PC, Busy, Working, Research
  <2> QED
    BY <2>2, QuietKeeps
<1>9. ASSUME NEW w \in Workers, Complete(w) PROVE IInv'
  BY <1>9, CompleteKeeps
<1>10. ASSUME NEW w \in Workers, RecordFailure(w) PROVE IInv'
  BY <1>10, RecordFailureKeeps
<1>11. ASSUME NEW w \in Workers, CompleteFails(w) PROVE IInv'
  <2>1. TypeOK' /\ Busy' /\ UNCHANGED <<searches, cur, claim, failures>>
    BY <1>11 DEF IInv, TypeOK, PC, Busy, Working, CompleteFails, Fault
  <2> QED
    BY <2>1, QuietKeeps
<1>12. ASSUME NEW w \in Workers, Crash(w) PROVE IInv'
  <2>1. TypeOK' /\ Busy' /\ UNCHANGED <<searches, claim, failures>>
    BY <1>12 DEF IInv, TypeOK, PC, Busy, Working, Crash, Forget, Fault
  <2>2. \A v \in Workers : cur'[v] \in {cur[v], NoSearch}
    BY <1>12 DEF IInv, TypeOK, Crash, Forget
  <2> QED
    BY <2>1, <2>2, QuietKeeps
<1>13. ASSUME UNCHANGED vars PROVE IInv'
  BY <1>13 DEF vars, IInv, TypeOK, Busy, Fresh, Charged, NewestClaimIsHeld, Owned,
               FailuresWithinBudget, NoSearchIsStuck
<1> QED
  BY <1>1, <1>2, <1>3, <1>4, <1>5, <1>6, <1>7, <1>8, <1>9, <1>10, <1>11, <1>12, <1>13
     DEF Next, Work

\* The inductive invariant holds in every reachable state.
THEOREM Invariance == Spec => []IInv
<1>1. Init => IInv
  BY InitHolds
<1>2. IInv /\ [Next]_vars => IInv'
  BY NextKeeps
<1> QED
  BY <1>1, <1>2, PTL DEF Spec

\* Every variable keeps its type.
THEOREM TypeCorrect == Spec => []TypeOK
<1>1. IInv => TypeOK
  BY DEF IInv
<1> QED
  BY <1>1, Invariance, PTL

\* A Search never fails more often than its budget, and one that is still to
\* run has budget left (recordAttemptFailure).
THEOREM FailuresWithinBudgetHolds == Spec => []FailuresWithinBudget
<1>1. IInv => FailuresWithinBudget
  BY DEF IInv
<1> QED
  BY <1>1, Invariance, PTL

\* A PENDING Search has no owner and an owned one has a lease, so that either a
\* claim or a lease recovery can reach it (claimNextPending, releaseExpiredLeases).
THEOREM NoSearchIsStuckHolds == Spec => []NoSearchIsStuck
<1>1. IInv => NoSearchIsStuck
  BY DEF IInv
<1> QED
  BY <1>1, Invariance, PTL

--------------------------------------------------------------------------
(* What a step does to the rows.                                           *)

\* The statements that end a claim, as the action properties see them.
Settled(s) ==
    \E w \in Workers : /\ Owned(w, s)
                       /\ cur[w] = s
                       /\ pc[w] \in {"complete", "fail"}

RowEffect(s) ==
    \/ searches'[s] = searches[s]
    \/ searches[s].status = "ABSENT"
    \/ /\ searches[s].status \in {"PENDING", "RUNNING"}
       /\ searches'[s].owner = searches[s].owner
    \/ searches[s].status = "PENDING"
    \/ /\ Expired(s)
       /\ searches'[s].status = "PENDING"
    \/ Settled(s)

LEMMA StepEffect ==
    ASSUME IInv, Next, NEW q \in Searches
    PROVE  RowEffect(q)
<1>1. ASSUME NEW s \in Searches, Create(s) PROVE RowEffect(q)
  BY <1>1 DEF IInv, TypeOK, Create, RowEffect
<1>2. ASSUME NEW s \in Searches, LeaseRunsOut(s) PROVE RowEffect(q)
  <2>1. CASE q = s
    BY <1>2, <2>1 DEF IInv, TypeOK, Row, LeaseRunsOut, RowEffect
  <2>2. CASE q # s
    BY <1>2, <2>2 DEF IInv, TypeOK, LeaseRunsOut, RowEffect
  <2> QED
    BY <2>1, <2>2
<1>3. ASSUME NEW s \in Searches, NEW to \in UserMoves, TransitionSearch(s, to) PROVE RowEffect(q)
  <2>1. CASE q = s
    <3>1. searches'[q] = MovedRow(q, to) /\ searches[q].status \in {"PENDING", "RUNNING"}
      BY <1>3, <2>1 DEF IInv, TypeOK, TransitionSearch, ValidTransition
    <3> QED
      BY <3>1, MovedRowEffect DEF IInv, RowEffect
  <2>2. CASE q # s
    BY <1>3, <2>2 DEF IInv, TypeOK, TransitionSearch, RowEffect
  <2> QED
    BY <2>1, <2>2
<1>4. ASSUME NEW w \in Workers, Release(w) PROVE RowEffect(q)
  BY <1>4, UnleasedEffect DEF IInv, Release, ReleasedRow, RowEffect, Status
<1>5. ASSUME NEW w \in Workers, NEW s \in Searches, Claim(w, s) PROVE RowEffect(q)
  BY <1>5, ClaimEffect DEF IInv, Claim, RowEffect
<1>6. ASSUME NEW w \in Workers, Complete(w) \/ RecordFailure(w) PROVE RowEffect(q)
  <2>1. searches'[q] = searches[q] \/ (cur[w] = q /\ Owned(w, q))
    BY <1>6 DEF IInv, TypeOK, Complete, RecordFailure
  <2> QED
    BY <1>6, <2>1 DEF Complete, RecordFailure, RowEffect, Settled
<1>7. ASSUME NEW w \in Workers,
             ClaimNothing(w) \/ Discover(w) \/ Research(w) \/ CompleteFails(w) \/ Crash(w)
      PROVE  RowEffect(q)
  BY <1>7 DEF ClaimNothing, Discover, Research, CompleteFails, Crash, RowEffect
<1> QED
  BY <1>1, <1>2, <1>3, <1>4, <1>5, <1>6, <1>7 DEF Next, Work

\* Only the newest claim of a Search settles it; a worker that comes back after
\* its lease was taken changes nothing (completeClaimed, recordAttemptFailure).
THEOREM NewestClaimSettlesHolds == Spec => NewestClaimSettles
<1>1. ASSUME IInv, Next PROVE SettlingStep
  BY <1>1, StepEffect DEF SettlingStep, RowEffect, Settled, Expired, IInv, NewestClaimIsHeld
<1>2. IInv /\ [Next]_vars => [SettlingStep]_vars
  BY <1>1
<1> QED
  BY <1>2, Invariance, PTL DEF NewestClaimSettles, Spec

\* COMPLETE, FAILED and CANCELLED are final, whoever gets there first (state.ts).
THEOREM TerminalIsFinalHolds == Spec => TerminalIsFinal
<1>1. ASSUME IInv, Next PROVE TerminalStep
  BY <1>1, StepEffect DEF TerminalStep, RowEffect, Settled, Owned, Expired, Terminal
<1>2. IInv /\ [Next]_vars => [TerminalStep]_vars
  BY <1>1
<1> QED
  BY <1>2, Invariance, PTL DEF TerminalIsFinal, Spec
=============================================================================
