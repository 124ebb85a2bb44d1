---------------------------- MODULE SearchLifecycle ----------------------------
(***************************************************************************)
(* The life of a Search: a row of the table searches that a user creates   *)
(* and a pool of worker processes claims under a lease, runs through the   *)
(* canonical pipeline and settles (packages/core-search, and the poll loop *)
(* of apps/worker/src/searchWorker), while the user may move the same row  *)
(* with transitionSearch.                                                  *)
(*                                                                         *)
(* One action is one database statement, or the pipeline between two of    *)
(* them.  Whether a lease has run out is nondeterministic from the moment  *)
(* it was taken.  A restarted process gets a fresh worker id in the code;  *)
(* here it keeps its own, which no row can tell apart, because a process   *)
(* works on one Search at a time and its predecessor is dead.              *)
(***************************************************************************)
EXTENDS Naturals

CONSTANTS
    Searches,     \* rows of searches, or ids still to be inserted
    Workers,      \* worker ids
    NoWorker,     \* lease_owner IS NULL
    NoSearch,     \* a worker without a Search
    MaxAttempts,  \* MAX_SEARCH_ATTEMPTS
    UserMoves,    \* the statuses transitionSearch is asked for
    MaxFaults     \* bound: crashes, failed statements and overrun leases

ASSUME NoWorkerAssumption == NoWorker \notin Workers
ASSUME NoSearchAssumption == NoSearch \notin Searches
ASSUME MaxAttemptsAssumption == MaxAttempts \in Nat \ {0}
ASSUME UserMovesAssumption ==
    UserMoves \subseteq {"PENDING", "RUNNING", "COMPLETE", "FAILED", "CANCELLED"}
ASSUME MaxFaultsAssumption == MaxFaults \in Nat

VARIABLES
    searches,   \* the table
    pc,         \* where each worker's loop stands
    cur,        \* the Search it has claimed
    claim,      \* the attempts its claim returned
    failures,   \* history: failed executions recorded for each Search
    faults      \* faults so far

vars == <<searches, pc, cur, claim, failures, faults>>

Status == {"ABSENT", "PENDING", "RUNNING", "COMPLETE", "FAILED", "CANCELLED"}
Terminal == {"COMPLETE", "FAILED", "CANCELLED"}

Row == [status : Status, attempts : Nat, owner : Workers \cup {NoWorker},
        lease : {"none", "live", "expired"}, error : BOOLEAN]

\* The worker's loop: release, claim, then the claimed Search.
PC == {"release", "claim", "discover", "research", "complete", "fail"}

\* Rows, and what a worker remembers of them, keep to their domains.
TypeOK ==
    /\ searches \in [Searches -> Row]
    /\ pc \in [Workers -> PC]
    /\ cur \in [Workers -> Searches \cup {NoSearch}]
    /\ claim \in [Workers -> Nat]
    /\ failures \in [Searches -> Nat]
    /\ faults \in 0..MaxFaults

Init ==
    /\ searches = [s \in Searches |->
           [status |-> "ABSENT", attempts |-> 0, owner |-> NoWorker,
            lease |-> "none", error |-> FALSE]]
    /\ pc = [w \in Workers |-> "release"]
    /\ cur = [w \in Workers |-> NoSearch]
    /\ claim = [w \in Workers |-> 0]
    /\ failures = [s \in Searches |-> 0]
    /\ faults = 0

--------------------------------------------------------------------------
(* The user's side.                                                        *)

\* createSearch, the INSERT.
Create(s) ==
    /\ searches[s].status = "ABSENT"
    /\ searches' = [searches EXCEPT ![s] = [@ EXCEPT !.status = "PENDING"]]
    /\ UNCHANGED <<pc, cur, claim, failures, faults>>

\* SEARCH_VALID_TRANSITIONS.
ValidTransition(from, to) ==
    \/ from = "PENDING" /\ to \in {"RUNNING", "CANCELLED"}
    \/ from = "RUNNING" /\ to \in Terminal

MovedRow(s, to) ==
    LET row == [searches[s] EXCEPT !.status = to] IN
    CASE to = "RUNNING" -> [row EXCEPT !.attempts = row.attempts + 1]
      [] to = "FAILED"  -> [row EXCEPT !.error = TRUE]
      [] OTHER          -> row

\* transitionSearch: its UPDATE compares the status with the one the graph was
\* asked about, so the read before it adds nothing.  The lease stays.
TransitionSearch(s, to) ==
    /\ ValidTransition(searches[s].status, to)
    /\ searches' = [searches EXCEPT ![s] = MovedRow(s, to)]
    /\ UNCHANGED <<pc, cur, claim, failures, faults>>

--------------------------------------------------------------------------
(* The worker.                                                             *)

\* Mutant: a fence on the status alone.
OwnedByAnyone(w, s) == searches[s].status = "RUNNING"

\* Mutant: a fence on the owner alone.
OwnedInAnyStatus(w, s) == searches[s].owner = w

\* The fence of completeClaimed and recordAttemptFailure.
Owned(w, s) == searches[s].status = "RUNNING" /\ searches[s].owner = w

Unleased(s, status) ==
    [searches[s] EXCEPT !.status = status, !.owner = NoWorker, !.lease = "none"]

\* Mutant: the release gives up rows whose attempts are spent.
ExpiredWithinBudget(s) ==
    /\ searches[s].status = "RUNNING"
    /\ searches[s].lease = "expired"
    /\ searches[s].attempts < MaxAttempts

Expired(s) == searches[s].status = "RUNNING" /\ searches[s].lease = "expired"

\* Mutant: the release forgets the lease columns.
ReleasedRowStillLeased(s) == [searches[s] EXCEPT !.status = "PENDING"]

ReleasedRow(s) == Unleased(s, "PENDING")

\* releaseExpiredLeases: one UPDATE over the table; attempts are left alone.
Release(w) ==
    /\ pc[w] = "release"
    /\ searches' = [s \in Searches |-> IF Expired(s) THEN ReleasedRow(s) ELSE searches[s]]
    /\ pc' = [pc EXCEPT ![w] = "claim"]
    /\ UNCHANGED <<cur, claim, failures, faults>>

\* claimNextPending.  SKIP LOCKED passes over rows another statement has
\* locked, so the oldest row it gets to may be any PENDING one.
Claim(w, s) ==
    /\ pc[w] = "claim"
    /\ searches[s].status = "PENDING"
    /\ searches' = [searches EXCEPT ![s] =
           [@ EXCEPT !.status = "RUNNING", !.owner = w, !.lease = "live",
                     !.attempts = searches[s].attempts + 1]]
    /\ cur' = [cur EXCEPT ![w] = s]
    /\ claim' = [claim EXCEPT ![w] = searches[s].attempts + 1]
    /\ pc' = [pc EXCEPT ![w] = "discover"]
    /\ UNCHANGED <<failures, faults>>

\* Nothing to claim: the loop sleeps and begins again.
ClaimNothing(w) ==
    /\ pc[w] = "claim"
    /\ \A s \in Searches : searches[s].status # "PENDING"
    /\ pc' = [pc EXCEPT ![w] = "release"]
    /\ UNCHANGED <<searches, cur, claim, failures, faults>>

\* runDiscoveryForOwner rereads the row and wants it RUNNING, by whomever;
\* the provider may fail.
Discover(w) ==
    /\ pc[w] = "discover"
    /\ \E ok \in BOOLEAN :
         pc' = [pc EXCEPT ![w] =
             IF ok /\ searches[cur[w]].status = "RUNNING" THEN "research" ELSE "fail"]
    /\ UNCHANGED <<searches, cur, claim, failures, faults>>

\* The rest of runCanonicalPipeline, which looks at the row no more.
Research(w) ==
    /\ pc[w] = "research"
    /\ pc' \in {[pc EXCEPT ![w] = to] : to \in {"complete", "fail"}}
    /\ UNCHANGED <<searches, cur, claim, failures, faults>>

\* The worker is done with its Search.
Forget(w) ==
    /\ pc' = [pc EXCEPT ![w] = "release"]
    /\ cur' = [cur EXCEPT ![w] = NoSearch]
    /\ UNCHANGED claim

\* completeClaimed.
Complete(w) ==
    /\ pc[w] = "complete"
    /\ searches' = IF Owned(w, cur[w])
                   THEN [searches EXCEPT ![cur[w]] = Unleased(cur[w], "COMPLETE")]
                   ELSE searches
    /\ Forget(w)
    /\ UNCHANGED <<failures, faults>>

\* Mutant: one attempt too many.
ExhaustedLate(attempts) == attempts > MaxAttempts

Exhausted(attempts) == attempts >= MaxAttempts

FailedRow(s) ==
    [Unleased(s, IF Exhausted(searches[s].attempts) THEN "FAILED" ELSE "PENDING")
        EXCEPT !.error = TRUE]

\* recordAttemptFailure: the row decides, by its own count of attempts.
RecordFailure(w) ==
    LET s == cur[w] IN
    /\ pc[w] = "fail"
    /\ IF Owned(w, s)
       THEN /\ searches' = [searches EXCEPT ![s] = FailedRow(s)]
            /\ failures' = [failures EXCEPT ![s] = @ + 1]
       ELSE UNCHANGED <<searches, failures>>
    /\ Forget(w)
    /\ UNCHANGED faults

--------------------------------------------------------------------------
(* Time and faults.                                                        *)

Fault == faults < MaxFaults /\ faults' = faults + 1

\* lease_expires_at passes: for the row of a dead worker in any case, for a
\* pipeline that takes more than ten minutes as a fault.
LeaseRunsOut(s) ==
    /\ searches[s].status = "RUNNING"
    /\ searches[s].lease = "live"
    /\ IF \E w \in Workers : cur[w] = s /\ Owned(w, s) THEN Fault ELSE UNCHANGED faults
    /\ searches' = [searches EXCEPT ![s] = [@ EXCEPT !.lease = "expired"]]
    /\ UNCHANGED <<pc, cur, claim, failures>>

\* completeClaimed throws inside the try: its own attempt is charged.
CompleteFails(w) ==
    /\ pc[w] = "complete"
    /\ Fault
    /\ pc' = [pc EXCEPT ![w] = "fail"]
    /\ UNCHANGED <<searches, cur, claim, failures>>

\* The process dies, or a statement outside the try ends its loop; it is
\* started again with an empty memory.
Crash(w) ==
    /\ cur[w] # NoSearch
    /\ Fault
    /\ Forget(w)
    /\ UNCHANGED <<searches, failures>>

--------------------------------------------------------------------------
Work(w) ==
    \/ Release(w)
    \/ \E s \in Searches : Claim(w, s)
    \/ ClaimNothing(w)
    \/ Discover(w)
    \/ Research(w)
    \/ Complete(w)
    \/ RecordFailure(w)

Next ==
    \/ \E s \in Searches : Create(s) \/ LeaseRunsOut(s)
    \/ \E s \in Searches, to \in UserMoves : TransitionSearch(s, to)
    \/ \E w \in Workers : Work(w) \/ CompleteFails(w) \/ Crash(w)

Spec == Init /\ [][Next]_vars

\* The loop never stops polling, the providers' timeouts end every pipeline,
\* and time passes.
Fairness ==
    /\ \A w \in Workers : WF_vars(Work(w))
    /\ \A s \in Searches : WF_vars(LeaseRunsOut(s) /\ UNCHANGED faults)

FairSpec == Spec /\ Fairness

--------------------------------------------------------------------------
(* Properties.                                                             *)

SettlingStep ==
    \A s \in Searches :
        (searches[s].status = "RUNNING" /\ searches'[s].owner # searches[s].owner) =>
            \/ searches[s].lease = "expired" /\ searches'[s].status = "PENDING"
            \/ \E w \in Workers : /\ cur[w] = s
                                  /\ pc[w] \in {"complete", "fail"}
                                  /\ claim[w] = searches[s].attempts

\* A worker that lost its lease and comes back late settles nothing: whoever
\* completes, fails or requeues a Search does it for the newest claim of the
\* row, though the fence compares worker ids only (pgRepository.ts).
NewestClaimSettles == [][SettlingStep]_vars

TerminalStep ==
    \A s \in Searches :
        searches[s].status \in Terminal => searches'[s] = searches[s]

\* A finished or cancelled Search stays as it is: a cancellation is never
\* undone by the worker that was busy with it, and no lease recovery revives
\* the row (state.ts, the fences of pgRepository.ts).
TerminalIsFinal == [][TerminalStep]_vars

\* No Search fails more often than the budget, however claims, crashes and
\* recoveries interleave, and one that is still to run has budget left
\* (retry.ts, recordAttemptFailure).
FailuresWithinBudget ==
    \A s \in Searches :
        /\ failures[s] <= MaxAttempts
        /\ searches[s].status \in {"PENDING", "RUNNING"} => failures[s] < MaxAttempts

\* A Search without a worker can be claimed, and one with a worker can be
\* taken from it: a PENDING row has no owner left over from an earlier claim,
\* and an owner always comes with a lease (releaseExpiredLeases).
NoSearchIsStuck ==
    \A s \in Searches :
        /\ searches[s].status = "PENDING" => searches[s].owner = NoWorker
        /\ searches[s].owner # NoWorker <=> searches[s].lease # "none"

\* Every Search the user starts ends, whatever the providers do and whichever
\* worker dies, as long as faults do not go on for ever (pollLoop.ts).  The
\* one exception is the user's own: PENDING moved to RUNNING by
\* transitionSearch has no lease, so nobody ever claims or releases it.
EverySearchEnds ==
    \A s \in Searches :
        searches[s].status = "PENDING" ~>
            \/ searches[s].status \in Terminal
            \/ searches[s].status = "RUNNING" /\ searches[s].owner = NoWorker

\* The comment of MAX_SEARCH_ATTEMPTS: "A worker crash (lease expiry) does not
\* count against this budget" - only failures of the work make a Search FAILED.
CrashesAreFree ==
    \A s \in Searches : searches[s].status = "FAILED" => failures[s] >= MaxAttempts
=============================================================================
