------------------------------- MODULE Reconciliation -------------------------------
(***************************************************************************)
(* Finding rows that share a key they should not share, and opening one    *)
(* case per group for a human (packages/core-reconciliation).  A run scans *)
(* one dimension after another within a half-open window and then writes   *)
(* its cases one by one; rows arrive meanwhile, another run may overlap it *)
(* or stop half-way, and a human moves cases along.                        *)
(*                                                                         *)
(* A row is its table, the key it has in each dimension of that table and  *)
(* the instant it was created; the other columns of a snapshot are left    *)
(* out.                                                                    *)
(***************************************************************************)
EXTENDS Integers, Sequences, FiniteSets, SequencesExt

CONSTANTS
    DUPLICATE_DIMENSIONS,  \* in the order they are scanned
    TableOf(_),            \* the table of a dimension
    RecordTypeOf(_),       \* RECORD_TYPE_BY_DIMENSION
    ValuesOf(_),           \* raw key values of a dimension; NULL never matches
    Scans,
    WindowOf(_),           \* [start, end) of a run
    MaxRowsPerGroup, MaxGroups,
    MaxRecords,            \* bound: rows in the tables
    MaxTick,               \* bound: ticks of the clock
    MaxTriage              \* bound: moves by a human

Dimensions == Range(DUPLICATE_DIMENSIONS)
Tables == {TableOf(d) : d \in Dimensions}
DimensionsOf(table) == {d \in Dimensions : TableOf(d) = table}
KeysOf(table) == {keys \in [DimensionsOf(table) -> UNION {ValuesOf(d) : d \in Dimensions}] :
                    \A d \in DimensionsOf(table) : keys[d] \in ValuesOf(d)}
CaseStatuses == {"OPEN", "IN_REVIEW", "RESOLVED", "DISMISSED"}

\* The dimensions are a list without repetitions and keys are compared as numbers.
ASSUME ReconciliationConstants ==
    /\ DUPLICATE_DIMENSIONS \in Seq(Dimensions) \ {<< >>}
    /\ \A i, j \in DOMAIN DUPLICATE_DIMENSIONS :
          DUPLICATE_DIMENSIONS[i] = DUPLICATE_DIMENSIONS[j] => i = j
    /\ \A d \in Dimensions : ValuesOf(d) \subseteq Nat
    /\ {MaxRowsPerGroup, MaxGroups, MaxRecords, MaxTick, MaxTriage} \subseteq Nat

VARIABLES
    tick,
    records,  \* the business tables, by age
    cases,    \* idempotency_reconciliations, by record type and duplicate key
    triage,   \* the moves humans made: a history
    scan      \* each run: its step, the groups it found, its report

scanVars == <<tick, records, cases, triage, scan>>

\* Rows, cases and runs keep to their domains.
ScanTypeOK ==
    /\ tick \in 0..MaxTick
    /\ Len(records) <= MaxRecords
    /\ \A k \in DOMAIN cases : cases[k].status \in CaseStatuses /\ cases[k].recordCount > 1
    /\ \A r \in Scans : /\ scan[r].pc \in {"idle", "scan", "persist", "done", "dead"}
                        /\ scan[r].created \subseteq DOMAIN cases
                        /\ scan[r].updated \subseteq DOMAIN cases

ScanInit ==
    /\ tick = 0
    /\ records = << >>
    /\ cases = << >>
    /\ triage = << >>
    /\ scan = [r \in Scans |-> [pc |-> "idle", next |-> 1, groups |-> << >>, seen |-> << >>,
                                created |-> {}, updated |-> {}]]

\* The unique indexes are what is not there yet; any keys may come in.
InsertRow(table, keys) ==
    /\ Len(records) < MaxRecords
    /\ records' = Append(records, [table |-> table, keys |-> keys, createdAt |-> tick])
    /\ UNCHANGED <<tick, cases, triage, scan>>

TickPasses ==
    /\ tick < MaxTick
    /\ tick' = tick + 1
    /\ UNCHANGED <<records, cases, triage, scan>>

--------------------------------------------------------------------------
(* Detection.                                                              *)

\* Mutant: the window is closed at both ends.
InWindowClosed(window, instant) == window.start <= instant /\ instant <= window.end

\* created_at >= $1 AND created_at < $2.
InWindow(window, instant) == window.start <= instant /\ instant < window.end

\* The rows of a partition; a row is known by its place, the oldest is the first.
Partition(dimension, value, window) ==
    {i \in DOMAIN records : /\ records[i].table = TableOf(dimension)
                            /\ records[i].keys[dimension] = value
                            /\ InWindow(window, records[i].createdAt)}

\* The first few in ascending order, as ORDER BY and LIMIT or slice leave them.
Below(S, x) == {y \in S : y < x}
FirstFew(S, limit) == {x \in S : Cardinality(Below(S, x)) < limit}

QualifyKey(dimension, rawKey) == <<dimension, rawKey>>

\* toGroup: all rows are counted, the first few are kept.
Group(dimension, value, window) ==
    LET all == Partition(dimension, value, window) IN
    [dimension |-> dimension, recordType |-> RecordTypeOf(dimension),
     duplicateKey |-> QualifyKey(dimension, value), rawKey |-> value,
     recordCount |-> Cardinality(all), rows |-> FirstFew(all, MaxRowsPerGroup),
     sampleTruncated |-> Cardinality(all) > MaxRowsPerGroup,
     seen |-> Len(records), window |-> window]

\* Groups of two or more, the first few by key.
Detect(dimension, window) ==
    LET keys == {v \in ValuesOf(dimension) : Cardinality(Partition(dimension, v, window)) > 1}
        kept == FirstFew(keys, MaxGroups)
    IN  [i \in 1..Cardinality(kept) |->
            Group(dimension, CHOOSE v \in kept : Cardinality(Below(kept, v)) = i - 1, window)]

--------------------------------------------------------------------------
(* One run.                                                                *)

StartScan(r) ==
    /\ scan[r].pc = "idle"
    /\ scan' = [scan EXCEPT ![r].pc = "scan"]
    /\ UNCHANGED <<tick, records, cases, triage>>

\* detectDuplicates: one query per dimension, in turn, each with a snapshot of
\* its own.
ScanDimension(r) ==
    /\ scan[r].pc = "scan"
    /\ LET i == scan[r].next IN
       scan' = [scan EXCEPT
                 ![r].groups = @ \o Detect(DUPLICATE_DIMENSIONS[i], WindowOf(r)),
                 ![r].seen = Append(@, Len(records)),
                 ![r].next = IF i < Len(DUPLICATE_DIMENSIONS) THEN i + 1 ELSE 1,
                 ![r].pc = IF i < Len(DUPLICATE_DIMENSIONS) THEN "scan" ELSE "persist"]
    /\ UNCHANGED <<tick, records, cases, triage>>

CaseKey(group) == [recordType |-> group.recordType, duplicateKey |-> group.duplicateKey]

\* toCase.
CaseOf(group, status) ==
    [status |-> status, recordCount |-> group.recordCount, snapshot |-> group]

\* upsertCase: on conflict the count and the snapshot are replaced, the status
\* is left alone.
UpsertCase(group) ==
    IF CaseKey(group) \in DOMAIN cases
    THEN [cases EXCEPT ![CaseKey(group)] = CaseOf(group, @.status)]
    ELSE [k \in DOMAIN cases \cup {CaseKey(group)} |->
            IF k = CaseKey(group) THEN CaseOf(group, "OPEN") ELSE cases[k]]

PersistCase(r) ==
    /\ scan[r].pc = "persist"
    /\ scan[r].next <= Len(scan[r].groups)
    /\ LET group == scan[r].groups[scan[r].next]
           known == CaseKey(group) \in DOMAIN cases
       IN  /\ cases' = UpsertCase(group)
           /\ scan' = [scan EXCEPT ![r].next = @ + 1,
                        ![r].created = IF known THEN @ ELSE @ \cup {CaseKey(group)},
                        ![r].updated = IF known THEN @ \cup {CaseKey(group)} ELSE @]
    /\ UNCHANGED <<tick, records, triage>>

FinishScan(r) ==
    /\ scan[r].pc = "persist"
    /\ scan[r].next > Len(scan[r].groups)
    /\ scan' = [scan EXCEPT ![r].pc = "done"]
    /\ UNCHANGED <<tick, records, cases, triage>>

\* A query throws or the process ends; every case written stays.
StopScan(r) ==
    /\ scan[r].pc \in {"scan", "persist"}
    /\ scan' = [scan EXCEPT ![r].pc = "dead"]
    /\ UNCHANGED <<tick, records, cases, triage>>

\* A human takes a case, closes it or drops it.
Triage(k, status) ==
    /\ Len(triage) < MaxTriage
    /\ cases[k].status # status
    /\ cases' = [cases EXCEPT ![k].status = status]
    /\ triage' = Append(triage, [key |-> k, status |-> status])
    /\ UNCHANGED <<tick, records, scan>>

--------------------------------------------------------------------------
ScanNext ==
    \/ \E t \in Tables : \E keys \in KeysOf(t) : InsertRow(t, keys)
    \/ \E r \in Scans :
          StartScan(r) \/ ScanDimension(r) \/ PersistCase(r) \/ FinishScan(r) \/ StopScan(r)
    \/ \E k \in DOMAIN cases, s \in CaseStatuses : Triage(k, s)
    \/ TickPasses

ScanSpec == ScanInit /\ [][ScanNext]_scanVars

--------------------------------------------------------------------------
(* Properties.                                                             *)

Matching(dimension, value, window, seen) ==
    {i \in 1..seen : /\ records[i].table = TableOf(dimension)
                     /\ records[i].keys[dimension] = value
                     /\ window.start <= records[i].createdAt /\ records[i].createdAt < window.end}

\* A case tells what was in its half-open window when its dimension was scanned: the whole
\* number of rows, examples that are such rows, and truncation when there are more
\* (detection.ts, "NOT bounded - the COUNT"); a case of one dimension is never
\* overwritten with a group of another that has the same value (qualifyKey).
CasesAreTrue ==
    \A k \in DOMAIN cases :
        LET s == cases[k].snapshot
            all == Matching(s.dimension, s.rawKey, s.window, s.seen)
        IN  /\ k.duplicateKey = <<s.dimension, s.rawKey>>
            /\ cases[k].recordCount = Cardinality(all)
            /\ s.rows \subseteq all
            /\ s.sampleTruncated <=> s.rows # all
            /\ \A i \in s.rows, j \in all \ s.rows : i < j

\* However often detection runs, a case is where the last human move left it, and
\* OPEN before the first one (upsertCase, "no lost triage").
TriageIsKept ==
    \A k \in DOMAIN cases :
        LET moves == {i \in DOMAIN triage : triage[i].key = k}
        IN  cases[k].status = IF moves = {} THEN "OPEN" ELSE triage[Max(moves)].status

\* Over all runs, overlapping ones included, exactly one reports a case as new.
CreatedOnce ==
    \A k \in DOMAIN cases : Cardinality({r \in Scans : k \in scan[r].created}) = 1

\* A run that finishes has a case for every collision its scans could see, as far
\* as the limit on groups goes, and it ran over no other.
FinishedIsComplete ==
    \A r \in Scans :
        scan[r].pc = "done" =>
             \A i \in DOMAIN DUPLICATE_DIMENSIONS :
                 LET d == DUPLICATE_DIMENSIONS[i]
                     there == {v \in ValuesOf(d) :
                                 Cardinality(Matching(d, v, WindowOf(r), scan[r].seen[i])) > 1}
                     told == {v \in ValuesOf(d) :
                                [recordType |-> RecordTypeOf(d), duplicateKey |-> <<d, v>>]
                                  \in scan[r].created \cup scan[r].updated}
                 IN  /\ told \subseteq there
                     /\ Cardinality(told) = IF Cardinality(there) < MaxGroups
                                            THEN Cardinality(there) ELSE MaxGroups

\* What detection promises over overlapping and interrupted runs: cases that are true,
\* triage that is kept, each case created by one run, finished runs complete.
ReconciliationHolds ==
    ScanTypeOK /\ CasesAreTrue /\ TriageIsKept /\ CreatedOnce /\ FinishedIsComplete
=============================================================================
