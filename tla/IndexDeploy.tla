-------------------------------- MODULE IndexDeploy --------------------------------
(***************************************************************************)
(* Building unique indexes on a live database (packages/db-index-deploy,   *)
(* scripts/deploy-concurrent-indexes.ts) beside the two migrations that    *)
(* rely on them, 0002 and 0010.  A run holds a session advisory lock,      *)
(* keeps its progress in production_index_migrations and believes only     *)
(* what the catalog says.  Writers insert rows that collide meanwhile; a   *)
(* run is killed at any point; an operator does what the script prints.    *)
(*                                                                         *)
(* CREATE INDEX CONCURRENTLY is PostgreSQL's: the entry is made, the rows  *)
(* of a snapshot are indexed, writers begin to maintain it, and a second   *)
(* pass validates it; each step commits and a failure leaves the entry.    *)
(***************************************************************************)
EXTENDS Absence, Integers, Sequences

CONSTANTS
    INDEX_TARGETS,  \* index names, in the order they are deployed
    OrderIdKey,     \* the one of them on meta_events(order_id)
    Runs,           \* runs of the script
    Found           \* catalogs the deployment may meet when it all starts

Targets == {INDEX_TARGETS[i] : i \in DOMAIN INDEX_TARGETS}

\* What pg_class and pg_index say of a name; the shape is that of its table,
\* columns, uniqueness and predicate together with what is wrong with them.
Shapes == {"right", "other table", "other columns", "not unique", "partial", "no index"}
Entry(shape, valid, ready, live) ==
    [shape |-> shape, valid |-> valid, ready |-> ready, live |-> live]
Entries == [shape : Shapes, valid : BOOLEAN, ready : BOOLEAN, live : BOOLEAN]

\* The list of targets names each index once and OrderIdKey among them; the catalogs that
\* may be met are catalogs; and None is nothing else.
DeployAssumptions ==
    /\ INDEX_TARGETS \in Seq(Targets) /\ INDEX_TARGETS # << >>
    /\ \A i, j \in DOMAIN INDEX_TARGETS : INDEX_TARGETS[i] = INDEX_TARGETS[j] => i = j
    /\ OrderIdKey \in Targets
    /\ Found \subseteq [Targets -> Entries \cup {None}]
    /\ None \notin Entries /\ None \notin Runs /\ None \notin Found
    /\ None \notin {"PENDING", "RUNNING", "COMPLETED", "FAILED", "missing", "valid", 0}

ASSUME DeployConstants == DeployAssumptions

VARIABLES
    catalog,     \* the entry under each target's name, or None
    found,       \* the entry it had when it all started: a history
    duplicates,  \* targets whose table holds colliding rows
    status,      \* deployment_status, None before the row exists
    holder,      \* the session holding the advisory lock
    run,         \* each run: its step, its target, what it read
    applied,     \* migrations Prisma has recorded
    old,         \* indexes of meta_events that 0010 drops
    due          \* meta_events_due_idx: "missing", "valid", "invalid", "whole"

deployVars == <<catalog, found, duplicates, status, holder, run, applied, old, due>>

Building == {"create", "scan", "ready", "validate"}
Holding == {"ensure", "inspect", "reset", "preflight", "mark", "built", "complete", "fail",
            "final", "release"} \cup Building

DeployStatuses == {"PENDING", "RUNNING", "COMPLETED", "FAILED"}
Obsolete == {"meta_events_order_id_idx", "meta_events_status_next_attempt_at_idx"}

\* Entries, statuses and runs keep to their domains.
DeployTypeOK ==
    /\ catalog \in [Targets -> Entries \cup {None}]
    /\ found \in Found \cup {None}
    /\ duplicates \subseteq Targets
    /\ status \in [Targets -> DeployStatuses \cup {None}]
    /\ holder \in Runs \cup {None}
    /\ run \in [Runs -> [pc : Holding \cup {"start", "done", "refused", "dead"},
                         at : 1..(Len(INDEX_TARGETS) + 1), prior : DeployStatuses \cup {None},
                         client : {"alive", "gone"}, dry : BOOLEAN, exit : {0, 1, 3, 9, None}]]
    /\ applied \subseteq {"0002", "0010"}
    /\ old \subseteq Obsolete
    /\ due \in {"missing", "valid", "invalid", "whole", None}

DeployInit ==
    /\ catalog = [t \in Targets |-> None]
    /\ found = None
    /\ duplicates = {}
    /\ status = [t \in Targets |-> None]
    /\ holder = None
    /\ run = [r \in Runs |-> [pc |-> "start", at |-> 1, prior |-> None, client |-> "alive",
                              dry |-> FALSE, exit |-> None]]
    /\ applied = {}
    /\ old = Obsolete
    /\ due = None

\* The database the deployment meets: indexes of any shape, rows that collide.
Provision ==
    /\ found = None
    /\ catalog' \in Found
    /\ found' = catalog'
    /\ due' \in {"missing", "invalid", "whole"}
    /\ UNCHANGED <<duplicates, status, holder, run, applied, old>>

--------------------------------------------------------------------------
(* The catalog.                                                            *)

\* Mutant: an index is there if its name is.
VerifyIndexByName(t) ==
    CASE catalog[t] = None \/ (catalog[t] # None /\ catalog[t].shape = "no index") -> "missing"
      [] catalog[t] # None /\ catalog[t].shape \notin {"right", "no index"} -> "mismatched"
      [] OTHER -> "valid"

\* verifyIndex: a name taken by something that is no index reads as missing,
\* a wrong shape comes before an unfinished build.
VerifyIndex(t) ==
    LET e == catalog[t] IN
    IF e = None THEN "missing"
    ELSE IF e.shape = "no index" THEN "missing"
    ELSE IF e.shape # "right" THEN "mismatched"
    ELSE IF e.valid /\ e.ready /\ e.live THEN "valid" ELSE "invalid"

\* What writers run into: a unique index they maintain.
Enforced(t) == /\ catalog[t] # None
               /\ catalog[t].shape = "right"
               /\ catalog[t].ready

InsertDuplicate(t) ==
    /\ found # None
    /\ ~Enforced(t)
    /\ duplicates' = duplicates \cup {t}
    /\ UNCHANGED <<catalog, found, status, holder, run, applied, old, due>>

--------------------------------------------------------------------------
(* One run of the script.                                                  *)

Target(r) == INDEX_TARGETS[run[r].at]
GoOn(r, pc) == run' = [run EXCEPT ![r].pc = pc]

\* The next target of the loop, or the final verification.
NextTarget(r) ==
    run' = [run EXCEPT ![r].at = @ + 1,
                       ![r].pc = IF run[r].at < Len(INDEX_TARGETS) THEN "ensure" ELSE "final"]

\* A run starts, with --dry-run or without it: pg_try_advisory_lock, and a run that
\* does not get the lock changes nothing.
AcquireLock(r) ==
    /\ found # None
    /\ run[r].pc = "start"
    /\ IF holder = None
       THEN /\ holder' = r
            /\ \E dry \in BOOLEAN : run' = [run EXCEPT ![r].pc = "ensure", ![r].dry = dry]
       ELSE UNCHANGED holder /\ run' = [run EXCEPT ![r].pc = "refused", ![r].exit = 3]
    /\ UNCHANGED <<catalog, found, duplicates, status, applied, old, due>>

\* ENSURE_STATE_ROW and READ_STATE.
EnsureStateRow(r) ==
    /\ run[r].pc = "ensure"
    /\ status' = [status EXCEPT ![Target(r)] = IF @ = None THEN "PENDING" ELSE @]
    /\ run' = [run EXCEPT ![r].pc = "inspect", ![r].prior = status'[Target(r)]]
    /\ UNCHANGED <<catalog, found, duplicates, holder, applied, old, due>>

\* The first verifyIndex, and where deployOne goes from there: a RUNNING row
\* without a process is decided by the catalog.
Inspect(r) ==
    /\ run[r].pc = "inspect"
    /\ LET verdict == VerifyIndex(Target(r)) IN
       GoOn(r, CASE verdict = "valid" -> "complete"
                 [] verdict \in {"invalid", "mismatched"} -> "fail"
                 [] verdict = "missing" -> IF run[r].prior = "RUNNING" THEN "reset"
                                                                      ELSE "preflight")
    /\ UNCHANGED <<catalog, found, duplicates, status, holder, applied, old, due>>

ResetToPending(r) ==
    /\ run[r].pc = "reset"
    /\ status' = [status EXCEPT ![Target(r)] = "PENDING"]
    /\ GoOn(r, "preflight")
    /\ UNCHANGED <<catalog, found, duplicates, holder, applied, old, due>>

\* duplicatePreflight; a dry run ends here.
DuplicatePreflight(r) ==
    /\ run[r].pc = "preflight"
    /\ IF Target(r) \in duplicates THEN GoOn(r, "fail")
       ELSE IF run[r].dry THEN NextTarget(r)
       ELSE GoOn(r, "mark")
    /\ UNCHANGED <<catalog, found, duplicates, status, holder, applied, old, due>>

MarkRunning(r) ==
    /\ run[r].pc = "mark"
    /\ status' = [status EXCEPT ![Target(r)] = "RUNNING"]
    /\ GoOn(r, "create")
    /\ UNCHANGED <<catalog, found, duplicates, holder, applied, old, due>>

\* What follows the statement: the catch or the second verifyIndex, or nothing
\* at all when only the server was left to finish it.
AfterStatement(r, pc) ==
    IF run[r].client = "alive"
    THEN GoOn(r, pc) /\ UNCHANGED holder
    ELSE GoOn(r, "dead") /\ holder' = None

\* CREATE UNIQUE INDEX CONCURRENTLY: a name that is taken is an error at once.
CreateIndex(r) ==
    /\ run[r].pc = "create"
    /\ IF catalog[Target(r)] # None
       THEN AfterStatement(r, "fail") /\ UNCHANGED catalog
       ELSE /\ catalog' = [catalog EXCEPT ![Target(r)] = Entry("right", FALSE, FALSE, TRUE)]
            /\ GoOn(r, "scan")
            /\ UNCHANGED holder
    /\ UNCHANGED <<found, duplicates, status, applied, old, due>>

\* Its first pass.
Scan(r) ==
    /\ run[r].pc = "scan"
    /\ IF Target(r) \in duplicates
       THEN AfterStatement(r, "fail")
       ELSE GoOn(r, "ready") /\ UNCHANGED holder
    /\ UNCHANGED <<catalog, found, duplicates, status, applied, old, due>>

SetReady(r) ==
    /\ run[r].pc = "ready"
    /\ catalog' = [catalog EXCEPT ![Target(r)] = Entry(@.shape, @.valid, TRUE, @.live)]
    /\ GoOn(r, "validate")
    /\ UNCHANGED <<found, duplicates, status, holder, applied, old, due>>

\* Its second pass, over what was inserted since the first one's snapshot.
ValidateBuild(r) ==
    /\ run[r].pc = "validate"
    /\ IF Target(r) \in duplicates
       THEN AfterStatement(r, "fail") /\ UNCHANGED catalog
       ELSE /\ catalog' = [catalog EXCEPT ![Target(r)] = Entry(@.shape, TRUE, @.ready, @.live)]
            /\ AfterStatement(r, "built")
    /\ UNCHANGED <<found, duplicates, status, applied, old, due>>

\* "Verify before believing it".
VerifyBuilt(r) ==
    /\ run[r].pc = "built"
    /\ GoOn(r, IF VerifyIndex(Target(r)) = "valid" THEN "complete" ELSE "fail")
    /\ UNCHANGED <<catalog, found, duplicates, status, holder, applied, old, due>>

MarkCompleted(r) ==
    /\ run[r].pc = "complete"
    /\ status' = [status EXCEPT ![Target(r)] = "COMPLETED"]
    /\ NextTarget(r)
    /\ UNCHANGED <<catalog, found, duplicates, holder, applied, old, due>>

MarkFailed(r) ==
    /\ run[r].pc = "fail"
    /\ status' = [status EXCEPT ![Target(r)] = "FAILED"]
    /\ NextTarget(r)
    /\ UNCHANGED <<catalog, found, duplicates, holder, applied, old, due>>

\* allValid, read from the catalog and not from the run's own results.
FinalVerification(r) ==
    /\ run[r].pc = "final"
    /\ run' = [run EXCEPT ![r].pc = "release",
                          ![r].exit = IF \A t \in Targets : VerifyIndex(t) = "valid"
                                      THEN 0 ELSE 1]
    /\ UNCHANGED <<catalog, found, duplicates, status, holder, applied, old, due>>

\* The finally; the process exits with what it verified.
ReleaseLock(r) ==
    /\ run[r].pc = "release"
    /\ holder' = None
    /\ GoOn(r, "done")
    /\ UNCHANGED <<catalog, found, duplicates, status, applied, old, due>>

\* FAIL_AT, a SIGKILL, a lost connection: the session ends and with it its lock.
Crash(r) ==
    /\ run[r].pc \in Holding
    /\ run[r].client = "alive"
    /\ run' = [run EXCEPT ![r].pc = "dead", ![r].exit = 9]
    /\ holder' = None
    /\ UNCHANGED <<catalog, found, duplicates, status, applied, old, due>>

\* The client dies during the statement and the server finishes it all the same.
Orphan(r) ==
    /\ run[r].pc \in Building
    /\ run[r].client = "alive"
    /\ run' = [run EXCEPT ![r].client = "gone", ![r].exit = 9]
    /\ UNCHANGED <<catalog, found, duplicates, status, holder, applied, old, due>>

--------------------------------------------------------------------------
(* The operator and the migrations.                                        *)

\* blocked-duplicates: "resolve duplicates in ..., then re-run".
ResolveDuplicates(t) ==
    /\ t \in duplicates
    /\ duplicates' = duplicates \ {t}
    /\ UNCHANGED <<catalog, found, status, holder, run, applied, old, due>>

\* blocked-invalid: "Inspect it, then drop it by hand", when nobody builds it.
DropInvalid(t) ==
    /\ VerifyIndex(t) = "invalid"
    /\ \A r \in Runs : run[r].pc \in Building => Target(r) # t
    /\ catalog' = [catalog EXCEPT ![t] = None]
    /\ UNCHANGED <<found, duplicates, status, holder, run, applied, old, due>>

\* prisma migrate resolve --applied, for a run that ended with 0.
ResolveApplied ==
    /\ \E r \in Runs : run[r].pc = "done" /\ run[r].exit = 0
    /\ applied' = applied \cup {"0002"}
    /\ UNCHANGED <<catalog, found, duplicates, status, holder, run, old, due>>

\* Migration 0002 executed as it stands: what is absent is built, what is usable
\* and right is accepted, anything else raises and rolls the whole file back.
Migrate0002 ==
    /\ found # None
    /\ "0002" \notin applied
    /\ \A t \in Targets : \/ catalog[t] = None /\ t \notin duplicates
                          \/ catalog[t] # None /\ VerifyIndex(t) = "valid"
    /\ catalog' = [t \in Targets |-> Entry("right", TRUE, TRUE, TRUE)]
    /\ applied' = applied \cup {"0002"}
    /\ UNCHANGED <<found, duplicates, status, holder, run, old, due>>

\* The concurrent build of 0010's replacement by hand, and the drop of a failed one.
BuildDueByHand ==
    /\ due = "missing"
    /\ due' \in {"valid", "invalid"}
    /\ UNCHANGED <<catalog, found, duplicates, status, holder, run, applied, old>>

DropDueByHand ==
    /\ due \in {"invalid", "whole"}
    /\ due' = "missing"
    /\ UNCHANGED <<catalog, found, duplicates, status, holder, run, applied, old>>

\* Migration 0010: the replacement first (IF NOT EXISTS looks at the name), then
\* each drop behind a guard that reads the catalog; a guard that fails rolls it back.
Migrate0010 ==
    /\ "0002" \in applied
    /\ "0010" \notin applied
    /\ VerifyIndex(OrderIdKey) = "valid"
    /\ due \in {"missing", "valid"}
    /\ due' = "valid"
    /\ old' = {}
    /\ applied' = applied \cup {"0010"}
    /\ UNCHANGED <<catalog, found, duplicates, status, holder, run>>

--------------------------------------------------------------------------
DeployNext ==
    \/ Provision
    \/ \E t \in Targets : InsertDuplicate(t) \/ ResolveDuplicates(t) \/ DropInvalid(t)
    \/ \E r \in Runs :
          \/ AcquireLock(r) \/ EnsureStateRow(r) \/ Inspect(r) \/ ResetToPending(r)
          \/ DuplicatePreflight(r) \/ MarkRunning(r)
          \/ CreateIndex(r) \/ Scan(r) \/ SetReady(r) \/ ValidateBuild(r) \/ VerifyBuilt(r)
          \/ MarkCompleted(r) \/ MarkFailed(r) \/ FinalVerification(r) \/ ReleaseLock(r)
          \/ Crash(r) \/ Orphan(r)
    \/ ResolveApplied \/ Migrate0002 \/ Migrate0010 \/ BuildDueByHand \/ DropDueByHand

DeploySpec == DeployInit /\ [][DeployNext]_deployVars

--------------------------------------------------------------------------
(* Properties.                                                             *)

\* The constraint a target promises: writers maintain a whole, unique, valid index
\* and no rows collide.
Usable(t) == /\ catalog[t] = Entry("right", TRUE, TRUE, TRUE)
             /\ t \notin duplicates

\* Wherever a run, the script or Prisma says it is done, the constraint holds: a
\* COMPLETED row, exit code 0, and 0002 recorded as applied (deploy.ts, "The
\* database, not the row, is the authority").
DoneIsEnforced ==
    /\ \A t \in Targets : status[t] = "COMPLETED" => Usable(t)
    /\ \A r \in Runs : run[r].exit = 0 => \A t \in Targets : Usable(t)
    /\ "0002" \in applied => \A t \in Targets : Usable(t)

\* A run that ends by itself leaves no target RUNNING, whatever earlier runs left,
\* and a RUNNING row always has a session with the lock or a dead run behind it
\* (crash recovery of deployOne).
RunningIsExplained ==
    \A t \in Targets :
        status[t] = "RUNNING" =>
            /\ \A r \in Runs : run[r].pc # "release"
            /\ \E r \in Runs : run[r].pc = "dead" \/ holder = r

\* Runs never overlap, and none builds without the lock (ACQUIRE_LOCK).
RunsDoNotOverlap == \A r \in Runs : run[r].pc \in Holding <=> holder = r

\* An index that is somebody else's under our name stays exactly as it was found,
\* through runs, crashes and migrations.
ForeignIsUntouched ==
    found # None =>
        \A t \in Targets :
            /\ found[t] # None
            /\ found[t].shape # "right"
            => catalog[t] = found[t]

\* meta_events can be looked up by order id and by due time at every moment: 0010
\* drops an index only when its replacement works.
LookupsAreServed ==
    /\ "meta_events_order_id_idx" \in old \/ Usable(OrderIdKey)
    /\ "meta_events_status_next_attempt_at_idx" \in old \/ due = "valid"

\* What a deployment promises at every moment, crashes and orphaned builds included:
\* done means enforced, the lock keeps runs apart, nobody else's index is touched and
\* every lookup keeps an index that works.
DeploymentHolds ==
    /\ DeployTypeOK
    /\ DoneIsEnforced
    /\ RunningIsExplained
    /\ RunsDoNotOverlap
    /\ ForeignIsUntouched
    /\ LookupsAreServed
=============================================================================
