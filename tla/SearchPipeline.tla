----------------------------- MODULE SearchPipeline -----------------------------
(***************************************************************************)
(* runCanonicalPipeline for one Prospect of one Search: research, the      *)
(* opportunity, its qualification, personalization and the two drafts      *)
(* (core-discovery to core-followup-preparation, driven by the Search      *)
(* worker).  None of it is in a transaction: one action is one SQL         *)
(* statement or one call of a provider, and a worker that lost its lease   *)
(* goes on, so the statements of several runs may mix.                     *)
(*                                                                         *)
(* The Prospects of a Search are processed one after the other and share   *)
(* no row, so one stands for all.  SearchLifecycle has the claim, the      *)
(* user's moves and the retry budget; here the row is reduced to its owner *)
(* (RUNNING) or to having none.                                            *)
(***************************************************************************)
EXTENDS Naturals, FiniteSets

CONSTANTS
    Workers,      \* Search workers
    NoWorker,     \* the Search has no owner: PENDING, or ended
    Results,      \* what a research may find: sets of kinds
    MaxEvidence,  \* MAX_PERSONALIZATION_EVIDENCE
    MaxRuns,      \* bound: executions of the pipeline
    MaxFaults     \* bound: crashes, lost leases, failed statements

\* "match" is an OBSERVED claim that matches the user's service, with sources;
\* "claim" an INFERRED one about something else, without sources; "unknown" an
\* observation that claims nothing.
Kinds == {"match", "claim", "unknown"}
Runs == 1..MaxRuns

\* A row of research_signals: the run that found it, and its kind.
Signals == Runs \X Kinds
KindOf(s) == s[2]

ASSUME NoWorkerAssumption == NoWorker \notin Workers
ASSUME ResultsAssumption == Results \subseteq SUBSET Kinds
ASSUME MaxEvidenceAssumption == MaxEvidence \in Nat \ {0}
ASSUME BoundsAssumption == MaxRuns \in Nat /\ MaxFaults \in Nat

VARIABLES
    owner,            \* lease_owner of the Search
    ended,            \* the Search is COMPLETE or FAILED
    signals,          \* inserted rows of research_signals
    superseded,       \* those with superseded_at
    cited,            \* those whose rows in research_signal_sources exist
    opportunity,      \* "absent", or what need detection found
    qualification,    \* state and evidence_signal_ids
    personalization,  \* its evidence; no row has none
    outreach,         \* the same for outreach_preparations
    followUp,         \* and for follow_up_preparations
    pc,               \* the next statement of each worker
    run,              \* the run it executes
    todo,             \* the kinds its research found and it has not saved
    read,             \* the signals it read last
    undisturbed,      \* history: no other run was under way since it began
    runs, faults      \* counters

tables == <<signals, superseded, cited, opportunity, qualification, personalization,
            outreach, followUp>>
search == <<owner, ended>>
vars == <<search, tables, pc, run, todo, read, undisturbed, runs, faults>>

PC == {"idle", "discover", "research", "supersede", "save", "cite", "find", "detect", "create",
       "evidence", "qualify", "eligible", "select", "personalize", "draft", "outreach",
       "next", "followUp", "complete", "fail"}

Qualification ==
    [state : {"absent", "QUALIFIED", "NOT_QUALIFIED", "INSUFFICIENT_EVIDENCE"},
     evidence : SUBSET Signals]

\* The rows and the workers' memory are well formed: only what was saved is
\* superseded or given sources.
TypeOK ==
    /\ owner \in Workers \cup {NoWorker}
    /\ ended \in BOOLEAN
    /\ signals \subseteq Signals
    /\ superseded \subseteq signals
    /\ cited \subseteq signals
    /\ opportunity \in {"absent", "need", "no_need"}
    /\ qualification \in Qualification
    /\ personalization \subseteq Signals
    /\ outreach \subseteq Signals
    /\ followUp \subseteq Signals
    /\ pc \in [Workers -> PC]
    /\ run \in [Workers -> 0..MaxRuns]
    /\ todo \in [Workers -> SUBSET Kinds]
    /\ read \in [Workers -> SUBSET Signals]
    /\ undisturbed \in [Workers -> BOOLEAN]
    /\ runs \in 0..MaxRuns
    /\ faults \in 0..MaxFaults

Init ==
    /\ owner = NoWorker
    /\ ended = FALSE
    /\ signals = {}
    /\ superseded = {}
    /\ cited = {}
    /\ opportunity = "absent"
    /\ qualification = [state |-> "absent", evidence |-> {}]
    /\ personalization = {}
    /\ outreach = {}
    /\ followUp = {}
    /\ pc = [w \in Workers |-> "idle"]
    /\ run = [w \in Workers |-> 0]
    /\ todo = [w \in Workers |-> {}]
    /\ read = [w \in Workers |-> {}]
    /\ undisturbed = [w \in Workers |-> FALSE]
    /\ runs = 0
    /\ faults = 0

--------------------------------------------------------------------------
Fault == faults < MaxFaults /\ faults' = faults + 1

Goto(w, to) == pc' = [pc EXCEPT ![w] = to]

\* The parts of the state a step of the pipeline leaves alone.
Control == <<search, run, undisturbed, runs, faults>>

Active == signals \ superseded

\* isEvidentiary, for signals that are not superseded.
Evidentiary(rows) == {s \in rows : KindOf(s) # "unknown"}

\* OBSERVED signals, which have sources to save.
Observed(rows) == {s \in rows : KindOf(s) = "match"}

--------------------------------------------------------------------------
(* The Search row, as far as SearchLifecycle lets workers have it.         *)

Claim(w) ==
    /\ pc[w] = "idle"
    /\ owner = NoWorker
    /\ ~ended
    /\ runs < MaxRuns
    /\ owner' = w
    /\ runs' = runs + 1
    /\ run' = [run EXCEPT ![w] = runs + 1]
    /\ undisturbed' = [v \in Workers |-> v = w /\ \A x \in Workers : pc[x] = "idle"]
    /\ Goto(w, "discover")
    /\ UNCHANGED <<ended, tables, todo, read, faults>>

\* releaseExpiredLeases: for free when the owner is gone, as a fault when it
\* is still at work.
Release ==
    /\ owner # NoWorker
    /\ IF pc[owner] = "idle" THEN UNCHANGED faults ELSE Fault
    /\ owner' = NoWorker
    /\ UNCHANGED <<ended, tables, pc, run, todo, read, undisturbed, runs>>

\* The worker's call of the pipeline is over.
Leave(w) ==
    /\ Goto(w, "idle")
    /\ todo' = [todo EXCEPT ![w] = {}]
    /\ read' = [read EXCEPT ![w] = {}]
    /\ UNCHANGED <<tables, run, undisturbed, runs>>

\* completeClaimed.
Complete(w) ==
    /\ pc[w] = "complete"
    /\ IF owner = w THEN owner' = NoWorker /\ ended' = TRUE ELSE UNCHANGED search
    /\ Leave(w)
    /\ UNCHANGED faults

\* recordAttemptFailure: back to PENDING, or FAILED when the budget is spent.
RecordFailure(w) ==
    /\ pc[w] = "fail"
    /\ IF owner = w THEN owner' = NoWorker /\ ended' \in BOOLEAN ELSE UNCHANGED search
    /\ Leave(w)
    /\ UNCHANGED faults

--------------------------------------------------------------------------
(* Discovery and research.                                                 *)

\* runDiscoveryForOwner: the row must be RUNNING, whoever owns it.  Company
\* and Prospect are found or created by upserts on their unique indexes.
Discover(w) ==
    /\ pc[w] = "discover"
    /\ Goto(w, IF owner # NoWorker THEN "research" ELSE "fail")
    /\ UNCHANGED <<tables, todo, read, Control>>

\* provider.research.
Research(w) ==
    /\ pc[w] = "research"
    /\ \/ \E found \in Results : todo' = [todo EXCEPT ![w] = found] /\ Goto(w, "supersede")
       \/ Goto(w, "fail") /\ UNCHANGED todo
    /\ UNCHANGED <<tables, read, Control>>

\* Mutant: a second research adds to the first.
SupersedePreviousNever(w) ==
    /\ pc[w] = "supersede"
    /\ Goto(w, "save")
    /\ UNCHANGED <<tables, todo, read, Control>>

\* supersedePrevious: one UPDATE.
SupersedePrevious(w) ==
    /\ pc[w] = "supersede"
    /\ superseded' = signals
    /\ Goto(w, "save")
    /\ UNCHANGED <<signals, cited, opportunity, qualification, personalization, outreach,
                   followUp, todo, read, Control>>

\* saveSignals: one INSERT for each observation, and one for each of its
\* sources; a signal counts as cited when the last of them is there.
SaveSignal(w) ==
    /\ pc[w] = "save"
    /\ \/ \E kind \in todo[w] :
            /\ signals' = signals \cup {<<run[w], kind>>}
            /\ todo' = [todo EXCEPT ![w] = @ \ {kind}]
            /\ read' = [read EXCEPT ![w] = {<<run[w], kind>>}]
            /\ Goto(w, IF kind = "match" THEN "cite" ELSE "save")
       \/ todo[w] = {} /\ Goto(w, "find") /\ UNCHANGED <<signals, todo, read>>
    /\ UNCHANGED <<superseded, cited, opportunity, qualification, personalization, outreach,
                   followUp, Control>>

SaveSources(w) ==
    /\ pc[w] = "cite"
    /\ cited' = cited \cup read[w]
    /\ Goto(w, "save")
    /\ UNCHANGED <<signals, superseded, opportunity, qualification, personalization, outreach,
                   followUp, todo, read, Control>>

--------------------------------------------------------------------------
(* The opportunity and its qualification.                                  *)

FindByProspectId(w) ==
    /\ pc[w] = "find"
    /\ Goto(w, IF opportunity = "absent" THEN "detect" ELSE "evidence")
    /\ UNCHANGED <<tables, todo, read, Control>>

\* listByProspect, as need detection, qualification and personalization call it.
ListByProspect(w) == read' = [read EXCEPT ![w] = Active]

DetectNeed(w) ==
    /\ pc[w] = "detect"
    /\ ListByProspect(w)
    /\ Goto(w, "create")
    /\ UNCHANGED <<tables, todo, Control>>

\* suggestOffers has something to suggest.
NeedDetected(rows) == \E s \in rows : KindOf(s) = "match"

\* opportunities.create: a second row violates opportunities_prospect_id_key.
CreateOpportunity(w) ==
    /\ pc[w] = "create"
    /\ IF opportunity = "absent"
       THEN /\ opportunity' = IF NeedDetected(read[w]) THEN "need" ELSE "no_need"
            /\ Goto(w, "evidence")
       ELSE UNCHANGED opportunity /\ Goto(w, "fail")
    /\ UNCHANGED <<signals, superseded, cited, qualification, personalization, outreach,
                   followUp, todo, read, Control>>

ReadEvidence(w) ==
    /\ pc[w] = "evidence"
    /\ ListByProspect(w)
    /\ Goto(w, "qualify")
    /\ UNCHANGED <<tables, todo, Control>>

\* Mutant: the need is not asked for.
EvaluateQualificationNeedless(rows) ==
    IF Evidentiary(rows) = {} THEN [state |-> "INSUFFICIENT_EVIDENCE", evidence |-> {}]
                              ELSE [state |-> "QUALIFIED", evidence |-> Evidentiary(rows)]

\* evaluateQualification: the need comes first and decides alone when it fails.
EvaluateQualification(rows) ==
    IF opportunity # "need" THEN [state |-> "NOT_QUALIFIED", evidence |-> {}]
    ELSE IF Evidentiary(rows) = {} THEN [state |-> "INSUFFICIENT_EVIDENCE", evidence |-> {}]
    ELSE [state |-> "QUALIFIED", evidence |-> Evidentiary(rows)]

\* qualifications.upsert.
Qualify(w) ==
    /\ pc[w] = "qualify"
    /\ qualification' = EvaluateQualification(read[w])
    /\ Goto(w, "eligible")
    /\ UNCHANGED <<signals, superseded, cited, opportunity, personalization, outreach, followUp,
                   todo, read, Control>>

--------------------------------------------------------------------------
(* Personalization and the drafts.                                         *)

\* The gate of R-42; the worker keeps the evidence of the qualification.
CheckEligibility(w) ==
    /\ pc[w] = "eligible"
    /\ IF qualification.state = "QUALIFIED"
       THEN read' = [read EXCEPT ![w] = qualification.evidence] /\ Goto(w, "select")
       ELSE UNCHANGED read /\ Goto(w, "draft")
    /\ UNCHANGED <<tables, todo, Control>>

\* Mutant: the evidence is taken from whatever is active.
CandidatesUnqualified(w) == Active

\* selectPersonalizationEvidence: what is active now and was qualified then,
CandidatesFor(w) == Evidentiary(Active) \cap read[w]

\* at most MaxEvidence of it, by confidence.
Selections(rows) ==
    {sel \in SUBSET rows :
        Cardinality(sel) = IF Cardinality(rows) <= MaxEvidence THEN Cardinality(rows)
                                                               ELSE MaxEvidence}

SelectEvidence(w) ==
    /\ pc[w] = "select"
    /\ IF CandidatesFor(w) = {}
       THEN UNCHANGED read /\ Goto(w, "draft")
       ELSE /\ \E sel \in Selections(CandidatesFor(w)) : read' = [read EXCEPT ![w] = sel]
            /\ Goto(w, "personalize")
    /\ UNCHANGED <<tables, todo, Control>>

\* personalizations.upsert.
Personalize(w) ==
    /\ pc[w] = "personalize"
    /\ personalization' = read[w]
    /\ Goto(w, "draft")
    /\ UNCHANGED <<signals, superseded, cited, opportunity, qualification, outreach, followUp,
                   todo, read, Control>>

\* prepareOutreachForOwner reads the personalization, of this run or an older.
ReadPersonalization(w) ==
    /\ pc[w] = "draft"
    /\ read' = [read EXCEPT ![w] = personalization]
    /\ Goto(w, IF personalization = {} THEN "next" ELSE "outreach")
    /\ UNCHANGED <<tables, todo, Control>>

PrepareOutreach(w) ==
    /\ pc[w] = "outreach"
    /\ outreach' = read[w]
    /\ Goto(w, "next")
    /\ UNCHANGED <<signals, superseded, cited, opportunity, qualification, personalization,
                   followUp, todo, read, Control>>

\* prepareFollowUpForOwner reads the outreach draft.
ReadOutreach(w) ==
    /\ pc[w] = "next"
    /\ read' = [read EXCEPT ![w] = outreach]
    /\ Goto(w, IF outreach = {} THEN "complete" ELSE "followUp")
    /\ UNCHANGED <<tables, todo, Control>>

PrepareFollowUp(w) ==
    /\ pc[w] = "followUp"
    /\ followUp' = read[w]
    /\ Goto(w, "complete")
    /\ UNCHANGED <<signals, superseded, cited, opportunity, qualification, personalization,
                   outreach, todo, read, Control>>

--------------------------------------------------------------------------
(* Faults.                                                                 *)

\* A statement throws; the pipeline stops where it is.
StatementFails(w) ==
    /\ pc[w] \notin {"idle", "fail"}
    /\ Fault
    /\ Goto(w, "fail")
    /\ UNCHANGED <<search, tables, run, todo, read, undisturbed, runs>>

Crash(w) ==
    /\ pc[w] # "idle"
    /\ Fault
    /\ Leave(w)
    /\ UNCHANGED search

--------------------------------------------------------------------------
Pipeline(w) ==
    \/ Discover(w) \/ Research(w)
    \/ SupersedePrevious(w) \/ SaveSignal(w) \/ SaveSources(w)
    \/ FindByProspectId(w) \/ DetectNeed(w) \/ CreateOpportunity(w)
    \/ ReadEvidence(w) \/ Qualify(w)
    \/ CheckEligibility(w) \/ SelectEvidence(w) \/ Personalize(w)
    \/ ReadPersonalization(w) \/ PrepareOutreach(w)
    \/ ReadOutreach(w) \/ PrepareFollowUp(w)

Next ==
    \/ Release
    \/ \E w \in Workers :
         \/ Claim(w) \/ Pipeline(w) \/ Complete(w) \/ RecordFailure(w)
         \/ StatementFails(w) \/ Crash(w)

Spec == Init /\ [][Next]_vars

--------------------------------------------------------------------------
(* Properties.                                                             *)

\* Each stage rests on the one before it, whatever runs mix and wherever one
\* stops: no follow-up without an outreach draft, no draft without a
\* personalization, none of them without a detected need (the gates R-42, R-59
\* and R-62).
StagesRestOnEachOther ==
    /\ followUp # {} => outreach # {}
    /\ outreach # {} => personalization # {}
    /\ personalization # {} => qualification.state # "absent" /\ opportunity = "need"
    /\ qualification.state = "QUALIFIED" => opportunity = "need" /\ qualification.evidence # {}

\* Every piece of evidence in a qualification, a personalization or a draft is
\* a row that research saved and that makes a claim; UNKNOWN is never turned
\* into one (R-44), not even by a run whose signals were superseded under it.
EvidenceIsReal ==
    qualification.evidence \cup personalization \cup outreach \cup followUp
        \subseteq Evidentiary(signals)

\* Redoing the pipeline is safe ("idempotent on retry", worker.ts): a run that
\* no other run overlapped leaves everything in order, whatever half-done or
\* mixed-up state earlier runs left behind.  Its own signals are the active
\* ones, complete with their sources; the qualification, the personalization
\* of a qualified opportunity and the drafts all rest on them.
UndisturbedRunHeals ==
    \A w \in Workers :
        (undisturbed[w] /\ pc[w] = "complete") =>
            /\ Active \subseteq {run[w]} \X Kinds
            /\ Observed(Active) \subseteq cited
            /\ qualification = EvaluateQualification(Active)
            /\ qualification.state = "QUALIFIED" =>
                  personalization \in Selections(qualification.evidence)
            /\ outreach = personalization
            /\ followUp = outreach

\* rules.ts on EVIDENCE_PRESENT: "if every signal that justified it is later
\* superseded, this criterion fails" - so an opportunity that was just
\* qualified, with no other run near, has a live signal that shows the need.
QualifiedOnALiveNeed ==
    \A w \in Workers :
        (undisturbed[w] /\ pc[w] = "eligible" /\ qualification.state = "QUALIFIED")
            => NeedDetected(Active)
=============================================================================
