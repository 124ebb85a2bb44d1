-------------------------- MODULE SearchPipelineProofs --------------------------
(***************************************************************************)
(* Proofs about the pipeline of a Search, for any number of workers, runs  *)
(* and faults and any results of the research.                             *)
(*                                                                         *)
(* What the stages promise of each other holds at every statement, because *)
(* a worker that passed a gate holds evidence of it in what it read        *)
(* (Gates).  That an undisturbed run heals follows from two facts: nobody  *)
(* else is at work (Alone), and what the run has put in order so far       *)
(* (InOrder).                                                              *)
(***************************************************************************)
EXTENDS SearchPipeline, FiniteSetTheorems, TLAPS

AfterPersonalize == {"draft", "outreach", "next", "followUp", "complete"}
AfterQualify == {"eligible", "select", "personalize"} \cup AfterPersonalize
AfterCreate == {"evidence", "qualify"} \cup AfterQualify
AfterSupersede == {"save", "cite", "find", "detect", "create"} \cup AfterCreate

Qualified == qualification.state = "QUALIFIED"

\* What a worker that reached a statement has read and knows to exist.
Gates ==
    \A w \in Workers :
        /\ pc[w] # "idle" => run[w] \in Runs
        /\ read[w] \subseteq signals
        /\ pc[w] \in {"select", "personalize", "outreach", "followUp"} =>
              read[w] \subseteq Evidentiary(signals)
        /\ pc[w] \in {"personalize", "outreach", "followUp"} => read[w] # {}
        /\ pc[w] \in AfterCreate => opportunity # "absent"
        /\ pc[w] \in {"select", "personalize"} =>
              opportunity = "need" /\ qualification.state # "absent"
        /\ pc[w] = "outreach" => personalization # {}
        /\ pc[w] = "followUp" => outreach # {}

\* The first part of the invariant: what holds however runs mix.
Mixed == TypeOK /\ Gates /\ StagesRestOnEachOther /\ EvidenceIsReal

\* An undisturbed run is the only one.
Alone ==
    \A w \in Workers : undisturbed[w] => \A v \in Workers \ {w} : pc[v] = "idle"

\* What an undisturbed run of worker w has put in order by its next statement.
InOrder(w) ==
    /\ pc[w] \in AfterSupersede =>
          /\ Active \subseteq {run[w]} \X Kinds
          /\ Observed(Active) \subseteq cited \cup IF pc[w] = "cite" THEN read[w] ELSE {}
    /\ pc[w] = "qualify" => read[w] = Active
    /\ pc[w] \in AfterQualify => qualification = EvaluateQualification(Active)
    /\ pc[w] = "select" => Qualified /\ read[w] = qualification.evidence
    /\ pc[w] = "personalize" => Qualified /\ read[w] \in Selections(qualification.evidence)
    /\ pc[w] \in AfterPersonalize =>
          (Qualified => personalization \in Selections(qualification.evidence))
    /\ pc[w] = "outreach" => read[w] = personalization
    /\ pc[w] \in {"next", "followUp", "complete"} => outreach = personalization
    /\ pc[w] = "followUp" => read[w] = outreach
    /\ pc[w] = "complete" => followUp = outreach

Healing == \A w \in Workers : undisturbed[w] => InOrder(w)

IInv == Mixed /\ Alone /\ Healing

--------------------------------------------------------------------------
LEMMA InitHolds == Init => IInv
<1> SUFFICES ASSUME Init PROVE IInv
  OBVIOUS
<1>1. TypeOK
  <2>1. 0 \in 0..MaxRuns /\ 0 \in 0..MaxFaults
    BY BoundsAssumption
  <2>2. qualification \in Qualification
    BY DEF Init, Qualification
  <2> QED
    BY <2>1, <2>2 DEF Init, TypeOK, PC
<1>2. Gates /\ StagesRestOnEachOther /\ EvidenceIsReal
  BY DEF Init, Gates, StagesRestOnEachOther, EvidenceIsReal, AfterCreate, AfterQualify,
         AfterPersonalize
<1>3. Alone /\ Healing
  BY DEF Init, Alone, Healing
<1> QED
  BY <1>1, <1>2, <1>3 DEF IInv, Mixed

\* A selection of some evidence takes some of it, and nothing else.
LEMMA SelectionsAreProper ==
    ASSUME NEW rows \in SUBSET Signals, rows # {}, NEW sel \in Selections(rows)
    PROVE  sel \subseteq rows /\ sel # {}
<1>1. sel \subseteq rows
  BY DEF Selections
<1>2. IsFiniteSet(Kinds)
  <2>1. \A kind : IsFiniteSet({kind})
    BY FS_Singleton
  <2>2. IsFiniteSet({"match"} \cup {"claim"})
    BY <2>1, FS_Union
  <2>3. IsFiniteSet(({"match"} \cup {"claim"}) \cup {"unknown"})
    BY <2>1, <2>2, FS_Union
  <2>4. Kinds = ({"match"} \cup {"claim"}) \cup {"unknown"}
    BY DEF Kinds
  <2> QED
    BY <2>3, <2>4
<1>3. IsFiniteSet(Signals)
  <2>1. IsFiniteSet(Runs)
    BY FS_Interval, BoundsAssumption DEF Runs
  <2> QED
    BY <1>2, <2>1, FS_Product DEF Signals
<1>4. IsFiniteSet(rows)
  BY <1>3, FS_Subset
<1>5. Cardinality(rows) \in Nat \ {0}
  BY <1>4, FS_CardinalityType, FS_EmptySet
<1>6. Cardinality(sel) # 0
  BY <1>5, MaxEvidenceAssumption DEF Selections
<1>7. Cardinality({}) = 0
  BY FS_EmptySet
<1> QED
  BY <1>1, <1>6, <1>7

\* Qualifying is total, and it is QUALIFIED only with a need and evidence.
LEMMA EvaluationIsSound ==
    ASSUME NEW rows \in SUBSET Signals
    PROVE  /\ EvaluateQualification(rows) \in Qualification
           /\ EvaluateQualification(rows).state # "absent"
           /\ EvaluateQualification(rows).evidence \subseteq Evidentiary(rows)
           /\ EvaluateQualification(rows).state = "QUALIFIED" =>
                 /\ opportunity = "need"
                 /\ EvaluateQualification(rows).evidence = Evidentiary(rows)
                 /\ Evidentiary(rows) # {}
BY DEF EvaluateQualification, Qualification, Evidentiary

--------------------------------------------------------------------------
LEMMA TypePreserved == Mixed /\ [Next]_vars => TypeOK'
<1> SUFFICES ASSUME Mixed, [Next]_vars PROVE TypeOK'
  OBVIOUS
<1> USE NoWorkerAssumption, ResultsAssumption, BoundsAssumption DEF Mixed, TypeOK, PC
<1>1. CASE UNCHANGED vars
  BY <1>1 DEF vars, search, tables
<1>2. CASE Release
  BY <1>2 DEF Release, Fault, tables
<1>3. ASSUME NEW w \in Workers, Claim(w) PROVE TypeOK'
  BY <1>3 DEF Claim, Goto, tables
<1>4. ASSUME NEW w \in Workers, Discover(w) \/ Research(w) PROVE TypeOK'
  BY <1>4 DEF Discover, Research, Goto, Control, search, tables
<1>5. ASSUME NEW w \in Workers, SupersedePrevious(w) \/ SaveSources(w) PROVE TypeOK'
  BY <1>5 DEF SupersedePrevious, SaveSources, Goto, Control, search, Gates
<1>6. ASSUME NEW w \in Workers, SaveSignal(w) PROVE TypeOK'
  BY <1>6 DEF SaveSignal, Goto, Control, search, Gates, Signals, Runs
<1>7. ASSUME NEW w \in Workers,
             FindByProspectId(w) \/ DetectNeed(w) \/ CreateOpportunity(w) \/ ReadEvidence(w)
      PROVE  TypeOK'
  BY <1>7 DEF FindByProspectId, DetectNeed, CreateOpportunity, ReadEvidence, ListByProspect,
              Active, Goto, Control, search, tables
<1>8. ASSUME NEW w \in Workers, Qualify(w) PROVE TypeOK'
  BY <1>8, EvaluationIsSound DEF Qualify, Goto, Control, search
<1>9. ASSUME NEW w \in Workers, CheckEligibility(w) \/ SelectEvidence(w) PROVE TypeOK'
  <2>1. qualification.evidence \subseteq Signals
    BY DEF Qualification
  <2>2. CandidatesFor(w) \subseteq Signals
    BY DEF CandidatesFor, Evidentiary, Active
  <2>3. \A sel \in Selections(CandidatesFor(w)) : sel \subseteq Signals
    BY <2>2 DEF Selections
  <2>4. /\ pc' \in [Workers -> PC]
        /\ read' \in [Workers -> SUBSET Signals]
        /\ UNCHANGED <<tables, todo, Control>>
    BY <1>9, <2>1, <2>3 DEF CheckEligibility, SelectEvidence, Goto
  <2> QED
    BY <2>4 DEF Control, search, tables
<1>10. ASSUME NEW w \in Workers, Personalize(w) \/ ReadPersonalization(w) PROVE TypeOK'
  BY <1>10 DEF Personalize, ReadPersonalization, Goto, Control, search, tables
<1>11. ASSUME NEW w \in Workers, PrepareOutreach(w) \/ ReadOutreach(w) \/ PrepareFollowUp(w)
       PROVE  TypeOK'
  BY <1>11 DEF PrepareOutreach, ReadOutreach, PrepareFollowUp, Goto, Control, search, tables
<1>12. ASSUME NEW w \in Workers,
              Complete(w) \/ RecordFailure(w) \/ StatementFails(w) \/ Crash(w)
       PROVE  TypeOK'
  <2>1. /\ pc' \in [Workers -> PC]
        /\ read' \in [Workers -> SUBSET Signals]
        /\ todo' \in [Workers -> SUBSET Kinds]
        /\ UNCHANGED <<tables, run, undisturbed, runs>>
    BY <1>12 DEF Complete, RecordFailure, StatementFails, Crash, Leave, Goto
  <2>2. owner' \in Workers \cup {NoWorker} /\ ended' \in BOOLEAN
    <3>1. Complete(w) => owner' \in Workers \cup {NoWorker} /\ ended' \in BOOLEAN
      BY DEF Complete, search
    <3>2. RecordFailure(w) => owner' \in Workers \cup {NoWorker} /\ ended' \in BOOLEAN
      BY DEF RecordFailure, search
    <3> QED
      BY <1>12, <3>1, <3>2 DEF StatementFails, Crash, search
  <2>3. faults' \in 0..MaxFaults
    BY <1>12 DEF Complete, RecordFailure, StatementFails, Crash, Fault
  <2> QED
    BY <2>1, <2>2, <2>3 DEF tables
<1> QED
  BY <1>1, <1>2, <1>3, <1>4, <1>5, <1>6, <1>7, <1>8, <1>9, <1>10, <1>11, <1>12
     DEF Next, Pipeline

--------------------------------------------------------------------------
LEMMA GatesPreserved ==
    Mixed /\ [Next]_vars => (Gates /\ StagesRestOnEachOther /\ EvidenceIsReal)'
<1> DEFINE Stay == Gates /\ StagesRestOnEachOther /\ EvidenceIsReal
<1> SUFFICES ASSUME Mixed, [Next]_vars PROVE Stay'
  OBVIOUS
<1> USE DEF Mixed, AfterCreate, AfterQualify, AfterPersonalize
<1>1. TypeOK'
  BY TypePreserved
<1> USE DEF TypeOK
<1>2. CASE UNCHANGED vars
  BY <1>2 DEF Gates, StagesRestOnEachOther, EvidenceIsReal, Evidentiary, vars, search, tables
<1>3. CASE Release
  BY <1>3 DEF Gates, StagesRestOnEachOther, EvidenceIsReal, Evidentiary, Release, tables
<1>4. ASSUME NEW w \in Workers, Claim(w) PROVE Stay'
  <2>1. run'[w] \in Runs
    BY <1>4, <1>1 DEF Claim, Runs
  <2> QED
    BY <1>4, <2>1 DEF Gates, StagesRestOnEachOther, EvidenceIsReal, Evidentiary, Claim, Goto, tables
<1>5. ASSUME NEW w \in Workers, Discover(w) \/ Research(w) PROVE Stay'
  BY <1>5 DEF Gates, StagesRestOnEachOther, EvidenceIsReal, Evidentiary, Discover, Research, Goto,
              Control, tables
<1>6. ASSUME NEW w \in Workers, SupersedePrevious(w) \/ SaveSources(w) PROVE Stay'
  BY <1>6 DEF Gates, StagesRestOnEachOther, EvidenceIsReal, Evidentiary, SupersedePrevious,
              SaveSources, Goto, Control
<1>7. ASSUME NEW w \in Workers, SaveSignal(w) PROVE Stay'
  <2>1. signals \subseteq signals' /\ Evidentiary(signals) \subseteq Evidentiary(signals')
    BY <1>7 DEF SaveSignal, Evidentiary
  <2>2. read'[w] \subseteq signals'
    BY <1>7 DEF SaveSignal, Gates
  <2>3. pc'[w] \in {"save", "cite", "find"}
    BY <1>7 DEF SaveSignal, Goto
  <2>4. Gates'
    BY <1>7, <2>1, <2>2, <2>3 DEF Gates, SaveSignal, Goto, Control
  <2> QED
    BY <1>7, <2>1, <2>4 DEF StagesRestOnEachOther, EvidenceIsReal, SaveSignal
<1>8. ASSUME NEW w \in Workers,
             FindByProspectId(w) \/ DetectNeed(w) \/ CreateOpportunity(w) \/ ReadEvidence(w)
      PROVE  Stay'
  <2>1. EvidenceIsReal' /\ StagesRestOnEachOther'
    BY <1>8 DEF EvidenceIsReal, StagesRestOnEachOther, Evidentiary, FindByProspectId, DetectNeed,
                CreateOpportunity, ReadEvidence, tables
  <2>2. opportunity # "absent" => opportunity' = opportunity
    BY <1>8 DEF FindByProspectId, DetectNeed, CreateOpportunity, ReadEvidence, tables
  <2>3. read'[w] \subseteq signals /\ pc'[w] \in {"detect", "create", "evidence", "qualify", "fail"}
    BY <1>8 DEF FindByProspectId, DetectNeed, CreateOpportunity, ReadEvidence, ListByProspect,
                Active, Goto, Gates
  <2>4. pc'[w] \in {"evidence", "qualify"} => opportunity' # "absent"
    BY <1>8 DEF FindByProspectId, DetectNeed, CreateOpportunity, ReadEvidence, tables, Goto, Gates
  <2> QED
    BY <1>8, <2>1, <2>2, <2>3, <2>4
       DEF FindByProspectId, DetectNeed, CreateOpportunity, ReadEvidence, ListByProspect,
           Goto, Gates, Evidentiary, Control, tables
<1>9. ASSUME NEW w \in Workers, Qualify(w) PROVE Stay'
  <2>1. /\ qualification'.state # "absent"
        /\ qualification'.evidence \subseteq Evidentiary(signals)
        /\ qualification'.state = "QUALIFIED" =>
              opportunity = "need" /\ qualification'.evidence # {}
    BY <1>9, EvaluationIsSound DEF Qualify, Gates, Evidentiary
  <2>2. Gates'
    BY <1>9, <2>1 DEF Gates, Qualify, Evidentiary, Goto, Control
  <2> QED
    BY <1>9, <2>1, <2>2 DEF StagesRestOnEachOther, EvidenceIsReal, Evidentiary, Qualify
<1>10. ASSUME NEW w \in Workers, CheckEligibility(w) PROVE Stay'
  BY <1>10 DEF Gates, StagesRestOnEachOther, EvidenceIsReal, Evidentiary, CheckEligibility, Goto,
               Control, tables
<1>11. ASSUME NEW w \in Workers, SelectEvidence(w) PROVE Stay'
  <2>1. CandidatesFor(w) \subseteq Evidentiary(signals) /\ CandidatesFor(w) \in SUBSET Signals
    BY DEF CandidatesFor, Evidentiary, Active
  <2>2. pc'[w] = "personalize" =>
           read'[w] # {} /\ read'[w] \subseteq Evidentiary(signals)
    BY <1>11, <2>1, SelectionsAreProper DEF SelectEvidence, Goto
  <2>3. read'[w] \subseteq signals /\ pc'[w] \in {"draft", "personalize"}
    BY <1>11, <2>2 DEF SelectEvidence, Goto, Gates, Evidentiary
  <2> QED
    BY <1>11, <2>2, <2>3 DEF Gates, StagesRestOnEachOther, EvidenceIsReal, Evidentiary,
                             SelectEvidence, Goto, Control, tables
<1>12. ASSUME NEW w \in Workers, Personalize(w) PROVE Stay'
  BY <1>12 DEF Gates, StagesRestOnEachOther, EvidenceIsReal, Evidentiary, Personalize, Goto, Control
<1>13. ASSUME NEW w \in Workers, ReadPersonalization(w) \/ ReadOutreach(w) PROVE Stay'
  BY <1>13 DEF Gates, StagesRestOnEachOther, EvidenceIsReal, Evidentiary, ReadPersonalization,
               ReadOutreach, Goto, Control, tables
<1>14. ASSUME NEW w \in Workers, PrepareOutreach(w) \/ PrepareFollowUp(w) PROVE Stay'
  BY <1>14 DEF Gates, StagesRestOnEachOther, EvidenceIsReal, Evidentiary, PrepareOutreach,
               PrepareFollowUp, Goto, Control
<1>15. ASSUME NEW w \in Workers,
              Complete(w) \/ RecordFailure(w) \/ StatementFails(w) \/ Crash(w)
       PROVE  Stay'
  <2>1. /\ UNCHANGED <<tables, run>>
        /\ \/ Goto(w, "idle") /\ read' = [read EXCEPT ![w] = {}]
           \/ pc[w] # "idle" /\ Goto(w, "fail") /\ UNCHANGED read
    BY <1>15 DEF Complete, RecordFailure, StatementFails, Crash, Leave
  <2> QED
    BY <2>1 DEF Gates, StagesRestOnEachOther, EvidenceIsReal, Evidentiary, Goto, tables
<1> QED
  BY <1>2, <1>3, <1>4, <1>5, <1>6, <1>7, <1>8, <1>9, <1>10, <1>11, <1>12, <1>13, <1>14, <1>15
     DEF Next, Pipeline

--------------------------------------------------------------------------
\* A step of a worker that works disturbs no other undisturbed run: there is none.
LEMMA OnlyOwnRun ==
    ASSUME Alone, Healing, NEW w \in Workers, pc[w] # "idle",
           undisturbed' = undisturbed, undisturbed[w] => InOrder(w)'
    PROVE  Healing'
<1> SUFFICES ASSUME NEW x \in Workers, undisturbed[x] PROVE InOrder(x)'
  BY DEF Healing
<1> x = w
  BY DEF Alone
<1> QED
  OBVIOUS

\* A run that stops leaves no promise behind.
LEMMA StoppedInOrder ==
    ASSUME NEW w \in Workers, pc'[w] \in {"idle", "discover", "research", "supersede", "fail"}
    PROVE  InOrder(w)'
BY DEF InOrder, AfterSupersede, AfterCreate, AfterQualify, AfterPersonalize

LEMMA AlonePreserved == Mixed /\ Alone /\ [Next]_vars => Alone'
<1> SUFFICES ASSUME Mixed, Alone, [Next]_vars PROVE Alone'
  OBVIOUS
<1> USE DEF Mixed, TypeOK, Alone
<1>1. CASE UNCHANGED vars \/ Release
  BY <1>1 DEF vars, Release
<1>2. ASSUME NEW w \in Workers, Claim(w) PROVE Alone'
  BY <1>2 DEF Claim, Goto
<1>3. ASSUME NEW w \in Workers,
             Pipeline(w) \/ Complete(w) \/ RecordFailure(w) \/ StatementFails(w) \/ Crash(w)
      PROVE  Alone'
  <2>1. /\ undisturbed' = undisturbed
        /\ pc[w] # "idle"
        /\ \A v \in Workers \ {w} : pc'[v] = pc[v]
    <3>1. CASE Pipeline(w)
      BY <3>1 DEF Pipeline, Discover, Research, SupersedePrevious, SaveSignal, SaveSources,
         FindByProspectId, DetectNeed, CreateOpportunity, ReadEvidence, Qualify, CheckEligibility,
         SelectEvidence, Personalize, ReadPersonalization, PrepareOutreach, ReadOutreach,
         PrepareFollowUp, Goto, Control
    <3>2. CASE ~Pipeline(w)
      BY <1>3, <3>2 DEF Complete, RecordFailure, StatementFails, Crash, Leave, Goto
    <3> QED
      BY <3>1, <3>2
  <2> QED
    BY <2>1
<1> QED
  BY <1>1, <1>2, <1>3 DEF Next

LEMMA HealingPreserved == IInv /\ [Next]_vars => Healing'
<1> SUFFICES ASSUME IInv, [Next]_vars PROVE Healing'
  OBVIOUS
<1> USE DEF IInv, Mixed, TypeOK
<1>1. CASE UNCHANGED vars \/ Release
  <2>1. UNCHANGED <<tables, pc, run, read, undisturbed>>
    BY <1>1 DEF vars, Release
  <2> QED
    BY <2>1 DEF Healing, InOrder, Active, Evidentiary, Observed, Qualified, EvaluateQualification,
                Selections, tables
<1>2. ASSUME NEW w \in Workers, Claim(w) PROVE Healing'
  <2>1. \A x \in Workers : undisturbed'[x] => x = w
    BY <1>2 DEF Claim
  <2>2. pc'[w] = "discover"
    BY <1>2 DEF Claim, Goto
  <2> QED
    BY <2>1, <2>2, StoppedInOrder DEF Healing
<1>3. ASSUME NEW w \in Workers,
             Discover(w) \/ Research(w) \/ Complete(w) \/ RecordFailure(w)
                \/ StatementFails(w) \/ Crash(w)
      PROVE  Healing'
  <2>1. /\ undisturbed' = undisturbed
        /\ pc[w] # "idle"
        /\ pc'[w] \in {"idle", "research", "supersede", "fail"}
    BY <1>3 DEF Discover, Research, Complete, RecordFailure, StatementFails, Crash, Leave, Goto,
                Control
  <2> QED
    BY <2>1, StoppedInOrder, OnlyOwnRun
<1>4. ASSUME NEW w \in Workers, SupersedePrevious(w) PROVE Healing'
  <2>1. undisturbed' = undisturbed /\ pc[w] # "idle" /\ pc'[w] = "save" /\ Active' = {}
    BY <1>4 DEF SupersedePrevious, Control, Goto, Active
  <2>2. InOrder(w)'
    BY <2>1 DEF InOrder, Evidentiary, Observed, AfterCreate, AfterQualify, AfterPersonalize
  <2> QED
    BY <2>1, <2>2, OnlyOwnRun
<1>5. ASSUME NEW w \in Workers, SaveSignal(w) \/ SaveSources(w) PROVE Healing'
  <2>1. undisturbed' = undisturbed /\ pc[w] \in {"save", "cite"} /\ run' = run
        /\ pc'[w] \in {"save", "cite", "find"}
    BY <1>5 DEF SaveSignal, SaveSources, Control, Goto
  <2>2. ASSUME undisturbed[w] PROVE InOrder(w)'
    <3>1. Active \subseteq {run[w]} \X Kinds
      BY <2>1, <2>2 DEF Healing, InOrder, AfterSupersede
    <3>2. Active' \subseteq {run[w]} \X Kinds
      BY <1>5, <3>1 DEF SaveSignal, SaveSources, Active, Control
    <3>3. Observed(Active)' \subseteq cited' \cup IF pc'[w] = "cite" THEN read'[w] ELSE {}
      <4>1. Observed(Active) \subseteq cited \cup IF pc[w] = "cite" THEN read[w] ELSE {}
        BY <2>1, <2>2 DEF Healing, InOrder, AfterSupersede
      <4>2. CASE SaveSignal(w)
        BY <4>1, <4>2 DEF SaveSignal, Active, Evidentiary, Observed, KindOf, Goto
      <4>3. CASE SaveSources(w)
        BY <4>1, <4>3 DEF SaveSources, Active, Evidentiary, Observed, Goto
      <4> QED
        BY <1>5, <4>2, <4>3
    <3> QED
      BY <2>1, <3>2, <3>3 DEF InOrder, Evidentiary, Observed, AfterCreate, AfterQualify,
                              AfterPersonalize
  <2> QED
    BY <2>1, <2>2, OnlyOwnRun
<1>6. ASSUME NEW w \in Workers,
             FindByProspectId(w) \/ DetectNeed(w) \/ CreateOpportunity(w) \/ ReadEvidence(w)
      PROVE  Healing'
  <2>1. /\ undisturbed' = undisturbed /\ UNCHANGED <<run, signals, superseded, cited>>
        /\ pc[w] \in {"find", "detect", "create", "evidence"}
        /\ pc'[w] \in {"detect", "create", "evidence", "qualify", "fail"}
        /\ pc'[w] = "qualify" => read'[w] = Active
    BY <1>6 DEF FindByProspectId, DetectNeed, CreateOpportunity, ReadEvidence, ListByProspect,
                Control, Goto, tables
  <2>2. ASSUME undisturbed[w] PROVE InOrder(w)'
    BY <2>1, <2>2 DEF Healing, InOrder, Active, Evidentiary, Observed, AfterSupersede, AfterCreate,
                      AfterQualify, AfterPersonalize
  <2> QED
    BY <2>1, <2>2, OnlyOwnRun
<1>7. ASSUME NEW w \in Workers, Qualify(w) PROVE Healing'
  <2>1. /\ undisturbed' = undisturbed /\ UNCHANGED <<run, signals, superseded, cited, opportunity>>
        /\ pc[w] = "qualify" /\ pc'[w] = "eligible"
        /\ qualification' = EvaluateQualification(read[w])
    BY <1>7 DEF Qualify, Control, Goto
  <2>2. ASSUME undisturbed[w] PROVE InOrder(w)'
    <3>1. qualification' = EvaluateQualification(Active)'
      BY <2>1, <2>2 DEF Healing, InOrder, EvaluateQualification, Evidentiary, Observed, Active
    <3> QED
      BY <2>1, <2>2, <3>1 DEF Healing, InOrder, Active, Evidentiary, Observed, AfterSupersede,
                              AfterCreate,
                              AfterQualify, AfterPersonalize
  <2> QED
    BY <2>1, <2>2, OnlyOwnRun
<1>8. ASSUME NEW w \in Workers, CheckEligibility(w) \/ SelectEvidence(w) PROVE Healing'
  <2>1. /\ undisturbed' = undisturbed /\ UNCHANGED <<tables, run>>
        /\ pc[w] \in {"eligible", "select"} /\ pc'[w] \in {"select", "personalize", "draft"}
    BY <1>8 DEF CheckEligibility, SelectEvidence, Control, Goto
  <2>2. ASSUME undisturbed[w] PROVE InOrder(w)'
    <3>1. /\ Active \subseteq {run[w]} \X Kinds
          /\ Observed(Active) \subseteq cited
          /\ qualification = EvaluateQualification(Active)
      BY <2>1, <2>2 DEF Healing, InOrder, AfterSupersede, AfterCreate, AfterQualify
    <3>2. Active \in SUBSET Signals
      BY DEF Active
    <3>3. CASE CheckEligibility(w)
      <4>1. \/ pc'[w] = "select" /\ Qualified /\ read'[w] = qualification.evidence
            \/ pc'[w] = "draft" /\ ~Qualified
        BY <3>3 DEF CheckEligibility, Qualified, Goto
      <4> QED
        BY <2>1, <3>1, <4>1 DEF InOrder, Active, Evidentiary, Observed, EvaluateQualification,
                                Qualified,
                                tables, AfterSupersede, AfterCreate, AfterQualify, AfterPersonalize
    <3>4. CASE SelectEvidence(w)
      <4>1. Qualified /\ read[w] = qualification.evidence
        BY <2>2, <3>4 DEF SelectEvidence, Healing, InOrder
      <4>2. qualification.evidence = Evidentiary(Active) /\ Evidentiary(Active) # {}
        BY <3>1, <3>2, <4>1, EvaluationIsSound DEF Qualified
      <4>3. CandidatesFor(w) = qualification.evidence
        BY <4>1, <4>2 DEF CandidatesFor
      <4>4. pc'[w] = "personalize" /\ read'[w] \in Selections(qualification.evidence)
        BY <3>4, <4>2, <4>3 DEF SelectEvidence, Goto
      <4> QED
        BY <2>1, <3>1, <4>1, <4>4
           DEF InOrder, Active, Evidentiary, Observed, EvaluateQualification, Qualified,
               Selections, tables,
               AfterSupersede, AfterCreate, AfterQualify, AfterPersonalize
    <3> QED
      BY <1>8, <3>3, <3>4
  <2> QED
    BY <2>1, <2>2, OnlyOwnRun
<1>9. ASSUME NEW w \in Workers, Personalize(w) PROVE Healing'
  <2>1. /\ undisturbed' = undisturbed
        /\ UNCHANGED <<run, signals, superseded, cited, opportunity, qualification>>
        /\ pc[w] = "personalize" /\ pc'[w] = "draft" /\ personalization' = read[w]
    BY <1>9 DEF Personalize, Control, Goto
  <2>2. ASSUME undisturbed[w] PROVE InOrder(w)'
    BY <2>1, <2>2 DEF Healing, InOrder, Active, Evidentiary, Observed, EvaluateQualification,
                      Qualified,
                      Selections, AfterSupersede, AfterCreate, AfterQualify, AfterPersonalize
  <2> QED
    BY <2>1, <2>2, OnlyOwnRun
<1>10. ASSUME NEW w \in Workers,
              ReadPersonalization(w) \/ PrepareOutreach(w) \/ ReadOutreach(w) \/ PrepareFollowUp(w)
       PROVE  Healing'
  <2>1. /\ undisturbed' = undisturbed
        /\ UNCHANGED <<run, signals, superseded, cited, opportunity, qualification,
                       personalization>>
        /\ pc[w] \in AfterPersonalize \ {"complete"}
        /\ pc'[w] \in AfterPersonalize \ {"draft"}
    BY <1>10 DEF ReadPersonalization, PrepareOutreach, ReadOutreach, PrepareFollowUp, Control, Goto,
                 tables, AfterPersonalize
  <2>2. ASSUME undisturbed[w] PROVE InOrder(w)'
    <3>1. /\ Active \subseteq {run[w]} \X Kinds
          /\ Observed(Active) \subseteq cited
          /\ qualification = EvaluateQualification(Active)
          /\ Qualified => personalization \in Selections(qualification.evidence)
      BY <2>1, <2>2 DEF Healing, InOrder, AfterSupersede, AfterCreate, AfterQualify,
                        AfterPersonalize
    <3>2. /\ pc'[w] = "outreach" => read'[w] = personalization
          /\ pc'[w] \in {"next", "followUp", "complete"} => outreach' = personalization
          /\ pc'[w] = "followUp" => read'[w] = outreach'
          /\ pc'[w] = "complete" => followUp' = outreach'
      <4>1. /\ pc[w] = "outreach" => read[w] = personalization
            /\ pc[w] \in {"next", "followUp", "complete"} => outreach = personalization
            /\ pc[w] = "followUp" => read[w] = outreach
        BY <2>2 DEF Healing, InOrder
      <4>2. CASE ReadPersonalization(w)
        BY <4>2 DEF ReadPersonalization, Goto, tables, StagesRestOnEachOther
      <4>3. CASE PrepareOutreach(w)
        BY <4>1, <4>3 DEF PrepareOutreach, Goto
      <4>4. CASE ReadOutreach(w)
        BY <4>1, <4>4 DEF ReadOutreach, Goto, tables, StagesRestOnEachOther
      <4>5. CASE PrepareFollowUp(w)
        BY <4>1, <4>5 DEF PrepareFollowUp, Goto
      <4> QED
        BY <1>10, <4>2, <4>3, <4>4, <4>5
    <3> QED
      BY <2>1, <3>1, <3>2
         DEF InOrder, Active, Evidentiary, Observed, EvaluateQualification, Qualified, Selections,
             AfterSupersede, AfterCreate, AfterQualify, AfterPersonalize
  <2> QED
    BY <2>1, <2>2, OnlyOwnRun DEF AfterPersonalize
<1> QED
  BY <1>1, <1>2, <1>3, <1>4, <1>5, <1>6, <1>7, <1>8, <1>9, <1>10 DEF Next, Pipeline

LEMMA InvariantHolds == Spec => []IInv
<1>1. IInv /\ [Next]_vars => IInv'
  BY TypePreserved, GatesPreserved, AlonePreserved, HealingPreserved DEF IInv, Mixed
<1> QED
  BY <1>1, InitHolds, PTL DEF Spec

--------------------------------------------------------------------------
\* Rows, statements and counters stay in their domains; no signal is superseded
\* or given sources that was not saved.
THEOREM TypeCorrect == Spec => []TypeOK
<1>1. IInv => TypeOK
  BY DEF IInv, Mixed
<1> QED
  BY <1>1, InvariantHolds, PTL

\* However the runs of a Search mix and stop, no stage exists without the one
\* it rests on, and nothing rests on a need that was not detected.
THEOREM StagesRestOnEachOtherHolds == Spec => []StagesRestOnEachOther
<1>1. IInv => StagesRestOnEachOther
  BY DEF IInv, Mixed
<1> QED
  BY <1>1, InvariantHolds, PTL

\* The evidence of every later row is a saved signal with a claim.
THEOREM EvidenceIsRealHolds == Spec => []EvidenceIsReal
<1>1. IInv => EvidenceIsReal
  BY DEF IInv, Mixed
<1> QED
  BY <1>1, InvariantHolds, PTL

\* One run of the pipeline that no other overlaps repairs whatever earlier
\* runs left: retrying a Search is safe.
THEOREM UndisturbedRunHealsHolds == Spec => []UndisturbedRunHeals
<1>1. IInv => UndisturbedRunHeals
  <2> SUFFICES ASSUME IInv, NEW w \in Workers, undisturbed[w], pc[w] = "complete"
               PROVE  /\ Active \subseteq {run[w]} \X Kinds
                      /\ Observed(Active) \subseteq cited
                      /\ qualification = EvaluateQualification(Active)
                      /\ qualification.state = "QUALIFIED" =>
                            personalization \in Selections(qualification.evidence)
                      /\ outreach = personalization
                      /\ followUp = outreach
    BY DEF UndisturbedRunHeals
  <2>1. InOrder(w)
    BY DEF IInv, Healing
  <2> QED
    BY <2>1 DEF InOrder, AfterSupersede, AfterCreate, AfterQualify, AfterPersonalize, Qualified
<1> QED
  BY <1>1, InvariantHolds, PTL
=============================================================================
