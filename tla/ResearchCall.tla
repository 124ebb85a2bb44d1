------------------------------ MODULE ResearchCall ------------------------------
(***************************************************************************)
(* One research of a company: the homepage is fetched                      *)
(* (core-research/sourceDocumentProvider.ts), the model is asked for       *)
(* claims (researcher.ts), its answer is checked for shape (schema.ts) and *)
(* for evidence (provenance.ts), what failed is repaired (repair.ts), and  *)
(* every answer is metered (core-ai-usage).  The caller may abort and a    *)
(* deadline may pass at any moment (abortable.ts).                         *)
(*                                                                         *)
(* A research document is a function from observations to claims.  A claim *)
(* is its class, its citations, and whether its value, basis and           *)
(* confidence are those its class allows.  An answer is known by the       *)
(* number of its attempt, which stands for the provider's message id.      *)
(***************************************************************************)
EXTENDS Absence, Naturals, Sequences, FiniteSets, SequencesExt

CONSTANTS
    Observations,     \* the observations of a document, by path
    SourceDocuments,  \* the documents the model is given, a homepage first: [url, quotes]
    TooShort,         \* quotes below MIN_QUOTE_CHARS
    ClaimSet,         \* the claims the model may make
    MaxAttempts       \* config.maxAttempts

VARIABLES
    turn,      \* where the call stands; "over" when it returned or threw
    outcome,   \* what it returned or threw
    fetches,   \* tries to fetch the homepage
    attempts,
    prior,     \* priorValue: the last candidate, or None
    roots,     \* repairRoots
    sources,   \* does the last message carry the source documents?
    reply,     \* the ModelResult in hand, while its usage is recorded
    usage,     \* ai_usage_events: [attempt, kind]
    aborted,   \* signal.aborted
    expired,   \* deadline.expired()
    answered,  \* the answers the provider gave: a history
    good,      \* of its first document the claims that were right: a history
    heeded,    \* did every repair so far do what it was told?  a history
    late       \* answers that came after the abort or the deadline: a history

researchVars == <<turn, outcome, fetches, attempts, prior, roots, sources, reply, usage, aborted,
                  expired, answered, good, heeded, late>>

CallSteps == {"fetch", "check", "calling", "metering", "sleeping", "over"}
Outcomes == {"transport", "thin", "signal", "deadline", "rejected", "provider",
             "unmetered", "refused", "invalid", "research"}
Documents == [Observations -> ClaimSet]
Kinds == {"initial", "repair"}

\* The documents are told apart by their URLs: a call is given the homepage alone
\* (sourceDocumentProvider.ts), and the tests others beside it.
ASSUME ResearchConstants ==
    /\ MaxAttempts \in Nat \ {0}
    /\ SourceDocuments \in Seq(Range(SourceDocuments))
    /\ \A i, j \in DOMAIN SourceDocuments :
          SourceDocuments[i].url = SourceDocuments[j].url => i = j
    /\ None \notin [Observations -> ClaimSet \cup {None}]
    /\ None \notin ClaimSet
    /\ None \notin Outcomes

\* The call keeps to its steps, its budget and its tables.
ResearchTypeOK ==
    /\ turn \in CallSteps
    /\ outcome \in Outcomes \cup {None}
    /\ fetches \in 0..2
    /\ attempts \in 0..MaxAttempts
    /\ prior \in Documents \cup {None}
    /\ roots \subseteq Observations
    /\ usage \subseteq [attempt : 1..MaxAttempts, kind : Kinds]
    /\ answered \subseteq [attempt : 1..MaxAttempts, kind : Kinds]
    /\ {sources, aborted, expired, heeded} \subseteq BOOLEAN

ResearchInit ==
    /\ turn = "fetch"
    /\ outcome = None
    /\ fetches = 0
    /\ attempts = 0
    /\ prior = None
    /\ roots = {}
    /\ sources = TRUE
    /\ reply = None
    /\ usage = {}
    /\ aborted = FALSE
    /\ expired = FALSE
    /\ answered = {}
    /\ good = None
    /\ heeded = TRUE
    /\ late = 0

End(o) == turn' = "over" /\ outcome' = o

request == <<attempts, prior, roots, sources>>
budget == <<aborted, expired>>
history == <<answered, good, heeded, late>>

--------------------------------------------------------------------------
(* The homepage.                                                           *)

\* A timeout, a network failure or a 5xx: tried once more, then thrown.
FetchFails ==
    /\ turn = "fetch"
    /\ fetches' = fetches + 1
    /\ IF fetches = 0 THEN UNCHANGED <<turn, outcome>> ELSE End("transport")
    /\ UNCHANGED <<request, reply, usage, budget, history>>

\* A 4xx, no HTML, too large or too short: InsufficientEvidenceError.
FetchFindsNothing ==
    /\ turn = "fetch"
    /\ End("thin")
    /\ UNCHANGED <<fetches, request, reply, usage, budget, history>>

FetchFinds ==
    /\ turn = "fetch"
    /\ turn' = "check"
    /\ UNCHANGED <<outcome, fetches, request, reply, usage, budget, history>>

--------------------------------------------------------------------------
(* What is wrong with a document.                                          *)

\* observationSchema: the evidence a class asks for or forbids, and the rest.
ZodIssues(document) ==
    {[root |-> o, evidence |-> TRUE] : o \in {p \in Observations :
        document[p].class = "OBSERVED" <=> document[p].citations = {}}}
    \cup {[root |-> o, evidence |-> FALSE] : o \in {p \in Observations : ~document[p].fits}}

\* The first document with the URL that is cited is the one that must hold the quote.
Cited(citation) ==
    /\ citation.quote \notin TooShort
    /\ \E i \in DOMAIN SourceDocuments :
          /\ SourceDocuments[i].url = citation.url
          /\ citation.quote \in SourceDocuments[i].quotes
          /\ \A j \in 1..(i - 1) : SourceDocuments[j].url # citation.url

\* verifyProvenance: of every OBSERVED claim each citation.
ProvenanceIssues(document) ==
    {[root |-> o, evidence |-> TRUE] : o \in {p \in Observations :
        /\ document[p].class = "OBSERVED"
        /\ \E citation \in document[p].citations : ~Cited(citation)}}

\* Provenance is checked only of a document whose shape is right.
Issues(document) ==
    IF ZodIssues(document) # {} THEN ZodIssues(document) ELSE ProvenanceIssues(document)

\* Is a claim what its class says it is, for the history and the properties: what is
\* OBSERVED is quoted from the very document that is cited, and nothing else cites anything.
Genuine(claim) ==
    /\ claim.fits
    /\ claim.class = "OBSERVED" <=> claim.citations # {}
    /\ \A citation \in claim.citations :
          /\ citation.quote \notin TooShort
          /\ \E d \in Range(SourceDocuments) :
                d.url = citation.url /\ citation.quote \in d.quotes

--------------------------------------------------------------------------
(* Repair.                                                                 *)

\* Mutant: the cap on the issues that are shown is applied to what may be repaired.
RepairRootsCapped(issues) ==
    IF issues = {} THEN {} ELSE {(CHOOSE issue \in issues : TRUE).root}

RepairRoots(issues) == {issue.root : issue \in issues}

NeedsSourceContext(issues) == \E issue \in issues : issue.evidence

\* planRepair: the roots of every issue, also of those the message leaves out.
PlanRepair(issues) ==
    /\ roots' = RepairRoots(issues)
    /\ sources' = NeedsSourceContext(issues)

\* A root the model did not produce is left as it was.
ApplyRepair(document, repaired, at) ==
    [o \in Observations |->
        IF o \in at /\ repaired[o] # None THEN repaired[o] ELSE document[o]]

--------------------------------------------------------------------------
(* researchLead.                                                           *)

Abort ==
    /\ turn # "over" /\ ~aborted
    /\ aborted' = TRUE
    /\ UNCHANGED <<turn, outcome, fetches, request, reply, usage, expired, history>>

Expire ==
    /\ turn # "over" /\ ~expired
    /\ expired' = TRUE
    /\ UNCHANGED <<turn, outcome, fetches, request, reply, usage, aborted, history>>

\* assertLive.
Throw == IF aborted THEN End("signal") ELSE End("deadline")

\* The top of the loop: a call is not begun for a caller who has left.
BeginCall ==
    /\ turn = "check"
    /\ attempts < MaxAttempts
    /\ \/ /\ ~aborted /\ ~expired
          /\ attempts' = attempts + 1
          /\ turn' = "calling"
          /\ UNCHANGED outcome
       \/ /\ aborted \/ expired
          /\ Throw
          /\ UNCHANGED attempts
    /\ UNCHANGED <<fetches, prior, roots, sources, reply, usage, budget, history>>

RequestKind == IF roots # {} THEN "repair" ELSE "initial"

\* Does a repair give every root a claim of the right shape, and with the documents at
\* hand one whose citations are true?
Heeds(document) ==
    \A o \in roots :
        /\ document[o] # None
        /\ LET one == [p \in Observations |-> document[o]]
           IN  ZodIssues(one) = {} /\ (sources => ProvenanceIssues(one) = {})

\* A response arrives; prior tells which message it answers.
Respond(response) ==
    /\ turn = "calling"
    /\ turn' = "metering"
    /\ reply' = response
    /\ answered' = answered \cup
           {[attempt |-> attempts, kind |-> IF prior = None THEN "initial" ELSE "repair"]}
    /\ late' = IF aborted \/ expired THEN late + 1 ELSE late
    /\ UNCHANGED <<outcome, fetches, request, usage, budget>>

\* A document, of which a repair may leave observations out.
ModelAnswers(document) ==
    /\ Respond([kind |-> "json", value |-> document])
    /\ prior = None => \A o \in Observations : document[o] # None
    /\ good' = IF good # None THEN good
               ELSE [o \in Observations |-> IF Genuine(document[o]) THEN document[o] ELSE None]
    /\ heeded' = (heeded /\ Heeds(document))

ModelRefuses ==
    /\ Respond([kind |-> "refusal"])
    /\ UNCHANGED <<good, heeded>>

\* The call throws: the network, a status, or an answer without text that parses.
CallFails(retryable) ==
    /\ turn = "calling"
    /\ \/ aborted /\ End("signal")
       \/ /\ ~aborted
          /\ ~retryable \/ attempts >= MaxAttempts
          /\ End("provider")
       \/ /\ ~aborted
          /\ retryable /\ attempts < MaxAttempts
          /\ turn' = "sleeping"
          /\ UNCHANGED outcome
    /\ heeded' = FALSE
    /\ UNCHANGED <<fetches, request, reply, usage, budget, answered, good, late>>

\* abortableSleep runs to its end; assertLive then asks for the deadline.
Wake ==
    /\ turn = "sleeping"
    /\ ~aborted
    /\ IF expired THEN End("deadline") ELSE turn' = "check" /\ UNCHANGED outcome
    /\ UNCHANGED <<fetches, request, reply, usage, budget, history>>

\* An abort rejects the sleep with the reason of the signal, whatever that is.
SleepAborted ==
    /\ turn = "sleeping"
    /\ aborted
    /\ End("rejected")
    /\ UNCHANGED <<fetches, request, reply, usage, budget, history>>

\* Validation of the candidate, and the plan of the next round.
ValidateCandidate ==
    LET candidate == IF roots # {} THEN ApplyRepair(prior, reply.value, roots)
                     ELSE reply.value
        issues == Issues(candidate)
    IN  /\ prior' = candidate
        /\ \/ /\ issues = {}
              /\ End("research")
              /\ UNCHANGED <<roots, sources>>
           \/ /\ issues # {}
              /\ attempts >= MaxAttempts
              /\ End("invalid")
              /\ UNCHANGED <<roots, sources>>
           \/ /\ issues # {}
              /\ attempts < MaxAttempts
              /\ PlanRepair(issues)
              /\ turn' = "check"
              /\ UNCHANGED outcome

\* onInvocation: recordEvent inserts the row, or finds it; then the response is used.
RecordUsage ==
    /\ turn = "metering"
    /\ usage' = usage \cup {[attempt |-> attempts, kind |-> RequestKind]}
    /\ \/ reply.kind = "refusal" /\ End("refused") /\ UNCHANGED request
       \/ reply.kind = "json" /\ ValidateCandidate /\ UNCHANGED attempts
    /\ reply' = None
    /\ UNCHANGED <<fetches, budget, history>>

\* The write of the usage fails, and the call with it.
UsageFails ==
    /\ turn = "metering"
    /\ End("unmetered")
    /\ reply' = None
    /\ UNCHANGED <<fetches, request, usage, budget, history>>

--------------------------------------------------------------------------
ResearchNext ==
    \/ FetchFails \/ FetchFindsNothing \/ FetchFinds
    \/ Abort \/ Expire
    \/ BeginCall \/ ModelRefuses \/ Wake \/ SleepAborted
    \/ \E document \in [Observations -> ClaimSet \cup {None}] : ModelAnswers(document)
    \/ \E retryable \in BOOLEAN : CallFails(retryable)
    \/ RecordUsage \/ UsageFails

ResearchSpec == ResearchInit /\ [][ResearchNext]_researchVars

--------------------------------------------------------------------------
(* Properties.                                                             *)

\* "Merging is a cheaper route to a candidate, never a shortcut past the gate": whatever
\* was repaired, every claim of a research that is returned is genuine (researcher.ts).
ReturnedIsGenuine == outcome = "research" => \A o \in Observations : Genuine(prior[o])

\* "Unrelated observations are preserved by construction": a claim that was right in the
\* first answer is the one that is returned, whatever the repairs answer in its place.
GoodClaimsSurvive ==
    (good # None /\ prior # None) =>
        \A o \in Observations : good[o] # None => prior[o] = good[o]

\* Three attempts are enough for a model that mends what it is told to: failures of shape
\* hide those of evidence, and a repair of shape is made without the documents at hand.
ThreeRoundsSuffice == (outcome = "invalid" /\ MaxAttempts >= 3) => ~heeded

\* Every answer of the provider is metered once, as what it was asked for, before it is
\* used; one is missing only while it is in hand or when the write failed.
UsageIsComplete ==
    /\ usage \subseteq answered
    /\ \A e \in answered \ usage : e.attempt = attempts
    /\ answered # usage => turn = "metering" \/ outcome = "unmetered"

\* "An aborted caller must not pay for one more request": after the abort, or after the
\* deadline, at most the answer that was under way is still paid for, whatever is
\* awaited in between.
OneLateAnswer == late <= 1

\* What a research promises over every answer, fault, abort and repair.
ResearchHolds ==
    /\ ResearchTypeOK
    /\ ReturnedIsGenuine
    /\ GoodClaimsSurvive
    /\ ThreeRoundsSuffice
    /\ UsageIsComplete
    /\ OneLateAnswer
================================================================================
