-------------------------------- MODULE Opportunities --------------------------------
(***************************************************************************)
(* What a user does with the opportunities of a search: create one, score  *)
(* it, classify its staleness, give feedback, ask for the totals           *)
(* (packages/core-opportunity).  Every operation is a few queries with no  *)
(* transaction around them, so calls interleave with each other and with   *)
(* a research run that supersedes the old signals and saves new ones.      *)
(*                                                                         *)
(* One user: every query is filtered by its owner.  Of a signal the model  *)
(* keeps what scoring and need detection read; of the text, whether it     *)
(* matches the triggers and keywords of the service.                       *)
(***************************************************************************)
EXTENDS ProspectScore

CONSTANTS
    Prospects,
    Findings,    \* what research may save: [classification, matches, confidence]
    Clients,     \* requests in flight at the same time
    Days,        \* the days, of which the first is the least
    MaxSignals,  \* bound: signals saved
    MaxRuns,     \* bound: research runs
    MaxQueries   \* bound: requests

\* What research accepts: an inference is never surer than 80.  The days are numbered.
ASSUME OpportunityConstants ==
    /\ IsFiniteSet(Prospects) /\ None \notin Prospects
    /\ \A f \in Findings :
          /\ f.classification \in Bases /\ f.matches \in BOOLEAN /\ f.confidence \in 0..100
          /\ f.classification = "INFERRED" => f.confidence <= 80
    /\ Days \subseteq Nat /\ Days # {} /\ None \notin Days

Ops == {"create", "score", "classify", "feedback", "summary"}

VARIABLES
    date,
    signals,        \* research_signals, in the order they were saved
    research,       \* the run at work on a prospect, if any: its step, the day it started,
                    \* and how many were started
    opportunities,  \* by prospect: the unique index allows one each
    scores,         \* opportunity_scores, by prospect
    feedback,       \* feedback, by prospect: is it useful
    query,          \* each caller's request: its step and what it has read
    queries         \* requests so far

opportunityVars == <<date, signals, research, opportunities, scores, feedback, query, queries>>

IdleQuery == [pc |-> "idle"]

\* Rows belong to prospects and requests are at one of their steps.
OpportunitiesTypeOK ==
    /\ date \in Days
    /\ \A i \in DOMAIN signals :
          signals[i].prospect \in Prospects /\ signals[i].observedOn \in Days
    /\ DOMAIN scores \subseteq DOMAIN opportunities
    /\ DOMAIN feedback \subseteq DOMAIN opportunities
    /\ \A c \in Clients : query[c].pc \in {"idle", "find", "signals", "write", "count", "told"}

OpportunitiesInit ==
    /\ date = CHOOSE d \in Days : \A e \in Days : d <= e
    /\ signals = << >>
    /\ research = [prospect |-> None, step |-> "ended", runs |-> 0, on |-> date]
    /\ opportunities = << >>
    /\ scores = << >>
    /\ feedback = << >>
    /\ query = [c \in Clients |-> IdleQuery]
    /\ queries = 0

DayPasses ==
    /\ \E d \in Days : d > date /\ (\A e \in Days : e > date => d <= e) /\ date' = d
    /\ UNCHANGED <<signals, research, opportunities, scores, feedback, query, queries>>

--------------------------------------------------------------------------
(* A research run: its own queries, one after the other, around the call   *)
(* to the provider.  All it writes carries the day it started.             *)

StartResearch(p) ==
    /\ research.prospect = None
    /\ research.runs < MaxRuns
    /\ research' = [prospect |-> p, step |-> "asking", runs |-> research.runs + 1, on |-> date]
    /\ UNCHANGED <<date, signals, opportunities, scores, feedback, query, queries>>

\* The provider has answered: what was found before is superseded, as of the day the run
\* started.  The day it really left the active rows is kept as a history.
SupersedePrevious(p) ==
    /\ research.prospect = p
    /\ research.step = "asking"
    /\ signals' = [i \in DOMAIN signals |->
                     IF signals[i].prospect = p /\ signals[i].supersededOn = None
                     THEN [signals[i] EXCEPT !.superseded = TRUE, !.supersededOn = research.on,
                                             !.leftOn = date]
                     ELSE signals[i]]
    /\ research' = [research EXCEPT !.step = "saving"]
    /\ UNCHANGED <<date, opportunities, scores, feedback, query, queries>>

SaveSignal(finding) ==
    /\ research.prospect # None
    /\ research.step = "saving"
    /\ Len(signals) < MaxSignals
    /\ signals' = Append(signals, [prospect |-> research.prospect, finding |-> finding,
                                   observedOn |-> research.on, superseded |-> FALSE,
                                   supersededOn |-> None, leftOn |-> None])
    /\ UNCHANGED <<date, research, opportunities, scores, feedback, query, queries>>

\* It has saved all it found, or the provider or a query fails.
EndResearch ==
    /\ research.prospect # None
    /\ research' = [research EXCEPT !.prospect = None, !.step = "ended"]
    /\ UNCHANGED <<date, signals, opportunities, scores, feedback, query, queries>>

--------------------------------------------------------------------------
(* What the operations compute.                                            *)

\* listByProspect: the rows not superseded, each at its place in the table.
ListByProspect(p) ==
    [i \in {i \in DOMAIN signals : signals[i].prospect = p /\ signals[i].supersededOn = None}
        |-> signals[i]]

IsClaim(row) == row.finding.classification # "UNKNOWN"

\* The sum of what the rows at some places are believed, counted point by point.
SumOfConfidence(stored, places) ==
    Cardinality({point \in places \X (1..100) : point[2] <= stored[point[1]].finding.confidence})

\* toOfferSignals and suggestOffers for the one rule of the search: the fit, or nothing.
SuggestOffer(stored) ==
    LET matched == {i \in DOMAIN stored : /\ IsClaim(stored[i]) /\ ~stored[i].superseded
                                         /\ stored[i].finding.matches}
        n == Cardinality(matched)
    IN  IF matched = {} THEN None
        ELSE AtMost(100, Round(SumOfConfidence(stored, matched) * (n + 3), 4 * n))

\* toScoringSignals.
ToScoringSignals(stored) ==
    [i \in {i \in DOMAIN stored : IsClaim(stored[i])} |->
        [confidence |-> IF stored[i].finding.classification = "INFERRED"
                        THEN Round(stored[i].finding.confidence, 2)
                        ELSE stored[i].finding.confidence,
         observedOn |-> stored[i].observedOn, superseded |-> stored[i].superseded]]

Unknown == [value |-> None, basis |-> "UNKNOWN"]

\* neutralScoringInputs and serviceFitFromOffer.
ScoringInput(fit, stored) ==
    [icp |-> [check \in 1..3 |-> Unknown], abilityToPay |-> Unknown, urgency |-> Unknown,
     contact |-> [channels |-> 0, unsubscribed |-> FALSE],
     serviceFit |-> IF fit = None THEN Unknown ELSE [value |-> fit, basis |-> "OBSERVED"],
     signals |-> ToScoringSignals(stored)]

\* recommendOpportunityAction, as getOpportunityNextAction calls it.
NextAction(opportunity) ==
    CASE opportunity.fit = None -> "HOLD"
      [] opportunity.fit # None /\ opportunity.staleness # "FRESH" -> "REFRESH_RESEARCH"
      [] opportunity.fit # None /\ opportunity.staleness = "FRESH" ->
            IF opportunity.state = "NEW" THEN "CONSIDER_OFFER" ELSE "REVIEW_EVIDENCE"

--------------------------------------------------------------------------
(* A request, one query at a time.  It takes its date when it starts.      *)
(* How many opportunities a summary could count then is kept as a history. *)

AskOpportunity(c, op, p) ==
    /\ query[c].pc \in {"idle", "told"}
    /\ queries < MaxQueries
    /\ queries' = queries + 1
    /\ LET first == CASE op = "create" -> "signals"
                      [] op = "summary" -> "count"
                      [] op \in {"score", "classify", "feedback"} -> "find"
           before == IF op = "summary" THEN Cardinality(DOMAIN opportunities) ELSE 0
       IN  query' = [query EXCEPT ![c] = [pc |-> first, op |-> op, prospect |-> p,
                                         on |-> date, fit |-> None, stored |-> << >>,
                                         created |-> None, actioned |-> None,
                                         before |-> before]]
    /\ UNCHANGED <<date, signals, research, opportunities, scores, feedback>>

\* getById: without a row the call fails.  Only scoring reads more of it than that it is
\* there: its offer.
FindOpportunity(c) ==
    /\ query[c].pc = "find"
    /\ LET p == query[c].prospect
           next == IF query[c].op = "feedback" THEN "write" ELSE "signals"
       IN  query' = IF p \notin DOMAIN opportunities THEN [query EXCEPT ![c] = IdleQuery]
                    ELSE [query EXCEPT ![c].fit = opportunities[p].fit, ![c].pc = next]
    /\ UNCHANGED <<date, signals, research, opportunities, scores, feedback, queries>>

ReadSignals(c) ==
    /\ query[c].pc = "signals"
    /\ query' = [query EXCEPT ![c].stored = ListByProspect(query[c].prospect), ![c].pc = "write"]
    /\ UNCHANGED <<date, signals, research, opportunities, scores, feedback, queries>>

Writes(c, op) ==
    /\ query[c].pc = "write"
    /\ query[c].op = op
    /\ query' = [query EXCEPT ![c] = IdleQuery]

\* INSERT ... ON CONFLICT DO UPDATE: the row of a prospect, new or replaced.
Upserted(f, p, value) == [q \in DOMAIN f \cup {p} |-> IF q = p THEN value ELSE f[q]]

\* createOpportunityForOwner; a second row for the prospect is refused by the index.
CreateOpportunity(c) ==
    /\ Writes(c, "create")
    /\ LET p == query[c].prospect IN
       opportunities' = IF p \in DOMAIN opportunities THEN opportunities
                        ELSE Upserted(opportunities, p,
                                  [state |-> "NEW", fit |-> SuggestOffer(query[c].stored),
                                   staleness |-> "FRESH", computedOn |-> None,
                                   basedOn |-> query[c].stored, checked |-> query[c].stored,
                                   on |-> query[c].on])
    /\ UNCHANGED <<date, signals, research, scores, feedback, queries>>

\* scoreOpportunity: the row is replaced.
ScoreOpportunity(c) ==
    /\ Writes(c, "score")
    /\ LET input == ScoringInput(query[c].fit, query[c].stored) IN
       scores' = Upserted(scores, query[c].prospect,
                      [score |-> ScoreProspect(input, query[c].on), scoredOn |-> query[c].on,
                       evidence |-> query[c].stored])
    /\ UNCHANGED <<date, signals, research, opportunities, feedback, queries>>

\* classifyOpportunityStaleness.
ClassifyOpportunityStaleness(c) ==
    /\ Writes(c, "classify")
    /\ opportunities' = [opportunities EXCEPT ![query[c].prospect].staleness =
                            ClassifyStaleness(ToScoringSignals(query[c].stored), query[c].on),
                          ![query[c].prospect].computedOn = query[c].on,
                          ![query[c].prospect].checked = query[c].stored]
    /\ UNCHANGED <<date, signals, research, scores, feedback, queries>>

\* recordFeedback: the verdict is replaced.
RecordFeedback(c, useful) ==
    /\ Writes(c, "feedback")
    /\ feedback' = Upserted(feedback, query[c].prospect, useful)
    /\ UNCHANGED <<date, signals, research, opportunities, scores, queries>>

\* getOpportunityTrackingSummary: two lists, asked for at once, answered in any order.
CountOpportunities(c) ==
    /\ query[c].pc = "count"
    /\ query[c].created = None
    /\ query' = [query EXCEPT ![c].created = Cardinality(DOMAIN opportunities),
                              ![c].pc = IF query[c].actioned # None THEN "told" ELSE @]
    /\ UNCHANGED <<date, signals, research, opportunities, scores, feedback, queries>>

CountFeedback(c) ==
    /\ query[c].pc = "count"
    /\ query[c].actioned = None
    /\ query' = [query EXCEPT ![c].actioned =
                  [useful |-> Cardinality({p \in DOMAIN feedback : feedback[p]}),
                   all |-> Cardinality(DOMAIN feedback)],
                            ![c].pc = IF query[c].created # None THEN "told" ELSE @]
    /\ UNCHANGED <<date, signals, research, opportunities, scores, feedback, queries>>

--------------------------------------------------------------------------
OpportunitiesNext ==
    \/ \E p \in Prospects : StartResearch(p) \/ SupersedePrevious(p)
    \/ \E finding \in Findings : SaveSignal(finding)
    \/ EndResearch
    \/ \E c \in Clients :
          \/ \E op \in Ops, p \in Prospects : AskOpportunity(c, op, p)
          \/ FindOpportunity(c)
          \/ ReadSignals(c)
          \/ CreateOpportunity(c)
          \/ ScoreOpportunity(c)
          \/ ClassifyOpportunityStaleness(c)
          \/ \E useful \in BOOLEAN : RecordFeedback(c, useful)
          \/ CountOpportunities(c)
          \/ CountFeedback(c)
    \/ DayPasses

OpportunitiesSpec == OpportunitiesInit /\ [][OpportunitiesNext]_opportunityVars

--------------------------------------------------------------------------
(* Properties.                                                             *)

ClassesOf(stored) == {r.finding.classification : r \in Range(stored)}

\* A stored score whose evidence is reasoning only shows no visible problem and no
\* well-sourced signal, however confident the model was: research accepts an inference
\* up to 80, scoring halves it, and both factors start above that (prospectScore.ts,
\* "Confidence is not evidence").  And nothing is HIGH before more than signals and
\* offer are known.
InferenceIsNoProblem ==
    \A p \in DOMAIN scores :
        /\ "OBSERVED" \notin ClassesOf(scores[p].evidence) =>
              /\ scores[p].score.factors.visibleProblem.points = 0
              /\ scores[p].score.factors.evidenceQuality.points = 0
        /\ scores[p].score.band # "HIGH"

\* The rows a call had read are in the table still, each at its place, of that prospect,
\* and none had left the active ones before a certain day.
Backed(table, p, stored, since) ==
    \A i \in DOMAIN stored :
        /\ i \in DOMAIN table
        /\ table[i].prospect = p
        /\ table[i].finding = stored[i].finding
        /\ table[i].observedOn = stored[i].observedOn
        /\ table[i].leftOn # None => table[i].leftOn >= since

\* Whatever the calls and the research run interleave, an offer, a score and a
\* classification rest on rows of that prospect none of which a research run had replaced
\* before the day the call that wrote them began.  (superseded_at does not tell: it is the
\* day the run started.)
EvidenceWasActive ==
    /\ \A p \in DOMAIN opportunities :
          /\ Backed(signals, p, opportunities[p].basedOn, opportunities[p].on)
          /\ opportunities[p].computedOn # None =>
                Backed(signals, p, opportunities[p].checked, opportunities[p].computedOn)
    /\ \A p \in DOMAIN scores : Backed(signals, p, scores[p].evidence, scores[p].scoredOn)

\* A user is told to act on an opportunity only when it has an offer, and when its
\* last classification found a claim that was then no older than SIGNAL_FRESH_DAYS.
ActionIsBacked ==
    \A p \in DOMAIN opportunities :
        LET o == opportunities[p] IN
        NextAction(o) \in {"CONSIDER_OFFER", "REVIEW_EVIDENCE"} =>
            /\ \E r \in Range(o.basedOn) : IsClaim(r) /\ r.finding.matches
            /\ o.computedOn # None =>
                  \E r \in Range(o.checked) :
                      IsClaim(r) /\ o.computedOn - r.observedOn <= SIGNAL_FRESH_DAYS

\* The two counts of a summary each lie between what there was when it was asked for
\* and what there is once it is told; useful verdicts are some of all of them.
SummaryIsBracketed ==
    \A c \in Clients :
        query[c].pc = "told" =>
            /\ query[c].before <= query[c].created
            /\ query[c].created <= Cardinality(DOMAIN opportunities)
            /\ query[c].actioned.all <= Cardinality(DOMAIN opportunities)
            /\ query[c].actioned.useful <= query[c].actioned.all

\* What an opportunity promises while calls interleave with research: its offer, score
\* and staleness rest on rows not replaced before the call, and so does what the user is
\* told to do.
OpportunitiesHold ==
    /\ OpportunitiesTypeOK
    /\ InferenceIsNoProblem /\ EvidenceWasActive /\ ActionIsBacked /\ SummaryIsBracketed

\* What is offered, scored and acted on rests on evidence, for a prospect that is entered
\* and for one that is researched while it is scored.
ScoringHolds == OpportunitiesHold /\ ProspectsHold
=============================================================================
