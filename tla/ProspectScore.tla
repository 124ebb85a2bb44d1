-------------------------------- MODULE ProspectScore --------------------------------
(***************************************************************************)
(* The score of a prospect (packages/core-acquisition, prospectScore.ts,   *)
(* with the decay curve of scoring.ts and the staleness built on it).      *)
(* Points are computed exactly as the code does, with fractions in place   *)
(* of floating point; the sentences that go with them are left out.        *)
(*                                                                         *)
(* Around it, the least that is needed to ask how a score ages: a prospect *)
(* is entered and time passes.                                             *)
(***************************************************************************)
EXTENDS Absence, Integers, Sequences, FiniteSets, Functions

CONSTANTS
    ScoreInputs,  \* the prospects that may be entered
    Ages          \* the days after that on which one is scored, 0 the first

FACTOR_WEIGHTS ==
    [icpFit |-> 20, visibleProblem |-> 20, abilityToPay |-> 15, urgency |-> 15,
     serviceFit |-> 15, evidenceQuality |-> 10, contactability |-> 5]

SIGNAL_FRESH_DAYS == 30
SIGNAL_MAX_AGE_DAYS == 180

\* What is claimed of a prospect, and how it is known.  icp has three attributes, and of
\* the ways to contact somebody only their number matters.
Bases == {"OBSERVED", "INFERRED", "UNKNOWN"}
ClaimsOver(values) == [value : values \cup {None}, basis : Bases]
ScoredSignals == [confidence : 0..100, observedOn : Int, superseded : BOOLEAN]
ProspectInputs ==
    [icp : [1..3 -> ClaimsOver(BOOLEAN)],
     abilityToPay : ClaimsOver({"strong", "moderate", "weak"}),
     urgency : ClaimsOver({"immediate", "this-quarter", "someday"}),
     serviceFit : ClaimsOver(0..100),
     contact : [channels : 0..3, unsubscribed : BOOLEAN],
     signals : Seq(ScoredSignals)]

ASSUME ScoreConstants == ScoreInputs \subseteq ProspectInputs /\ Ages \subseteq Nat /\ 0 \in Ages

VARIABLES
    prospect,  \* a prospect, once entered
    day        \* the days since then

prospectVars == <<prospect, day>>

--------------------------------------------------------------------------
(* The factors.                                                            *)

AtMost(bound, x) == IF x > bound THEN bound ELSE x

\* Math.round of a fraction that is not negative.
Round(numerator, denominator) == (2 * numerator + denominator) \div (2 * denominator)

\* decayFactor, in parts of the span over which a signal decays.
DecaySpan == SIGNAL_MAX_AGE_DAYS - SIGNAL_FRESH_DAYS
Decay(age) ==
    IF age <= SIGNAL_FRESH_DAYS THEN DecaySpan
    ELSE IF age >= SIGNAL_MAX_AGE_DAYS THEN 0 ELSE SIGNAL_MAX_AGE_DAYS - age

\* The places of the signals that are not superseded; those are history.
LiveSignals(signals) == {i \in DOMAIN signals : ~signals[i].superseded}

\* The share of its weight a factor earns is n/d; inferred factors earn half.
FactorScore(factor, n, d, basis) ==
    [factor |-> factor, basis |-> basis,
     points |-> CASE basis = "OBSERVED" -> Round(AtMost(d, n) * FACTOR_WEIGHTS[factor], d)
                  [] basis = "INFERRED" -> Round(AtMost(d, n) * FACTOR_WEIGHTS[factor], 2 * d)
                  [] basis = "UNKNOWN" -> 0]

\* combineBasis, for bases of which none is UNKNOWN.
CombineBasis(bases) == IF "INFERRED" \in bases THEN "INFERRED" ELSE "OBSERVED"

IcpFit(icp) ==
    LET known == {i \in DOMAIN icp : icp[i].basis # "UNKNOWN"}
        matched == {i \in known : icp[i].value = TRUE}
    IN  FactorScore("icpFit", Cardinality(matched), 3,
                    IF known = {} THEN "UNKNOWN" ELSE CombineBasis({icp[i].basis : i \in known}))

\* The first of the most confident signals counts, whatever its age.
Strongest(signals, places) ==
    CHOOSE i \in places : \A j \in places :
        \/ signals[j].confidence < signals[i].confidence
        \/ signals[j].confidence = signals[i].confidence /\ i <= j
VisibleProblem(signals, today) ==
    LET problems == {i \in LiveSignals(signals) : signals[i].confidence >= 50}
        strongest == signals[Strongest(signals, problems)]
    IN  IF problems = {} THEN FactorScore("visibleProblem", 0, 1, "UNKNOWN")
        ELSE FactorScore("visibleProblem",
                 strongest.confidence * Decay(today - strongest.observedOn),
                 100 * DecaySpan, "OBSERVED")

\* Bands of ability to pay and of urgency, in fifths.
PayRaw(band) ==
    CASE band = "strong" -> 5 [] band = "moderate" -> 3 [] band = "weak" -> 1 [] OTHER -> 0
UrgencyRaw(band) ==
    CASE band = "immediate" -> 5 [] band = "this-quarter" -> 3 [] band = "someday" -> 1
      [] OTHER -> 0

ServiceFit(claim) ==
    FactorScore("serviceFit", IF claim.value = None THEN 0 ELSE claim.value, 100, claim.basis)

EvidenceQuality(signals) ==
    LET live == LiveSignals(signals)
        sourced == {i \in live : signals[i].confidence >= 70}
    IN  FactorScore("evidenceQuality", Cardinality(sourced), 3,
                    IF live = {} THEN "UNKNOWN" ELSE "OBSERVED")

Contactability(contact) ==
    FactorScore("contactability", IF contact.unsubscribed THEN 0 ELSE contact.channels, 3,
                "OBSERVED")

FactorScores(input, today) ==
    [icpFit |-> IcpFit(input.icp),
     visibleProblem |-> VisibleProblem(input.signals, today),
     abilityToPay |-> FactorScore("abilityToPay", PayRaw(input.abilityToPay.value), 5,
                                  input.abilityToPay.basis),
     urgency |-> FactorScore("urgency", UrgencyRaw(input.urgency.value), 5,
                             input.urgency.basis),
     serviceFit |-> ServiceFit(input.serviceFit),
     evidenceQuality |-> EvidenceQuality(input.signals),
     contactability |-> Contactability(input.contact)]

--------------------------------------------------------------------------
(* The score.                                                              *)

\* The points of the factors that count.
SumOfPoints(factors, Counts(_)) ==
    LET Points(f) == IF Counts(f) THEN f.points ELSE 0
    IN  Points(factors.icpFit) + Points(factors.visibleProblem) + Points(factors.abilityToPay)
        + Points(factors.urgency) + Points(factors.serviceFit) + Points(factors.evidenceQuality)
        + Points(factors.contactability)

\* Mutant: contactability counts as evidence too.
EvidentialAll(f) == TRUE

\* Having an address says nothing about the case.
Evidential(f) == f.factor # "contactability"

BandFor(score) == IF score >= 65 THEN "HIGH" ELSE IF score >= 35 THEN "MEDIUM" ELSE "LOW"

\* scoreProspect.  The observed share is the fraction observed / evidential.
ScoreProspect(input, today) ==
    LET factors == FactorScores(input, today)
        score == AtMost(100, SumOfPoints(factors, LAMBDA f : TRUE))
        evidential == SumOfPoints(factors, Evidential)
        observed == SumOfPoints(factors, LAMBDA f : Evidential(f) /\ f.basis = "OBSERVED")
        capped == BandFor(score) = "HIGH" /\ 2 * observed < evidential
    IN  IF input.contact.unsubscribed
        THEN [score |-> 0, band |-> "LOW", factors |-> factors, observed |-> 1,
              evidential |-> 1]
        ELSE [score |-> score, band |-> IF capped THEN "MEDIUM" ELSE BandFor(score),
              factors |-> factors, observed |-> observed, evidential |-> evidential]

\* classifyStaleness.
ClassifyStaleness(signals, today) ==
    LET active == LiveSignals(signals)
        ages == {IF signals[i].observedOn > today THEN 0 ELSE today - signals[i].observedOn :
                   i \in active}
    IN  CASE active = {} -> "SUPERSEDED"
          [] active # {} /\ (\E a \in ages : Decay(a) = DecaySpan) -> "FRESH"
          [] active # {} /\ (\A a \in ages : Decay(a) # DecaySpan) -> "STALE"

--------------------------------------------------------------------------
(* A prospect ages.                                                        *)

ProspectsInit == prospect = None /\ day = 0

EnterProspect == prospect = None /\ prospect' \in ScoreInputs /\ UNCHANGED day

\* Nothing but time passes.
ProspectAges == prospect # None /\ day' \in {d \in Ages : d > day} /\ UNCHANGED prospect

ProspectsNext == EnterProspect \/ ProspectAges

ProspectsSpec == ProspectsInit /\ [][ProspectsNext]_prospectVars

--------------------------------------------------------------------------
(* Properties of one prospect.                                             *)

Rank(band) == CASE band = "LOW" -> 1 [] band = "MEDIUM" -> 2 [] band = "HIGH" -> 3

\* Nobody is HIGH on reasoning: the points that come from what was seen of the case are
\* at least those that come from claims the model inferred (prospectScore.ts, "Confidence
\* is not evidence").
HighRestsOnFacts(input, today) ==
    LET factors == FactorScores(input, today)
        Of(basis) == SumOfPoints(factors, LAMBDA f :
                         f.basis = basis /\ f.factor # "contactability")
    IN  ScoreProspect(input, today).band = "HIGH" => Of("OBSERVED") >= Of("INFERRED")

\* A prospect about whom nothing new is learned never gains by waiting, neither in its
\* score nor in its band (scoring.ts, "DECAYING").
AgingNeverPromotes(input, today, later) ==
    LET before == ScoreProspect(input, today)
        after == ScoreProspect(input, later)
    IN  after.score <= before.score /\ Rank(after.band) <= Rank(before.band)

\* The same case with every observed claim taken as inferred never does better.
Inferred(claim) == IF claim.basis = "OBSERVED" THEN [claim EXCEPT !.basis = "INFERRED"] ELSE claim
InferenceNeverHelps(input, today) ==
    LET inferred == [input EXCEPT
            !.icp = [i \in DOMAIN input.icp |-> Inferred(input.icp[i])],
            !.abilityToPay = Inferred(@), !.urgency = Inferred(@), !.serviceFit = Inferred(@)]
        before == ScoreProspect(input, today)
        after == ScoreProspect(inferred, today)
    IN  after.score <= before.score /\ Rank(after.band) <= Rank(before.band)

\* A band of HIGH rests on what was observed, inference never helps, and a prospect never
\* gains by waiting.
ProspectsHold ==
    prospect # None =>
        /\ HighRestsOnFacts(prospect, day)
        /\ InferenceNeverHelps(prospect, day)
        /\ \A later \in Ages : later > day => AgingNeverPromotes(prospect, day, later)
=============================================================================
