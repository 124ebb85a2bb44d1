------------------------------- MODULE MCPlatform -------------------------------
(***************************************************************************)
(* The components that keep their state apart from each other, checked in  *)
(* one run: a behaviour is a behaviour of one of the Parts, chosen at the  *)
(* start, and the variables of the others stand still.  (Components that   *)
(* do share state are composed in MCWebhookPayments and MCSearchPipeline.) *)
(***************************************************************************)
EXTENDS OrderIntake, PaymentIntegrity, RateLimit, WebhookRecords, AccessGrants, IndexDeploy,
        Reconciliation, Opportunities, FollowUps, MCOutreachDrafts, Proposals, Checkout,
        ResearchCall, SearchIntake

CONSTANTS
    Parts,               \* the components to check
    r1, r2, r3, r4, r5,  \* requests to create an order
    key,                 \* the Idempotency-Key most of them carry
    p1,                  \* a prospect
    k1, k2               \* callers that work on it, alike

VARIABLE part  \* the component that is checked

CallerSymmetry == Permutations({k1, k2})

--------------------------------------------------------------------------
(* Order creation: r1, r2 and r3 carry one key, r3 for another product.    *)

KeyIn(r) == IF r = r4 THEN NoKey ELSE key
Wants(r) == IF r = r3 THEN "kit" ELSE "course"

--------------------------------------------------------------------------
(* The gate of create-order: three requests of one e-mail address, the     *)
(* second with a body that is no JSON, the third from behind a proxy.      *)

AddressOf(r) == IF r = 3 THEN None ELSE "address"
MailOf(r) == "mail"
ReplicaOf(r) == "web"
GatePolicy(name) == [name |-> name, limit |-> 1, windowMs |-> 2]
IpGate == GatePolicy("create-order:ip")
EmailGate == GatePolicy("create-order:email")

--------------------------------------------------------------------------
(* Webhook bodies: one with an e-mail address in it, and two redactions.    *)

BodiesSent == {{<<"event">>, <<"payload", "payment", "entity", "email">>}}
RetentionOf(u) == IF u = "nightly" THEN None ELSE 0

--------------------------------------------------------------------------
(* Access: two customers, each with an order for a rung of his own.        *)

BuyerIn(o) == IF o = "lower" THEN "c1" ELSE "c2"
RungOf(o) == IF o = "lower" THEN 0 ELSE 1
ManifestIn(p) == IF p = 0 THEN {"book"} ELSE {}

--------------------------------------------------------------------------
(* Index deployment: two runs, two targets.                                *)

IndexEntry(shape, valid, ready) ==
    [shape |-> shape, valid |-> valid, ready |-> ready, live |-> TRUE]

\* A build that was never finished, beside a target that is whole already or new; and
\* a name that is worn by something else altogether.
Catalog(first, second) ==
    [t \in {"payments_key", "order_key"} |-> IF t = "payments_key" THEN first ELSE second]
IndexTargets == <<"payments_key", "order_key">>
CatalogsMet ==
    LET whole == IndexEntry("right", TRUE, TRUE)
        unfinished == IndexEntry("right", FALSE, TRUE)
    IN  {Catalog(None, whole), Catalog(whole, unfinished),
         Catalog(None, IndexEntry("partial", TRUE, TRUE)),
         Catalog(IndexEntry("no index", TRUE, TRUE), None)}

--------------------------------------------------------------------------
(* Reconciliation: two runs whose windows overlap, two dimensions.         *)

MetaEventDimensions == <<"metaEvent.orderId", "metaEvent.metaEventId">>
MetaEventTable(d) == "meta_events"
MetaEventRecord(d) == "META_EVENT"
RawValues(d) == {1}
WindowIn(r) == IF r = 1 THEN [start |-> 0, end |-> 1] ELSE [start |-> 0, end |-> 2]

--------------------------------------------------------------------------
(* Opportunities: one prospect, two callers; and the score by itself.      *)

FindingsMet ==
    {[classification |-> "OBSERVED", matches |-> FALSE, confidence |-> 90],
     [classification |-> "INFERRED", matches |-> TRUE, confidence |-> 80]}

AgesMet == {0, 30, 31, 100, 180, 400}

ClaimsOf(best, other) ==
    {[value |-> None, basis |-> "UNKNOWN"], [value |-> best, basis |-> "INFERRED"],
     [value |-> other, basis |-> "OBSERVED"]}
Answer(value, basis) == [value |-> value, basis |-> basis]
Signal(confidence, observedOn) ==
    [confidence |-> confidence, observedOn |-> observedOn, superseded |-> FALSE]

InputsMet ==
    [icp : {<<Answer(TRUE, "INFERRED"), Answer(TRUE, "INFERRED"), Answer(TRUE, "OBSERVED")>>,
            <<Answer(TRUE, "OBSERVED"), Answer(TRUE, "OBSERVED"), Answer(TRUE, "OBSERVED")>>,
            <<Answer(FALSE, "OBSERVED"), Answer(None, "UNKNOWN"), Answer(TRUE, "INFERRED")>>},
     abilityToPay : ClaimsOf("strong", "moderate"),
     urgency : ClaimsOf("immediate", "someday"),
     serviceFit : ClaimsOf(100, 60),
     contact : [channels : {1, 3}, unsubscribed : BOOLEAN],
     signals : {<< >>, <<Signal(100, 0), Signal(70, 0), Signal(70, 0)>>,
                <<Signal(90, 0), Signal(60, 100)>>, <<Signal(40, 50)>>}]

\* Three calls in two mixtures: of what rests on signals, once a first one is there, and
\* of what is counted, beside no research.
OpsOf(mixture) ==
    {"create"} \cup (IF mixture = "totals" THEN {"feedback", "summary"} ELSE {"score", "classify"})

--------------------------------------------------------------------------
(* Follow-ups: one lead with two channels and a sequence of two touches.   *)

ChannelsIn(l) == <<"EMAIL", "LINKEDIN">>
Spacing == <<1, 2>>

--------------------------------------------------------------------------
(* Proposals of a price of 150 over four weeks.                            *)

AgreedPrice == [amount |-> 150, weeks |-> 4, template |-> "fixed-scope", numbers |-> {40}]
ScopeRange(template) == IF template = "fixed-scope" THEN <<3, 7>> ELSE None
Priced == [sections |-> "fits", deliverables |-> 3, phases |-> <<1, 3>>, dated |-> FALSE,
           numbers |-> {40}, amounts |-> <<150>>, hedged |-> FALSE]
Mispriced == [Priced EXCEPT !.amounts = <<120>>]
TextsWritten ==
    {Priced, Mispriced, [Priced EXCEPT !.amounts = <<150, 120>>],
     [Priced EXCEPT !.phases = <<1, 4>>], [Priced EXCEPT !.deliverables = 8]}
TextsEdited == {Priced, Mispriced}

--------------------------------------------------------------------------
(* One research of a homepage, another document supplied beside it: two    *)
(* observations, three attempts.                                           *)

DocumentsGiven == <<[url |-> "home", quotes |-> {"a", "q1"}],
               [url |-> "blog", quotes |-> {"a", "q2"}]>>
ClaimOf(class, citations, fits) == [class |-> class, citations |-> citations, fits |-> fits]

\* True, crossed, too short and missing citations; a guess, and one held for certain.
ClaimsMade ==
    {ClaimOf("OBSERVED", {[url |-> "home", quote |-> "q1"]}, TRUE),
     ClaimOf("OBSERVED", {[url |-> "home", quote |-> "q2"]}, TRUE),
     ClaimOf("OBSERVED", {[url |-> "home", quote |-> "a"]}, TRUE),
     ClaimOf("OBSERVED", {}, TRUE),
     ClaimOf("INFERRED", {}, TRUE),
     ClaimOf("INFERRED", {}, FALSE)}

--------------------------------------------------------------------------
(* The parts side by side.                                                 *)

PlatformInit ==
    /\ part \in Parts
    /\ Init
    /\ PaymentsInit
    /\ part # "payments" => order_terms = [o \in Orders |-> CHOOSE t \in Terms : TRUE]
    /\ GateInit
    /\ RecordsInit
    /\ AccessInit
    /\ DeployInit
    /\ ScanInit
    /\ OpportunitiesInit
    /\ ProspectsInit
    /\ FollowUpsInit
    /\ DraftsInit
    /\ ProposalsInit
    /\ CheckoutInit
    /\ ResearchInit
    /\ IntakeInit

boundaryVars == <<vars, paymentVars, gateVars, recordVars, accessVars>>
upkeepVars == <<deployVars, scanVars>>
salesVars == <<opportunityVars, prospectVars, followUpVars, draftVars, proposalVars,
               checkoutVars, researchVars, intakeVars>>

PlatformNext ==
    \/ /\ part = "intake"
       /\ Next
       /\ UNCHANGED <<part, paymentVars, gateVars, recordVars, accessVars, upkeepVars, salesVars>>
    \/ /\ part = "payments"
       /\ PaymentsNext
       /\ UNCHANGED <<part, vars, gateVars, recordVars, accessVars, upkeepVars, salesVars>>
    \/ /\ part = "gate"
       /\ GateNext
       /\ UNCHANGED <<part, vars, paymentVars, recordVars, accessVars, upkeepVars, salesVars>>
    \/ /\ part = "records"
       /\ RecordsNext
       /\ UNCHANGED <<part, vars, paymentVars, gateVars, accessVars, upkeepVars, salesVars>>
    \/ /\ part = "access"
       /\ AccessNext
       /\ UNCHANGED <<part, vars, paymentVars, gateVars, recordVars, upkeepVars, salesVars>>
    \/ /\ part = "deploy"
       /\ DeployNext
       /\ UNCHANGED <<part, scanVars, boundaryVars, salesVars>>
    \/ /\ part = "reconcile"
       /\ ScanNext
       /\ UNCHANGED <<part, deployVars, boundaryVars, salesVars>>
    \/ /\ part \in {"opportunities", "totals"}
       /\ OpportunitiesNext
       /\ \A c \in Clients : query'[c].pc # "idle" => query'[c].op \in OpsOf(part)
       /\ IF part = "totals" THEN UNCHANGED research ELSE queries' = queries \/ signals # << >>
       /\ UNCHANGED <<part, prospectVars, followUpVars, draftVars, proposalVars, boundaryVars,
                       upkeepVars, checkoutVars, researchVars, intakeVars>>
    \/ /\ part = "prospects"
       /\ ProspectsNext
       /\ UNCHANGED <<part, opportunityVars, followUpVars, draftVars, proposalVars, boundaryVars,
                       upkeepVars, checkoutVars, researchVars, intakeVars>>
    \/ /\ part = "followups"
       /\ FollowUpsNext
       /\ UNCHANGED <<part, opportunityVars, prospectVars, draftVars, proposalVars, boundaryVars,
                       upkeepVars, checkoutVars, researchVars, intakeVars>>
    \/ /\ part = "outreach"
       /\ DraftsNext
       /\ UNCHANGED <<part, opportunityVars, prospectVars, followUpVars, proposalVars,
                       boundaryVars, upkeepVars, checkoutVars, researchVars, intakeVars>>
    \/ /\ part = "proposals"
       /\ ProposalsNext
       /\ UNCHANGED <<part, opportunityVars, prospectVars, followUpVars, draftVars, boundaryVars,
                       upkeepVars, checkoutVars, researchVars, intakeVars>>
    \/ /\ part = "checkout"
       /\ CheckoutNext
       /\ UNCHANGED <<part, opportunityVars, prospectVars, followUpVars, draftVars, proposalVars,
                       boundaryVars, upkeepVars, researchVars, intakeVars>>
    \/ /\ part = "research"
       /\ ResearchNext
       /\ UNCHANGED <<part, opportunityVars, prospectVars, followUpVars, draftVars, proposalVars,
                       boundaryVars, upkeepVars, checkoutVars, intakeVars>>
    \/ /\ part = "searches"
       /\ IntakeNext
       /\ UNCHANGED <<part, opportunityVars, prospectVars, followUpVars, draftVars, proposalVars,
                       boundaryVars, upkeepVars, checkoutVars, researchVars>>

PlatformSpec == PlatformInit /\ [][PlatformNext]_<<part, boundaryVars, upkeepVars, salesVars>>
=============================================================================
