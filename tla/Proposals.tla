--------------------------------- MODULE Proposals ---------------------------------
(***************************************************************************)
(* A proposal (packages/core-proposal) from the agreed price to the answer *)
(* of the client: generateProposal with its verification and repair, then  *)
(* versions.ts.  The functions of versions.ts return a new record; the     *)
(* action is the record's owner storing it.                                *)
(*                                                                         *)
(* Of a text the model keeps what verifyProposal finds out about it; the   *)
(* sections it only counts words in are one of "short", "fits", "long".    *)
(***************************************************************************)
EXTENDS Absence, Integers, SequencesExt

CONSTANTS
    Agreed,            \* the input: [amount, weeks, template, numbers]
    TemplateRange(_),  \* deliverableRange of a template, None for an unknown one
    Texts,             \* what the language model may write
    Edits,             \* what an editor may write
    Signers,           \* names given by editors and approvers; the blank one is ""
    maxProposalAttempts,
    MaxInstant,        \* bound: ticks of the clock
    MaxVersions        \* bound: versions

\* The first call is made (options.maxAttempts ?? 2), and figures are numbers.
ASSUME ProposalConstants ==
    /\ maxProposalAttempts \in Nat \ {0}
    /\ MaxInstant \in Nat
    /\ None \notin Nat \cup Texts
    /\ \A text \in Texts : text.amounts \in Seq(Int)

VARIABLES
    instant,
    drafting,  \* the generation: its step, its attempts, the best text and its verdict
    proposal,  \* the record, or None
    approved,  \* the text and price somebody last approved: a history
    outbox     \* each sending: its instant and the version that went out: a history

proposalVars == <<instant, drafting, proposal, approved, outbox>>

States == {"DRAFT", "APPROVED", "SENT", "ACCEPTED", "DECLINED"}

\* The record keeps to its states and its versions to their numbers.
ProposalsTypeOK ==
    /\ instant \in 0..MaxInstant
    /\ drafting.pc \in {"asking", "done", "refused", "failed"}
    /\ drafting.attempts \in 0..maxProposalAttempts
    /\ proposal # None =>
         /\ proposal.state \in States
         /\ proposal.sentAt \in 0..MaxInstant \cup {None}
         /\ \A i \in DOMAIN proposal.versions : proposal.versions[i].version = i

ProposalsInit ==
    /\ instant = 0
    /\ drafting = [pc |-> "asking", attempts |-> 0, best |-> None]
    /\ proposal = None
    /\ approved = None
    /\ outbox = << >>

InstantPasses ==
    /\ instant < MaxInstant
    /\ instant' = instant + 1
    /\ UNCHANGED <<drafting, proposal, approved, outbox>>

--------------------------------------------------------------------------
(* Verification.  A text is [sections, deliverables, phases, dated,        *)
(* numbers, amounts, hedged].                                              *)

\* checkPricing: the prose states the agreed figure, no other, and no hedge.
CheckPricing(text) ==
    /\ text.amounts # << >>
    /\ \A i \in DOMAIN text.amounts : text.amounts[i] = Agreed.amount
    /\ ~text.hedged

Weeks(text) == FoldLeft(LAMBDA sum, weeks : sum + weeks, 0, text.phases)

\* verifyProposal.
VerifyProposal(text) ==
    LET range == TemplateRange(Agreed.template) IN
    /\ range # None
    /\ text.sections = "fits"
    /\ text.deliverables \in range[1]..range[2]
    /\ ~text.dated
    /\ Weeks(text) = Agreed.weeks
    /\ text.numbers \subseteq Agreed.numbers \cup {Agreed.weeks} \cup ToSet(text.phases)
    /\ CheckPricing(text)

--------------------------------------------------------------------------
(* generateProposal.                                                       *)

ProposalRefusal ==
    /\ drafting.pc = "asking"
    /\ drafting' = [drafting EXCEPT !.pc = "refused", !.attempts = @ + 1]
    /\ UNCHANGED <<instant, proposal, approved, outbox>>

FirstVersion(text) ==
    [version |-> 1, template |-> Agreed.template, content |-> text, amount |-> Agreed.amount,
     createdAt |-> instant, createdBy |-> "SYSTEM"]

\* The loop is left with the last text that parsed.
DeliverProposal(attempts, text) ==
    /\ drafting' = [pc |-> "done", attempts |-> attempts, best |-> text]
    /\ proposal' = [state |-> "DRAFT", currentVersion |-> 1, versions |-> <<FirstVersion(text)>>,
                    approvedBy |-> None, sentAt |-> None, answeredAt |-> None]

\* A reply that does not fit the schema.
MalformedProposal ==
    LET attempts == drafting.attempts + 1 IN
    /\ drafting.pc = "asking"
    /\ \/ /\ attempts < maxProposalAttempts
          /\ drafting' = [drafting EXCEPT !.attempts = attempts]
          /\ UNCHANGED proposal
       \/ /\ attempts >= maxProposalAttempts /\ drafting.best # None
          /\ DeliverProposal(attempts, drafting.best)
       \/ /\ attempts >= maxProposalAttempts /\ drafting.best = None
          /\ drafting' = [drafting EXCEPT !.pc = "failed", !.attempts = attempts]
          /\ UNCHANGED proposal
    /\ UNCHANGED <<instant, approved, outbox>>

ProposalReply(text) ==
    LET attempts == drafting.attempts + 1 IN
    /\ drafting.pc = "asking"
    /\ IF VerifyProposal(text) \/ attempts >= maxProposalAttempts
       THEN DeliverProposal(attempts, text)
       ELSE /\ drafting' = [drafting EXCEPT !.attempts = attempts, !.best = text]
            /\ UNCHANGED proposal
    /\ UNCHANGED <<instant, approved, outbox>>

--------------------------------------------------------------------------
(* versions.ts.                                                            *)

PROPOSAL_TRANSITIONS ==
    [DRAFT |-> {"APPROVED"}, APPROVED |-> {"SENT", "DRAFT"}, SENT |-> {"ACCEPTED", "DECLINED"},
     ACCEPTED |-> {}, DECLINED |-> {"DRAFT"}]

AssertProposalTransition(to) == proposal # None /\ to \in PROPOSAL_TRANSITIONS[proposal.state]

CurrentVersion == proposal.versions[proposal.currentVersion]

\* Price, template and provenance are carried forward; the answer and the
\* sending of the version before stay recorded.
AppendEdit(text, editedBy) ==
    /\ proposal # None
    /\ proposal.state \notin {"SENT", "ACCEPTED"}
    /\ editedBy # ""
    /\ Len(proposal.versions) < MaxVersions
    /\ LET next == [CurrentVersion EXCEPT !.version = @ + 1, !.content = text,
                                          !.createdAt = instant, !.createdBy = editedBy]
       IN  proposal' = [proposal EXCEPT !.state = "DRAFT", !.approvedBy = None,
                          !.currentVersion = next.version, !.versions = Append(@, next)]
    /\ UNCHANGED <<instant, drafting, approved, outbox>>

ApproveProposal(approvedBy) ==
    /\ AssertProposalTransition("APPROVED")
    /\ approvedBy # ""
    /\ proposal' = [proposal EXCEPT !.state = "APPROVED", !.approvedBy = approvedBy]
    /\ approved' = [content |-> CurrentVersion.content, amount |-> CurrentVersion.amount,
                    by |-> approvedBy]
    /\ UNCHANGED <<instant, drafting, outbox>>

MarkProposalSent ==
    /\ AssertProposalTransition("SENT")
    /\ proposal' = [proposal EXCEPT !.state = "SENT", !.sentAt = instant]
    /\ outbox' = Append(outbox, [at |-> instant, version |-> CurrentVersion])
    /\ UNCHANGED <<instant, drafting, approved>>

\* The answer may be recorded at the instant of the sending: nothing compares the two.
RecordAnswer(answer) ==
    /\ AssertProposalTransition(answer)
    /\ proposal' = [proposal EXCEPT !.state = answer, !.answeredAt = instant]
    /\ UNCHANGED <<instant, drafting, approved, outbox>>

\* Mutant: the version that is current is taken for the one that was sent.
SentVersionCurrent == IF proposal.sentAt = None THEN None ELSE CurrentVersion

\* sentVersion: the last of the versions made by the time it was sent.
SentVersion ==
    LET made == {i \in DOMAIN proposal.versions :
                   proposal.versions[i].createdAt <= proposal.sentAt} IN
    IF proposal.sentAt = None \/ made = {} THEN None
    ELSE proposal.versions[CHOOSE i \in made : \A j \in made : j <= i]

--------------------------------------------------------------------------
ProposalGeneration ==
    ProposalRefusal \/ MalformedProposal \/ \E text \in Texts : ProposalReply(text)

Handling ==
    \/ \E text \in Edits, who \in Signers : AppendEdit(text, who)
    \/ \E who \in Signers : ApproveProposal(who)
    \/ MarkProposalSent
    \/ \E answer \in {"ACCEPTED", "DECLINED"} : RecordAnswer(answer)

ProposalsNext == InstantPasses \/ ProposalGeneration \/ Handling

ProposalsSpec == ProposalsInit /\ [][ProposalsNext]_proposalVars

--------------------------------------------------------------------------
(* Properties.                                                             *)

\* What a client was sent, and may accept, is the text and the price somebody
\* approved by name, however often the proposal was edited, declined and sent
\* again before ("an approval applies to the words that were approved").
SentIsApproved ==
    (proposal # None /\ proposal.state \in {"APPROVED", "SENT", "ACCEPTED", "DECLINED"}) =>
        /\ approved = [content |-> CurrentVersion.content, amount |-> CurrentVersion.amount,
                       by |-> proposal.approvedBy]

\* "What exactly did we send them" has an answer after the draft has moved on:
\* sentVersion is the version of the last sending, unless that was answered and
\* edited within the instant of the sending, when it is such an edit; and no version
\* that went out has changed since (versions.ts).
SentVersionIsKept ==
    proposal # None =>
        /\ outbox = << >> => SentVersion = None
        /\ outbox # << >> =>
             \/ SentVersion = Last(outbox).version
             \/ /\ SentVersion.createdAt = Last(outbox).at
                /\ SentVersion.version > Last(outbox).version.version
        /\ \A i \in DOMAIN outbox : outbox[i].version \in ToSet(proposal.versions)

\* Every version stands for the agreed price and the agreed template, and a
\* generated text found sendable names that price alone and adds up to the
\* agreed weeks (generateProposal, appendEdit, verifyProposal).
PriceIsTheInput ==
    proposal # None =>
        /\ \A i \in DOMAIN proposal.versions :
              /\ proposal.versions[i].amount = Agreed.amount
              /\ proposal.versions[i].template = Agreed.template
        /\ (drafting.attempts < maxProposalAttempts) =>
              /\ ToSet(drafting.best.amounts) = {proposal.versions[1].amount}
              /\ Weeks(drafting.best) = Agreed.weeks

\* What a proposal promises from its price to its answer: what was sent was approved,
\* stays readable, and names the agreed price (versions.ts, generator.ts).
ProposalsHold == ProposalsTypeOK /\ SentIsApproved /\ SentVersionIsKept /\ PriceIsTheInput
====================================================================================
