------------------------------- MODULE OutreachDrafts -------------------------------
(***************************************************************************)
(* Outreach messages (packages/core-outreach), from the request to the     *)
(* language model to the moment one is sent: generateOutreach with its     *)
(* verification and its one repair, then the human approval gate.          *)
(*                                                                         *)
(* Of a message the model keeps its channel, its words as an opaque body   *)
(* and what verifyMessage finds out about them.  The functions of          *)
(* approval.ts return a new record; the action is the record's owner       *)
(* storing it.                                                             *)
(***************************************************************************)
EXTENDS Absence, Integers, FiniteSets, SequencesExt

CONSTANTS
    ResearchSignals,  \* research: [classification, quotes], in order
    PoolLimit,        \* quotes shown to the model at most
    HasSubject(_),    \* CHANNEL_SPECS[channel].hasSubject
    Messages,         \* what the model may write: [channel, subject, body]; of a subject it
                      \*   matters that there is one, is "long" or holds a "placeholder"
    TraitsOf(_),      \* what can be told of a body: [length, placeholder, quotes,
                      \*   numbers, named, spam, questions]
    NumbersIn(_),     \* significantNumbers of a quote and of its signal
    maxAttempts,
    MaxReply,         \* messages in one reply at most
    Subjects,         \* subjects an editor may write, None for no subject
    EditedBodies,     \* bodies an editor may write
    People,           \* identities given to approve; the blank one is ""
    MaxMoves          \* bound: human moves

\* The first call is made (options.maxAttempts ?? 2).
ASSUME DraftsConstants == maxAttempts \in Nat \ {0}

VARIABLES
    asked,    \* the generation: its step, its attempts, the last reply that parsed
    drafts,   \* the stored messages
    verdict,  \* the verification handed over with each of them: is it ok
    consent,  \* for each draft, the words somebody last approved, and who: a history
    moves     \* human moves so far

draftVars == <<asked, drafts, verdict, consent, moves>>

ApprovalStates == {"DRAFT", "APPROVED", "REJECTED", "SENT"}

\* Generations and messages keep to their states, and every draft has a verdict.
DraftsTypeOK ==
    /\ asked.pc \in {"asking", "done", "refused", "failed"}
    /\ asked.attempts \in 0..maxAttempts
    /\ DOMAIN verdict = DOMAIN drafts /\ DOMAIN consent = DOMAIN drafts
    /\ \A i \in DOMAIN drafts : drafts[i].approvalState \in ApprovalStates

\* toEvidencePool: the first quotes of what was observed, signal after signal.
EvidencePool ==
    LET places == UNION {{i} \X DOMAIN ResearchSignals[i].quotes :
                           i \in {s \in DOMAIN ResearchSignals :
                                    ResearchSignals[s].classification = "OBSERVED"}}
        before(p) == {q \in places : q[1] < p[1] \/ (q[1] = p[1] /\ q[2] < p[2])}
    IN  {ResearchSignals[p[1]].quotes[p[2]] :
           p \in {q \in places : Cardinality(before(q)) < PoolLimit}}

\* The input schema refuses a pool without evidence before the model is asked.
DraftsInit ==
    /\ asked = [pc |-> IF EvidencePool = {} THEN "failed" ELSE "asking",
                attempts |-> 0, best |-> << >>]
    /\ drafts = << >>
    /\ verdict = << >>
    /\ consent = << >>
    /\ moves = 0

--------------------------------------------------------------------------
(* Verification.                                                           *)

ShapeDefects(m) ==
    LET t == TraitsOf(m.body) IN
    {d \in {"too-long", "too-short", "missing-subject", "unexpected-subject",
            "subject-too-long", "unresolved-placeholder"} :
        \/ d = "too-long" /\ t.length = "long"
        \/ d = "too-short" /\ t.length = "short"
        \/ d = "missing-subject" /\ HasSubject(m.channel) /\ m.subject = None
        \/ d = "unexpected-subject" /\ ~HasSubject(m.channel) /\ m.subject # None
        \/ d = "subject-too-long" /\ HasSubject(m.channel) /\ m.subject = "long"
        \/ d = "unresolved-placeholder" /\ (t.placeholder \/ m.subject = "placeholder")}

\* unsupported-evidence and fabricated-number.
Inventions(m) ==
    LET t == TraitsOf(m.body) IN
    {q \in t.quotes : q \notin EvidencePool}
      \cup {n \in t.numbers : \A q \in EvidencePool : n \notin NumbersIn(q)}

\* verifyMessage: no defect of any kind.
VerifyMessage(m) ==
    LET t == TraitsOf(m.body) IN
    /\ ShapeDefects(m) = {}
    /\ Inventions(m) = {}
    /\ t.named
    /\ ~t.spam
    /\ t.questions <= 1

\* verifyAll: one verification for each channel, that of its last message.
VerifyAll(reply) ==
    [channel \in {reply[i].channel : i \in DOMAIN reply} |->
        VerifyMessage(reply[CHOOSE i \in DOMAIN reply :
            /\ reply[i].channel = channel
            /\ \A j \in i + 1..Len(reply) : reply[j].channel # channel])]

--------------------------------------------------------------------------
(* generateOutreach.                                                       *)

DraftRefusal ==
    /\ asked.pc = "asking"
    /\ asked' = [asked EXCEPT !.pc = "refused", !.attempts = @ + 1]
    /\ UNCHANGED <<drafts, verdict, consent, moves>>

StoredMessage(m) ==
    [channel |-> m.channel, subject |-> m.subject, body |-> m.body, approvalState |-> "DRAFT",
     approvedBy |-> None, editedByHuman |-> FALSE]

\* The loop is left with the best there is: the last reply that parsed.
DeliverDrafts(attempts, best) ==
    LET verifications == VerifyAll(best) IN
    /\ asked' = [pc |-> "done", attempts |-> attempts, best |-> best]
    /\ drafts' = [i \in DOMAIN best |-> StoredMessage(best[i])]
    /\ verdict' = [i \in DOMAIN best |-> verifications[best[i].channel]]
    /\ consent' = [i \in DOMAIN best |-> None]

\* A reply that does not fit the schema.
MalformedDrafts ==
    LET attempts == asked.attempts + 1 IN
    /\ asked.pc = "asking"
    /\ \/ /\ attempts < maxAttempts
          /\ asked' = [asked EXCEPT !.attempts = attempts]
          /\ UNCHANGED <<drafts, verdict, consent>>
       \/ /\ attempts >= maxAttempts /\ asked.best # << >>
          /\ DeliverDrafts(attempts, asked.best)
       \/ /\ attempts >= maxAttempts /\ asked.best = << >>
          /\ asked' = [asked EXCEPT !.pc = "failed", !.attempts = attempts]
          /\ UNCHANGED <<drafts, verdict, consent>>
    /\ UNCHANGED moves

DraftReply(reply) ==
    LET attempts == asked.attempts + 1
        verifications == VerifyAll(reply)
        failures == {c \in DOMAIN verifications : ~verifications[c]}
    IN
    /\ asked.pc = "asking"
    /\ IF failures = {} \/ attempts >= maxAttempts
       THEN DeliverDrafts(attempts, reply)
       ELSE /\ asked' = [asked EXCEPT !.attempts = attempts, !.best = reply]
            /\ UNCHANGED <<drafts, verdict, consent>>
    /\ UNCHANGED moves

--------------------------------------------------------------------------
(* The approval gate.                                                      *)

APPROVAL_TRANSITIONS ==
    [DRAFT |-> {"APPROVED", "REJECTED"}, APPROVED |-> {"SENT", "REJECTED", "DRAFT"},
     REJECTED |-> {"DRAFT"}, SENT |-> {}]

AssertApprovalTransition(i, to) == to \in APPROVAL_TRANSITIONS[drafts[i].approvalState]

Move ==
    /\ moves < MaxMoves
    /\ moves' = moves + 1
    /\ UNCHANGED <<asked, verdict>>

ApproveDraft(i, approvedBy) ==
    /\ Move
    /\ AssertApprovalTransition(i, "APPROVED")
    /\ approvedBy # ""
    /\ drafts' = [drafts EXCEPT ![i].approvalState = "APPROVED", ![i].approvedBy = approvedBy]
    /\ consent' = [consent EXCEPT ![i] = [subject |-> drafts[i].subject, body |-> drafts[i].body,
                                          by |-> approvedBy]]

RejectDraft(i) ==
    /\ Move
    /\ AssertApprovalTransition(i, "REJECTED")
    /\ drafts' = [drafts EXCEPT ![i].approvalState = "REJECTED", ![i].approvedBy = None]
    /\ UNCHANGED consent

\* Mutant: an edit that leaves the body as it was keeps the approval.
ApplyHumanEditOfSubject(i, subject, body) ==
    /\ Move
    /\ drafts[i].approvalState # "SENT"
    /\ drafts' = [drafts EXCEPT ![i] =
         IF body = @.body THEN [@ EXCEPT !.subject = subject]
         ELSE [@ EXCEPT !.subject = subject, !.body = body, !.editedByHuman = TRUE,
                        !.approvalState = "DRAFT", !.approvedBy = None]]
    /\ UNCHANGED consent

\* An edit without a subject leaves the one there is.
ApplyHumanEdit(i, subject, body) ==
    /\ Move
    /\ drafts[i].approvalState # "SENT"
    /\ drafts' = [drafts EXCEPT ![i] =
         [@ EXCEPT !.subject = subject, !.body = body, !.editedByHuman = TRUE,
                   !.approvalState = "DRAFT", !.approvedBy = None]]
    /\ UNCHANGED consent

MarkDraftSent(i) ==
    /\ Move
    /\ AssertApprovalTransition(i, "SENT")
    /\ drafts' = [drafts EXCEPT ![i].approvalState = "SENT"]
    /\ UNCHANGED consent

--------------------------------------------------------------------------
DraftGeneration ==
    \/ DraftRefusal
    \/ MalformedDrafts
    \/ \E n \in 1..MaxReply : \E reply \in [1..n -> Messages] : DraftReply(reply)

Gate ==
    \E i \in DOMAIN drafts :
        \/ \E who \in People : ApproveDraft(i, who)
        \/ RejectDraft(i)
        \/ \E body \in EditedBodies, subject \in Subjects \cup {drafts[i].subject} :
              ApplyHumanEdit(i, subject, body)
        \/ MarkDraftSent(i)

DraftsNext == DraftGeneration \/ Gate

DraftsSpec == DraftsInit /\ [][DraftsNext]_draftVars

--------------------------------------------------------------------------
(* Properties.                                                             *)

\* Whatever edits, rejections and approvals came before, a message that may be
\* sent or was sent has word for word the subject and body somebody approved
\* last, and names that person ("an approval applies to the words that were
\* approved", approval.ts).
ApprovalFitsWords ==
    \A i \in DOMAIN drafts :
        /\ drafts[i].approvalState \in {"APPROVED", "SENT"} =>
             consent[i] = [subject |-> drafts[i].subject, body |-> drafts[i].body,
                           by |-> drafts[i].approvedBy]
        /\ drafts[i].approvalState \in {"DRAFT", "REJECTED"} => drafts[i].approvedBy = None

\* The last draft of each channel is handed over with the verdict of its own words, and
\* one found ok quotes only what was observed, even when an earlier reply was repaired or
\* a later one did not parse (verifyAll, generateOutreach).
LastVerdictsAreTrue ==
    \A i \in DOMAIN verdict :
        (\A j \in DOMAIN asked.best : j > i => asked.best[j].channel # asked.best[i].channel)
            => /\ verdict[i] <=> VerifyMessage(asked.best[i])
               /\ verdict[i] => \A q \in TraitsOf(asked.best[i].body).quotes :
                     \E o \in ToSet(ResearchSignals) :
                         o.classification = "OBSERVED" /\ q \in ToSet(o.quotes)

\* A generation that asked as often as it may, and was not refused, hands over
\* drafts or fails; the drafts are those of one reply, and no call is made
\* after it has ended (generateOutreach's loop).
RepairIsBounded ==
    /\ asked.pc # "done" => drafts = << >>
    /\ asked.pc = "done" => DOMAIN drafts = DOMAIN asked.best
    /\ asked.pc = "asking" => asked.attempts < maxAttempts
    /\ (asked.pc = "done" /\ asked.attempts < maxAttempts) => \A i \in DOMAIN verdict : verdict[i]

\* What the approval gate and the generator promise together: approvals fit the words,
\* the verdict of the last draft of a channel is true, and repair ends (approval.ts,
\* generator.ts).
OutreachHolds == DraftsTypeOK /\ ApprovalFitsWords /\ LastVerdictsAreTrue /\ RepairIsBounded

\* "Callers are handed both, so a failing message is visible rather than
\* silently dropped" (generator.ts): a draft handed over as ok passes every
\* check itself, on a channel of several messages too.
FailuresAreVisible ==
    \A i \in DOMAIN verdict : verdict[i] => VerifyMessage(asked.best[i])
=====================================================================================
