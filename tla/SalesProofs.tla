--------------------------- MODULE SalesProofs ----------------------------
(***************************************************************************)
(* What is sent to a prospect: the outreach drafts, the proposals and the  *)
(* lifecycle of a lead with its follow-ups.                                *)
(***************************************************************************)
EXTENDS OutreachDrafts, Proposals, FollowUps, FiniteSetTheorems, WellFoundedInduction, TLAPS

---------------------------------------------------------------------------
(***************************************************************************)
(* The outreach drafts keep what they promise (OutreachHolds) for every    *)
(* body of research, every set of messages the model may write and every   *)
(* number of attempts.                                                     *)
(***************************************************************************)

\* The record of a stored message, with all of its fields.
IsMessage(m) ==
    m = [channel |-> m.channel, subject |-> m.subject, body |-> m.body,
         approvalState |-> m.approvalState, approvedBy |-> m.approvedBy,
         editedByHuman |-> m.editedByHuman]

\* The variables have their shapes; a draft keeps the words of nobody else.
DraftsShape ==
    /\ asked = [pc |-> asked.pc, attempts |-> asked.attempts, best |-> asked.best]
    /\ \E n \in Nat : DOMAIN asked.best = 1..n
    /\ drafts = [i \in DOMAIN drafts |-> drafts[i]]
    /\ consent = [i \in DOMAIN consent |-> consent[i]]
    /\ \A i \in DOMAIN drafts : IsMessage(drafts[i])

\* There is no draft before the end, and a verdict is that of its channel.
VerdictsOfBest ==
    /\ asked.pc # "done" => DOMAIN drafts = {}
    /\ asked.pc = "done" =>
         \A i \in DOMAIN asked.best : verdict[i] <=> VerifyAll(asked.best)[asked.best[i].channel]

\* The inductive invariant of the outreach drafts.
DraftsIInv ==
    /\ DraftsTypeOK
    /\ ApprovalFitsWords
    /\ RepairIsBounded
    /\ DraftsShape
    /\ VerdictsOfBest

--------------------------------------------------------------------------
\* What may be quoted was observed (toEvidencePool).
LEMMA PoolIsObserved ==
    \A q \in EvidencePool : \E o \in ToSet(ResearchSignals) :
        o.classification = "OBSERVED" /\ q \in ToSet(o.quotes)
<1> TAKE q \in EvidencePool
<1> DEFINE observed == {s \in DOMAIN ResearchSignals :
                          ResearchSignals[s].classification = "OBSERVED"}
           places == UNION {{i} \X DOMAIN ResearchSignals[i].quotes : i \in observed}
<1>1. PICK p \in places : q = ResearchSignals[p[1]].quotes[p[2]]
  BY DEF EvidencePool
<1>2. PICK i \in observed : p \in {i} \X DOMAIN ResearchSignals[i].quotes
  OBVIOUS
<1>3. p[1] = i /\ p[2] \in DOMAIN ResearchSignals[i].quotes
  BY <1>2
<1>4. ResearchSignals[i] \in ToSet(ResearchSignals) /\ q \in ToSet(ResearchSignals[i].quotes)
  BY <1>1, <1>3 DEF ToSet
<1> QED BY <1>4

\* The last message of a channel has the verdict of its own verification, so one that
\* is ok quotes what was observed (verifyAll).
LEMMA LastVerdict ==
    ASSUME NEW best, NEW n \in Nat, DOMAIN best = 1..n, NEW i \in 1..n,
           \A j \in DOMAIN best : j > i => best[j].channel # best[i].channel
    PROVE  /\ VerifyAll(best)[best[i].channel] <=> VerifyMessage(best[i])
           /\ VerifyMessage(best[i]) => TraitsOf(best[i].body).quotes \subseteq EvidencePool
<1> DEFINE c == best[i].channel
           Final(k) == /\ best[k].channel = c
                       /\ \A j \in k + 1..Len(best) : best[j].channel # c
<1>1. VerifyAll(best)[c] <=> VerifyMessage(best[CHOOSE k \in DOMAIN best : Final(k)])
  BY DEF VerifyAll
<1>2. Len(best) = n
  OBVIOUS
<1>3. \A k \in DOMAIN best : Final(k) <=> k = i
  BY <1>2
<1>4. (CHOOSE k \in DOMAIN best : Final(k)) = i
  BY <1>3
<1>5. VerifyMessage(best[i]) => Inventions(best[i]) = {}
  BY DEF VerifyMessage
<1> QED BY <1>1, <1>4, <1>5 DEF Inventions

\* A verdict that is that of its channel tells the truth about the last message of it.
LEMMA VerdictsSuffice == DraftsIInv => LastVerdictsAreTrue
<1> SUFFICES ASSUME DraftsIInv, NEW i \in DOMAIN verdict,
                    \A j \in DOMAIN asked.best :
                        j > i => asked.best[j].channel # asked.best[i].channel
             PROVE  /\ verdict[i] <=> VerifyMessage(asked.best[i])
                    /\ verdict[i] => \A q \in TraitsOf(asked.best[i].body).quotes :
                          \E o \in ToSet(ResearchSignals) :
                              o.classification = "OBSERVED" /\ q \in ToSet(o.quotes)
  BY DEF LastVerdictsAreTrue
<1>1. asked.pc = "done" /\ i \in DOMAIN asked.best
  BY DEF DraftsIInv, DraftsTypeOK, RepairIsBounded, VerdictsOfBest
<1>2. verdict[i] <=> VerifyAll(asked.best)[asked.best[i].channel]
  BY <1>1 DEF DraftsIInv, VerdictsOfBest
<1>3. PICK n \in Nat : DOMAIN asked.best = 1..n
  BY DEF DraftsIInv, DraftsShape
<1>4. /\ VerifyAll(asked.best)[asked.best[i].channel] <=> VerifyMessage(asked.best[i])
      /\ VerifyMessage(asked.best[i]) =>
           TraitsOf(asked.best[i].body).quotes \subseteq EvidencePool
  BY <1>1, <1>3, LastVerdict
<1> QED BY <1>2, <1>4, PoolIsObserved

--------------------------------------------------------------------------
LEMMA DraftsInitHolds == DraftsInit => DraftsIInv
BY DraftsConstants
   DEF DraftsInit, DraftsIInv, DraftsTypeOK, ApprovalFitsWords, RepairIsBounded, DraftsShape,
       VerdictsOfBest

\* A generation that delivers hands over fresh drafts, each with the verdict of its channel.
LEMMA DeliverKeeps ==
    ASSUME DraftsIInv, NEW attempts \in 0..maxAttempts, NEW best, NEW n \in Nat,
           DOMAIN best = 1..n, DeliverDrafts(attempts, best),
           attempts < maxAttempts => \A c \in DOMAIN VerifyAll(best) : VerifyAll(best)[c]
    PROVE  DraftsIInv'
<1>1. /\ asked' = [pc |-> "done", attempts |-> attempts, best |-> best]
      /\ drafts' = [i \in DOMAIN best |-> StoredMessage(best[i])]
      /\ verdict' = [i \in DOMAIN best |-> VerifyAll(best)[best[i].channel]]
      /\ consent' = [i \in DOMAIN best |-> None]
  BY DEF DeliverDrafts
<1>2. \A i \in DOMAIN best :
        /\ IsMessage(drafts'[i])
        /\ drafts'[i].approvalState = "DRAFT"
        /\ drafts'[i].approvedBy = None
  BY <1>1 DEF StoredMessage, IsMessage
<1>3. \A i \in DOMAIN best : best[i].channel \in DOMAIN VerifyAll(best)
  BY DEF VerifyAll
<1>4. DraftsTypeOK'
  BY <1>1, <1>2 DEF DraftsTypeOK, ApprovalStates
<1>5. ApprovalFitsWords'
  BY <1>1, <1>2 DEF ApprovalFitsWords
<1>6. RepairIsBounded'
  BY <1>1, <1>3 DEF RepairIsBounded
<1>7. DraftsShape'
  BY <1>1, <1>2 DEF DraftsShape
<1>8. VerdictsOfBest'
  BY <1>1 DEF VerdictsOfBest
<1> QED BY <1>4, <1>5, <1>6, <1>7, <1>8 DEF DraftsIInv

\* Nothing is handed over while another reply is asked for, or after the last one failed.
LEMMA AskKeeps ==
    ASSUME DraftsIInv, asked.pc = "asking", NEW attempts \in 0..maxAttempts, NEW best, NEW n \in Nat,
           DOMAIN best = 1..n, NEW pc \in {"asking", "refused", "failed"},
           pc = "asking" => attempts < maxAttempts,
           asked' = [pc |-> pc, attempts |-> attempts, best |-> best],
           UNCHANGED <<drafts, verdict, consent>>
    PROVE  DraftsIInv'
<1>1. drafts = << >> /\ DOMAIN drafts = {}
  BY DEF DraftsIInv, RepairIsBounded, VerdictsOfBest
<1>2. DraftsTypeOK' /\ ApprovalFitsWords' /\ VerdictsOfBest'
  BY <1>1 DEF DraftsIInv, DraftsTypeOK, ApprovalFitsWords, VerdictsOfBest
<1>3. RepairIsBounded'
  BY <1>1 DEF RepairIsBounded
<1>4. DraftsShape'
  BY <1>1 DEF DraftsIInv, DraftsShape
<1> QED BY <1>2, <1>3, <1>4 DEF DraftsIInv

LEMMA DraftRefusalKeeps == ASSUME DraftsIInv, DraftRefusal PROVE DraftsIInv'
<1>1. asked.pc = "asking" /\ asked.attempts + 1 \in 0..maxAttempts
  BY DraftsConstants DEF DraftRefusal, DraftsIInv, DraftsTypeOK, RepairIsBounded
<1>2. asked = [pc |-> asked.pc, attempts |-> asked.attempts, best |-> asked.best]
  BY DEF DraftsIInv, DraftsShape
<1>3. /\ asked' = [pc |-> "refused", attempts |-> asked.attempts + 1, best |-> asked.best]
      /\ UNCHANGED <<drafts, verdict, consent>>
  BY <1>2 DEF DraftRefusal
<1>4. PICK n \in Nat : DOMAIN asked.best = 1..n
  BY DEF DraftsIInv, DraftsShape
<1> QED BY <1>1, <1>3, <1>4, AskKeeps

LEMMA MalformedDraftsKeeps == ASSUME DraftsIInv, MalformedDrafts PROVE DraftsIInv'
<1> DEFINE attempts == asked.attempts + 1
<1>1. asked.pc = "asking" /\ attempts \in 0..maxAttempts
  BY DraftsConstants DEF MalformedDrafts, DraftsIInv, DraftsTypeOK, RepairIsBounded
<1>2. PICK n \in Nat : DOMAIN asked.best = 1..n
  BY DEF DraftsIInv, DraftsShape
<1>3. CASE attempts < maxAttempts
  <2>1. /\ asked' = [pc |-> "asking", attempts |-> attempts, best |-> asked.best]
        /\ UNCHANGED <<drafts, verdict, consent>>
    BY <1>1, <1>3, DraftsConstants DEF MalformedDrafts, DraftsIInv, DraftsShape
  <2> QED BY <2>1, <1>1, <1>2, <1>3, AskKeeps
<1>4. CASE attempts >= maxAttempts /\ asked.best # << >>
  <2>1. DeliverDrafts(attempts, asked.best)
    BY <1>1, <1>4, DraftsConstants DEF MalformedDrafts
  <2>2. ~(attempts < maxAttempts)
    BY <1>1, <1>4, DraftsConstants
  <2> QED BY <2>1, <2>2, <1>1, <1>2, DeliverKeeps
<1>5. CASE attempts >= maxAttempts /\ asked.best = << >>
  <2>1. /\ asked' = [pc |-> "failed", attempts |-> attempts, best |-> asked.best]
        /\ UNCHANGED <<drafts, verdict, consent>>
    <3>1. asked = [pc |-> asked.pc, attempts |-> asked.attempts, best |-> asked.best]
      BY DEF DraftsIInv, DraftsShape
    <3>2. ~(attempts < maxAttempts)
      BY <1>1, <1>5, DraftsConstants
    <3> QED BY <1>5, <3>1, <3>2 DEF MalformedDrafts
  <2> QED BY <2>1, <1>1, <1>2, AskKeeps
<1> QED BY <1>1, <1>3, <1>4, <1>5, DraftsConstants

LEMMA DraftReplyKeeps ==
    ASSUME DraftsIInv, NEW n \in 1..MaxReply, NEW reply \in [1..n -> Messages], DraftReply(reply)
    PROVE  DraftsIInv'
<1> DEFINE attempts == asked.attempts + 1
           failures == {c \in DOMAIN VerifyAll(reply) : ~VerifyAll(reply)[c]}
<1>1. asked.pc = "asking" /\ attempts \in 0..maxAttempts
  BY DraftsConstants DEF DraftReply, DraftsIInv, DraftsTypeOK, RepairIsBounded
<1>2. n \in Nat /\ DOMAIN reply = 1..n
  OBVIOUS
<1>3. CASE failures = {} \/ attempts >= maxAttempts
  <2>1. DeliverDrafts(attempts, reply)
    BY <1>3 DEF DraftReply
  <2>2. attempts < maxAttempts => \A c \in DOMAIN VerifyAll(reply) : VerifyAll(reply)[c]
    BY <1>1, <1>3, DraftsConstants
  <2> QED BY <2>1, <2>2, <1>1, <1>2, DeliverKeeps
<1>4. CASE ~(failures = {} \/ attempts >= maxAttempts)
  <2>1. /\ asked' = [pc |-> "asking", attempts |-> attempts, best |-> reply]
        /\ UNCHANGED <<drafts, verdict, consent>>
    BY <1>1, <1>4 DEF DraftReply, DraftsIInv, DraftsShape
  <2>2. attempts < maxAttempts
    BY <1>1, <1>4, DraftsConstants
  <2> QED BY <2>1, <2>2, <1>1, <1>2, AskKeeps
<1> QED BY <1>3, <1>4

\* A move at the gate changes one draft; the invariant needs only that the one fits.
LEMMA DraftMoveKeeps ==
    ASSUME DraftsIInv, UNCHANGED <<asked, verdict>>, NEW i \in DOMAIN drafts, NEW m, NEW word,
           IsMessage(m), m.approvalState \in ApprovalStates,
           drafts' = [drafts EXCEPT ![i] = m], consent' = [consent EXCEPT ![i] = word],
           m.approvalState \in {"APPROVED", "SENT"} =>
             word = [subject |-> m.subject, body |-> m.body, by |-> m.approvedBy],
           m.approvalState \in {"DRAFT", "REJECTED"} => m.approvedBy = None
    PROVE  DraftsIInv'
<1>1. /\ DOMAIN drafts' = DOMAIN drafts /\ DOMAIN consent' = DOMAIN consent
      /\ DOMAIN consent = DOMAIN drafts
      /\ drafts'[i] = m /\ consent'[i] = word
      /\ \A j \in DOMAIN drafts \ {i} : drafts'[j] = drafts[j] /\ consent'[j] = consent[j]
  BY DEF DraftsIInv, DraftsTypeOK, DraftsShape
<1>2. asked.pc = "done"
  BY DEF DraftsIInv, VerdictsOfBest
<1>3. DraftsTypeOK'
  BY <1>1 DEF DraftsIInv, DraftsTypeOK
<1>4. ApprovalFitsWords'
  <2> SUFFICES ASSUME NEW j \in DOMAIN drafts
               PROVE  /\ drafts'[j].approvalState \in {"APPROVED", "SENT"} =>
                           consent'[j] = [subject |-> drafts'[j].subject, body |-> drafts'[j].body,
                                          by |-> drafts'[j].approvedBy]
                      /\ drafts'[j].approvalState \in {"DRAFT", "REJECTED"} =>
                           drafts'[j].approvedBy = None
    BY <1>1 DEF ApprovalFitsWords
  <2>1. CASE j = i
    BY <2>1, <1>1
  <2>2. CASE j # i
    BY <2>2, <1>1 DEF DraftsIInv, ApprovalFitsWords
  <2> QED BY <2>1, <2>2
<1>5. RepairIsBounded'
  BY <1>1, <1>2 DEF DraftsIInv, RepairIsBounded
<1>6. DraftsShape'
  BY <1>1 DEF DraftsIInv, DraftsShape
<1>7. VerdictsOfBest'
  BY <1>2 DEF DraftsIInv, VerdictsOfBest
<1> QED BY <1>3, <1>4, <1>5, <1>6, <1>7 DEF DraftsIInv

\* The fields of a draft after a decision, and after an edit.
LEMMA DecidedFields ==
    ASSUME NEW d, IsMessage(d), NEW state, NEW who
    PROVE  [d EXCEPT !.approvalState = state, !.approvedBy = who] =
             [channel |-> d.channel, subject |-> d.subject, body |-> d.body,
              approvalState |-> state, approvedBy |-> who, editedByHuman |-> d.editedByHuman]
<1>1. PICK m1 : m1 = [d EXCEPT !.approvalState = state]
  OBVIOUS
<1>2. m1 = [channel |-> d.channel, subject |-> d.subject, body |-> d.body,
            approvalState |-> state, approvedBy |-> d.approvedBy,
            editedByHuman |-> d.editedByHuman]
  BY <1>1 DEF IsMessage
<1>3. [m1 EXCEPT !.approvedBy = who] =
        [channel |-> d.channel, subject |-> d.subject, body |-> d.body,
         approvalState |-> state, approvedBy |-> who, editedByHuman |-> d.editedByHuman]
  BY <1>2
<1> QED BY <1>1, <1>3

LEMMA EditedFields ==
    ASSUME NEW d, IsMessage(d), NEW subject, NEW body
    PROVE  [d EXCEPT !.subject = subject, !.body = body, !.editedByHuman = TRUE,
                     !.approvalState = "DRAFT", !.approvedBy = None] =
             [channel |-> d.channel, subject |-> subject, body |-> body,
              approvalState |-> "DRAFT", approvedBy |-> None, editedByHuman |-> TRUE]
<1>1. PICK m1 : m1 = [d EXCEPT !.subject = subject]
  OBVIOUS
<1>2. IsMessage(m1) /\ m1.channel = d.channel /\ m1.subject = subject
  BY <1>1 DEF IsMessage
<1>3. PICK m2 : m2 = [m1 EXCEPT !.body = body]
  OBVIOUS
<1>4. /\ IsMessage(m2)
      /\ m2.channel = d.channel /\ m2.subject = subject /\ m2.body = body
  BY <1>2, <1>3 DEF IsMessage
<1>5. PICK m3 : m3 = [m2 EXCEPT !.editedByHuman = TRUE]
  OBVIOUS
<1>6. /\ IsMessage(m3)
      /\ m3.channel = d.channel /\ m3.subject = subject /\ m3.body = body
      /\ m3.editedByHuman = TRUE
  BY <1>4, <1>5 DEF IsMessage
<1>7. [m3 EXCEPT !.approvalState = "DRAFT", !.approvedBy = None] =
        [channel |-> m3.channel, subject |-> m3.subject, body |-> m3.body,
         approvalState |-> "DRAFT", approvedBy |-> None, editedByHuman |-> m3.editedByHuman]
  BY <1>6, DecidedFields
<1>8. [[[d EXCEPT !.subject = subject] EXCEPT !.body = body] EXCEPT !.editedByHuman = TRUE] = m3
  BY <1>1, <1>3, <1>5
<1> QED BY <1>6, <1>7, <1>8

LEMMA GateMoveKeeps ==
    ASSUME DraftsIInv, NEW i \in DOMAIN drafts,
           \/ \E who \in People : ApproveDraft(i, who)
           \/ RejectDraft(i)
           \/ \E body \in EditedBodies, subject \in Subjects \cup {drafts[i].subject} :
                 ApplyHumanEdit(i, subject, body)
           \/ MarkDraftSent(i)
    PROVE  DraftsIInv'
<1> DEFINE d == drafts[i]
<1>1. /\ IsMessage(d)
      /\ d.approvalState \in ApprovalStates
      /\ DOMAIN consent = DOMAIN drafts
      /\ consent = [j \in DOMAIN consent |-> consent[j]]
      /\ d.approvalState \in {"APPROVED", "SENT"} =>
           consent[i] = [subject |-> d.subject, body |-> d.body, by |-> d.approvedBy]
  BY DEF DraftsIInv, DraftsShape, DraftsTypeOK, ApprovalFitsWords
<1>2. consent = [consent EXCEPT ![i] = consent[i]]
  BY <1>1
<1>3. ASSUME NEW who, ApproveDraft(i, who) PROVE DraftsIInv'
  <2> DEFINE m == [d EXCEPT !.approvalState = "APPROVED", !.approvedBy = who]
             word == [subject |-> d.subject, body |-> d.body, by |-> who]
  <2>1. drafts' = [drafts EXCEPT ![i] = m] /\ consent' = [consent EXCEPT ![i] = word]
    BY <1>3 DEF ApproveDraft
  <2>2. m = [channel |-> d.channel, subject |-> d.subject, body |-> d.body,
             approvalState |-> "APPROVED", approvedBy |-> who,
             editedByHuman |-> d.editedByHuman]
    BY <1>1, DecidedFields
  <2>3. /\ IsMessage(m) /\ m.approvalState = "APPROVED" /\ m.approvedBy = who
        /\ m.subject = d.subject /\ m.body = d.body
    BY <2>2 DEF IsMessage
  <2>4. UNCHANGED <<asked, verdict>>
    BY <1>3 DEF ApproveDraft, Move
  <2> HIDE DEF m
  <2> QED BY <2>1, <2>3, <2>4, DraftMoveKeeps DEF ApprovalStates
<1>4. CASE RejectDraft(i)
  <2> DEFINE m == [d EXCEPT !.approvalState = "REJECTED", !.approvedBy = None]
  <2>1. drafts' = [drafts EXCEPT ![i] = m] /\ consent' = [consent EXCEPT ![i] = consent[i]]
    BY <1>2, <1>4 DEF RejectDraft
  <2>2. m = [channel |-> d.channel, subject |-> d.subject, body |-> d.body,
             approvalState |-> "REJECTED", approvedBy |-> None,
             editedByHuman |-> d.editedByHuman]
    BY <1>1, DecidedFields
  <2>3. IsMessage(m) /\ m.approvalState = "REJECTED" /\ m.approvedBy = None
    BY <2>2 DEF IsMessage
  <2>4. UNCHANGED <<asked, verdict>>
    BY <1>4 DEF RejectDraft, Move
  <2> HIDE DEF m
  <2> QED BY <2>1, <2>3, <2>4, DraftMoveKeeps DEF ApprovalStates
<1>5. ASSUME NEW subject, NEW body, ApplyHumanEdit(i, subject, body) PROVE DraftsIInv'
  <2> DEFINE m == [d EXCEPT !.subject = subject, !.body = body, !.editedByHuman = TRUE,
                            !.approvalState = "DRAFT", !.approvedBy = None]
  <2>1. drafts' = [drafts EXCEPT ![i] = m] /\ consent' = [consent EXCEPT ![i] = consent[i]]
    BY <1>2, <1>5 DEF ApplyHumanEdit
  <2>2. m = [channel |-> d.channel, subject |-> subject, body |-> body,
             approvalState |-> "DRAFT", approvedBy |-> None,
             editedByHuman |-> TRUE]
    BY <1>1, EditedFields
  <2>3. IsMessage(m) /\ m.approvalState = "DRAFT" /\ m.approvedBy = None
    BY <2>2 DEF IsMessage
  <2>4. UNCHANGED <<asked, verdict>>
    BY <1>5 DEF ApplyHumanEdit, Move
  <2> HIDE DEF m
  <2> QED BY <2>1, <2>3, <2>4, DraftMoveKeeps DEF ApprovalStates
<1>6. CASE MarkDraftSent(i)
  <2> DEFINE m == [d EXCEPT !.approvalState = "SENT"]
  <2>1. drafts' = [drafts EXCEPT ![i] = m] /\ consent' = [consent EXCEPT ![i] = consent[i]]
    BY <1>2, <1>6 DEF MarkDraftSent
  <2>2. /\ IsMessage(m) /\ m.approvalState = "SENT" /\ m.approvedBy = d.approvedBy
        /\ m.subject = d.subject /\ m.body = d.body
    BY <1>1 DEF IsMessage
  <2>3. d.approvalState = "APPROVED"
    BY <1>1, <1>6
       DEF MarkDraftSent, AssertApprovalTransition, APPROVAL_TRANSITIONS, ApprovalStates
  <2>4. UNCHANGED <<asked, verdict>>
    BY <1>6 DEF MarkDraftSent, Move
  <2> HIDE DEF m
  <2> QED BY <1>1, <2>1, <2>2, <2>3, <2>4, DraftMoveKeeps DEF ApprovalStates
<1> QED BY <1>3, <1>4, <1>5, <1>6

--------------------------------------------------------------------------
LEMMA DraftsNextKeeps == DraftsIInv /\ [DraftsNext]_draftVars => DraftsIInv'
<1> SUFFICES ASSUME DraftsIInv, [DraftsNext]_draftVars PROVE DraftsIInv'
  OBVIOUS
<1>1. CASE DraftRefusal
  BY <1>1, DraftRefusalKeeps
<1>2. CASE MalformedDrafts
  BY <1>2, MalformedDraftsKeeps
<1>3. CASE \E n \in 1..MaxReply : \E reply \in [1..n -> Messages] : DraftReply(reply)
  BY <1>3, DraftReplyKeeps
<1>4. CASE Gate
  BY <1>4, GateMoveKeeps DEF Gate
<1>5. CASE UNCHANGED draftVars
  BY <1>5 DEF draftVars, DraftsIInv, DraftsTypeOK, ApprovalFitsWords, RepairIsBounded,
              DraftsShape, VerdictsOfBest
<1> QED BY <1>1, <1>2, <1>3, <1>4, <1>5 DEF DraftsNext, DraftGeneration

\* The inductive invariant holds in every state of the specification.
THEOREM DraftsInvariance == DraftsSpec => []DraftsIInv
<1> QED BY DraftsInitHolds, DraftsNextKeeps, PTL DEF DraftsSpec

\* Whatever the model writes and people do, a message that may be sent or was sent has the
\* words somebody approved last and names who; the last draft of each channel has the
\* verdict of its own words, so one found ok quotes only what was observed; and no reply is
\* asked for beyond maxAttempts.  It says nothing of a draft found wanting, which is handed
\* over with that verdict, nor of an earlier draft of the channel (FailuresAreVisible).
THEOREM OutreachHoldsAlways == DraftsSpec => []OutreachHolds
<1>1. DraftsIInv => OutreachHolds
  BY VerdictsSuffice DEF DraftsIInv, OutreachHolds
<1> QED BY <1>1, DraftsInvariance, PTL

---------------------------------------------------------------------------
(***************************************************************************)
(* Proposals keep what they promise (ProposalsHold) for every agreed       *)
(* price, every set of texts and however often one is edited and sent.     *)
(***************************************************************************)

\* The records of a proposal and of a version, with all of their fields.
IsProposal(p) ==
    p = [state |-> p.state, currentVersion |-> p.currentVersion, versions |-> p.versions,
         approvedBy |-> p.approvedBy, sentAt |-> p.sentAt, answeredAt |-> p.answeredAt]

IsVersion(v) ==
    v = [version |-> v.version, template |-> v.template, content |-> v.content,
         amount |-> v.amount, createdAt |-> v.createdAt, createdBy |-> v.createdBy]

\* A generation delivers once and there is nothing to send before; the text it is left
\* with was written, and verified if it was not the last that could be asked for.
DraftingIInv ==
    /\ drafting = [pc |-> drafting.pc, attempts |-> drafting.attempts, best |-> drafting.best]
    /\ drafting.pc = "asking" => drafting.attempts < maxProposalAttempts
    /\ drafting.best \in Texts \cup {None}
    /\ drafting.pc # "done" => proposal = None /\ outbox = << >>
    /\ drafting.pc = "done" =>
         /\ drafting.best \in Texts
         /\ drafting.attempts < maxProposalAttempts => VerifyProposal(drafting.best)

\* The versions are numbered and complete, for the agreed price, made by now.
VersionsIInv(p) ==
    /\ IsProposal(p)
    /\ p.versions \in Seq(ToSet(p.versions))
    /\ Len(p.versions) > 0
    /\ p.currentVersion = Len(p.versions)
    /\ \A i \in DOMAIN p.versions :
          /\ IsVersion(p.versions[i])
          /\ p.versions[i].amount = Agreed.amount
          /\ p.versions[i].template = Agreed.template
          /\ p.versions[i].createdAt \in 0..instant

\* The version that went out last was made by then and those after it no earlier.
SendingIInv(p, sendings) ==
    /\ sendings = << >> => p.sentAt = None
    /\ sendings # << >> =>
         LET sent == Last(sendings).version IN
         /\ p.sentAt \in 0..instant
         /\ p.sentAt = Last(sendings).at
         /\ sent.version \in DOMAIN p.versions
         /\ p.versions[sent.version] = sent
         /\ p.versions[sent.version].createdAt <= p.sentAt
         /\ \A j \in DOMAIN p.versions :
               j > sent.version => p.versions[j].createdAt >= p.sentAt
    /\ \A i \in DOMAIN sendings : sendings[i].version \in ToSet(p.versions)

\* The inductive invariant of the proposals.
ProposalsIInv ==
    /\ ProposalsTypeOK
    /\ SentIsApproved
    /\ DraftingIInv
    /\ outbox \in Seq(ToSet(outbox))
    /\ proposal # None => VersionsIInv(proposal) /\ SendingIInv(proposal, outbox)

--------------------------------------------------------------------------
\* Every nonempty set of numbers has a least one.
LEMMA LeastNumber ==
    ASSUME NEW T \in SUBSET Nat, T # {}
    PROVE  \E x \in T : \A y \in T : x <= y
<1>1. PICK x \in T : \A y \in T : ~(<<y, x>> \in OpToRel(<, Nat))
  BY NatLessThanWellFounded, WFMin
<1>2. \A y \in T : ~(y < x)
  BY <1>1 DEF OpToRel
<1> QED BY <1>2

\* A nonempty set of positions has a last one.
LEMMA LastPosition ==
    ASSUME NEW n \in Nat, NEW made \in SUBSET (1..n), made # {}
    PROVE  \E i \in made : \A j \in made : j <= i
<1> DEFINE T == {n - i : i \in made}
<1>1. T \in SUBSET Nat /\ T # {}
  <2>1. \A i \in made : n - i \in Nat
    OBVIOUS
  <2> QED BY <2>1
<1>2. PICK x \in T : \A y \in T : x <= y
  <2> HIDE DEF T
  <2> QED BY <1>1, LeastNumber
<1>3. PICK i \in made : x = n - i
  BY <1>2
<1>4. \A j \in made : n - i <= n - j
  BY <1>2, <1>3
<1> QED BY <1>4

\* What the invariant says of the versions is what sentVersion finds.
LEMMA SentVersionFound == ProposalsIInv => SentVersionIsKept
<1> SUFFICES ASSUME ProposalsIInv, proposal # None
             PROVE  /\ outbox = << >> => SentVersion = None
                    /\ outbox # << >> =>
                         \/ SentVersion = Last(outbox).version
                         \/ /\ SentVersion.createdAt = Last(outbox).at
                            /\ SentVersion.version > Last(outbox).version.version
                    /\ \A i \in DOMAIN outbox : outbox[i].version \in ToSet(proposal.versions)
  BY DEF SentVersionIsKept
<1>1. /\ SendingIInv(proposal, outbox) /\ VersionsIInv(proposal)
      /\ \A i \in DOMAIN proposal.versions : proposal.versions[i].version = i
  BY DEF ProposalsIInv, ProposalsTypeOK
<1>2. outbox = << >> => SentVersion = None
  BY <1>1 DEF SendingIInv, SentVersion
<1>3. ASSUME outbox # << >>
      PROVE  \/ SentVersion = Last(outbox).version
             \/ /\ SentVersion.createdAt = Last(outbox).at
                /\ SentVersion.version > Last(outbox).version.version
  <2> DEFINE sent == Last(outbox).version
             made == {i \in DOMAIN proposal.versions :
                        proposal.versions[i].createdAt <= proposal.sentAt}
             n == Len(proposal.versions)
  <2>1. /\ proposal.sentAt # None /\ proposal.sentAt \in Nat
        /\ proposal.sentAt = Last(outbox).at
        /\ proposal.versions[sent.version] = sent
        /\ sent.version \in made
        /\ \A j \in DOMAIN proposal.versions :
              j > sent.version => proposal.versions[j].createdAt >= proposal.sentAt
    BY <1>1, <1>3, ProposalConstants DEF SendingIInv
  <2>2. DOMAIN proposal.versions = 1..n /\ n \in Nat /\ made \in SUBSET (1..n)
    BY <1>1 DEF VersionsIInv
  <2>3. PICK last \in made : \A j \in made : j <= last
    <3> HIDE DEF made
    <3> QED BY <2>1, <2>2, LastPosition
  <2>4. \A i \in made : (\A j \in made : j <= i) => i = last
    BY <2>2, <2>3
  <2>5. SentVersion = proposal.versions[last]
    <3>1. (CHOOSE i \in made : \A j \in made : j <= i) = last
      <4> HIDE DEF made
      <4> QED BY <2>3, <2>4
    <3> QED BY <2>1, <3>1 DEF SentVersion
  <2>6. CASE last = sent.version
    BY <2>1, <2>5, <2>6
  <2>7. CASE last # sent.version
    <3>1. last > sent.version
      BY <2>1, <2>2, <2>3, <2>7
    <3>2. /\ proposal.versions[last].createdAt >= proposal.sentAt
          /\ proposal.versions[last].createdAt <= proposal.sentAt
          /\ proposal.versions[last].createdAt \in Nat
      BY <1>1, <2>1, <2>2, <2>3, <3>1 DEF VersionsIInv
    <3>3. proposal.versions[last].createdAt = proposal.sentAt
      BY <2>1, <3>2
    <3> QED BY <1>1, <2>1, <2>2, <2>3, <2>5, <3>1, <3>3
  <2> QED BY <2>6, <2>7
<1> QED BY <1>1, <1>2, <1>3 DEF SendingIInv

\* Every version has the agreed price, and a text found sendable states it.
LEMMA PriceFound == ProposalsIInv => PriceIsTheInput
<1> SUFFICES ASSUME ProposalsIInv, proposal # None
             PROVE  /\ \A i \in DOMAIN proposal.versions :
                          /\ proposal.versions[i].amount = Agreed.amount
                          /\ proposal.versions[i].template = Agreed.template
                    /\ (drafting.attempts < maxProposalAttempts) =>
                          /\ ToSet(drafting.best.amounts) = {proposal.versions[1].amount}
                          /\ Weeks(drafting.best) = Agreed.weeks
  BY DEF PriceIsTheInput
<1>1. VersionsIInv(proposal)
  BY DEF ProposalsIInv
<1>2. ASSUME drafting.attempts < maxProposalAttempts
      PROVE  /\ ToSet(drafting.best.amounts) = {proposal.versions[1].amount}
             /\ Weeks(drafting.best) = Agreed.weeks
  <2>1. drafting.best \in Texts /\ VerifyProposal(drafting.best)
    BY <1>2 DEF ProposalsIInv, DraftingIInv
  <2>2. /\ drafting.best.amounts \in Seq(Int)
        /\ drafting.best.amounts # << >>
        /\ \A i \in DOMAIN drafting.best.amounts : drafting.best.amounts[i] = Agreed.amount
        /\ Weeks(drafting.best) = Agreed.weeks
    BY <2>1, ProposalConstants DEF VerifyProposal, CheckPricing
  <2>3. 1 \in DOMAIN drafting.best.amounts
    BY <2>2
  <2>4. ToSet(drafting.best.amounts) = {Agreed.amount}
    BY <2>2, <2>3 DEF ToSet
  <2>5. proposal.versions[1].amount = Agreed.amount
    BY <1>1 DEF VersionsIInv
  <2> QED BY <2>2, <2>4, <2>5
<1> QED BY <1>1, <1>2 DEF VersionsIInv

--------------------------------------------------------------------------
LEMMA ProposalsInitHolds == ProposalsInit => ProposalsIInv
BY ProposalConstants
   DEF ProposalsInit, ProposalsIInv, ProposalsTypeOK, SentIsApproved, DraftingIInv

LEMMA InstantPassesKeeps == ASSUME ProposalsIInv, InstantPasses PROVE ProposalsIInv'
<1>1. /\ instant \in 0..MaxInstant /\ instant < MaxInstant /\ instant' = instant + 1
      /\ UNCHANGED <<drafting, proposal, approved, outbox>>
  BY DEF ProposalsIInv, ProposalsTypeOK, InstantPasses
<1>2. instant' \in 0..MaxInstant /\ 0..instant \subseteq 0..instant' /\ instant < instant'
  BY <1>1, ProposalConstants
<1>3. ProposalsTypeOK' /\ SentIsApproved' /\ DraftingIInv'
  BY <1>1, <1>2
     DEF ProposalsIInv, ProposalsTypeOK, SentIsApproved, DraftingIInv, CurrentVersion
<1>4. VersionsIInv(proposal) => VersionsIInv(proposal)'
  BY <1>1, <1>2 DEF VersionsIInv
<1>5. SendingIInv(proposal, outbox) => SendingIInv(proposal, outbox)'
  BY <1>1, <1>2, ProposalConstants DEF SendingIInv
<1> QED BY <1>1, <1>3, <1>4, <1>5 DEF ProposalsIInv

\* While another reply is asked for, or after the last one failed, there is no proposal.
LEMMA AskProposalKeeps ==
    ASSUME ProposalsIInv, drafting.pc = "asking",
           NEW attempts \in 0..maxProposalAttempts, NEW best \in Texts \cup {None},
           NEW pc \in {"asking", "refused", "failed"},
           pc = "asking" => attempts < maxProposalAttempts,
           drafting' = [pc |-> pc, attempts |-> attempts, best |-> best],
           UNCHANGED <<instant, proposal, approved, outbox>>
    PROVE  ProposalsIInv'
<1>1. proposal = None
  BY DEF ProposalsIInv, DraftingIInv
<1>2. ProposalsTypeOK' /\ SentIsApproved' /\ DraftingIInv'
  BY <1>1 DEF ProposalsIInv, ProposalsTypeOK, SentIsApproved, DraftingIInv
<1> QED BY <1>1, <1>2 DEF ProposalsIInv

\* A proposal starts as a draft of one version, which nobody approved and nobody was sent.
LEMMA DeliverProposalKeeps ==
    ASSUME ProposalsIInv, drafting.pc = "asking",
           NEW attempts \in 0..maxProposalAttempts, NEW text \in Texts,
           DeliverProposal(attempts, text),
           attempts < maxProposalAttempts => VerifyProposal(text),
           UNCHANGED <<instant, approved, outbox>>
    PROVE  ProposalsIInv'
<1>1. outbox = << >>
  BY DEF ProposalsIInv, DraftingIInv
<1>2. /\ drafting' = [pc |-> "done", attempts |-> attempts, best |-> text]
      /\ proposal' = [state |-> "DRAFT", currentVersion |-> 1,
                      versions |-> <<FirstVersion(text)>>,
                      approvedBy |-> None, sentAt |-> None, answeredAt |-> None]
  BY DEF DeliverProposal
<1>3. /\ DOMAIN proposal'.versions = {1} /\ proposal'.versions[1] = FirstVersion(text)
      /\ Len(proposal'.versions) = 1 /\ proposal'.currentVersion = 1
      /\ proposal'.sentAt = None /\ proposal'.state = "DRAFT"
  BY <1>2
<1>4. FirstVersion(text).version = 1
  BY DEF FirstVersion
<1>5. ProposalsTypeOK'
  BY <1>2, <1>3, <1>4 DEF ProposalsIInv, ProposalsTypeOK, States
<1>6. SentIsApproved'
  BY <1>3 DEF SentIsApproved
<1>7. DraftingIInv'
  BY <1>2 DEF DraftingIInv
<1>8. VersionsIInv(proposal)'
  <2>1. IsVersion(FirstVersion(text))
    BY DEF FirstVersion, IsVersion
  <2>2. /\ FirstVersion(text).amount = Agreed.amount
        /\ FirstVersion(text).template = Agreed.template
        /\ FirstVersion(text).createdAt = instant
    BY DEF FirstVersion
  <2>3. instant \in 0..instant
    BY DEF ProposalsIInv, ProposalsTypeOK
  <2>4. proposal'.versions \in Seq(ToSet(proposal'.versions))
    BY <1>2 DEF ToSet
  <2>5. IsProposal(proposal')
    BY <1>2 DEF IsProposal
  <2> QED BY <1>3, <2>1, <2>2, <2>3, <2>4, <2>5 DEF VersionsIInv
<1>9. SendingIInv(proposal, outbox)'
  BY <1>1, <1>3 DEF SendingIInv
<1> QED BY <1>1, <1>5, <1>6, <1>7, <1>8, <1>9 DEF ProposalsIInv

LEMMA ProposalRefusalKeeps == ASSUME ProposalsIInv, ProposalRefusal PROVE ProposalsIInv'
<1>1. /\ drafting.pc = "asking" /\ drafting.attempts + 1 \in 0..maxProposalAttempts
      /\ drafting.best \in Texts \cup {None}
  BY ProposalConstants DEF ProposalRefusal, ProposalsIInv, ProposalsTypeOK, DraftingIInv
<1>2. drafting = [pc |-> drafting.pc, attempts |-> drafting.attempts, best |-> drafting.best]
  BY DEF ProposalsIInv, DraftingIInv
<1>3. /\ drafting' = [pc |-> "refused", attempts |-> drafting.attempts + 1, best |-> drafting.best]
      /\ UNCHANGED <<instant, proposal, approved, outbox>>
  BY <1>2 DEF ProposalRefusal
<1> QED BY <1>1, <1>3, AskProposalKeeps

LEMMA MalformedProposalKeeps == ASSUME ProposalsIInv, MalformedProposal PROVE ProposalsIInv'
<1> DEFINE attempts == drafting.attempts + 1
<1>1. /\ drafting.pc = "asking" /\ attempts \in 0..maxProposalAttempts
      /\ drafting.best \in Texts \cup {None}
      /\ UNCHANGED <<instant, approved, outbox>>
  BY ProposalConstants DEF MalformedProposal, ProposalsIInv, ProposalsTypeOK, DraftingIInv
<1>2. drafting = [pc |-> drafting.pc, attempts |-> drafting.attempts, best |-> drafting.best]
  BY DEF ProposalsIInv, DraftingIInv
<1>3. CASE /\ attempts < maxProposalAttempts
           /\ drafting' = [drafting EXCEPT !.attempts = attempts]
           /\ UNCHANGED proposal
  <2>1. drafting' = [pc |-> "asking", attempts |-> attempts, best |-> drafting.best]
    BY <1>1, <1>2, <1>3
  <2> QED BY <2>1, <1>1, <1>3, AskProposalKeeps
<1>4. CASE /\ attempts >= maxProposalAttempts /\ drafting.best # None
           /\ DeliverProposal(attempts, drafting.best)
  <2>1. ~(attempts < maxProposalAttempts) /\ drafting.best \in Texts
    BY <1>1, <1>4, ProposalConstants
  <2> QED BY <2>1, <1>1, <1>4, DeliverProposalKeeps
<1>5. CASE /\ attempts >= maxProposalAttempts /\ drafting.best = None
           /\ drafting' = [drafting EXCEPT !.pc = "failed", !.attempts = attempts]
           /\ UNCHANGED proposal
  <2>1. drafting' = [pc |-> "failed", attempts |-> attempts, best |-> drafting.best]
    BY <1>2, <1>5
  <2> QED BY <2>1, <1>1, <1>5, AskProposalKeeps
<1> QED BY <1>3, <1>4, <1>5 DEF MalformedProposal

LEMMA ProposalReplyKeeps ==
    ASSUME ProposalsIInv, NEW text \in Texts, ProposalReply(text) PROVE ProposalsIInv'
<1> DEFINE attempts == drafting.attempts + 1
<1>1. /\ drafting.pc = "asking" /\ attempts \in 0..maxProposalAttempts
      /\ UNCHANGED <<instant, approved, outbox>>
  BY ProposalConstants DEF ProposalReply, ProposalsIInv, ProposalsTypeOK, DraftingIInv
<1>2. drafting = [pc |-> drafting.pc, attempts |-> drafting.attempts, best |-> drafting.best]
  BY DEF ProposalsIInv, DraftingIInv
<1>3. CASE VerifyProposal(text) \/ attempts >= maxProposalAttempts
  <2>1. DeliverProposal(attempts, text)
    BY <1>3 DEF ProposalReply
  <2>2. attempts < maxProposalAttempts => VerifyProposal(text)
    BY <1>1, <1>3, ProposalConstants
  <2> QED BY <2>1, <2>2, <1>1, DeliverProposalKeeps
<1>4. CASE ~(VerifyProposal(text) \/ attempts >= maxProposalAttempts)
  <2>1. /\ drafting' = [drafting EXCEPT !.attempts = attempts, !.best = text]
        /\ UNCHANGED proposal
    BY <1>4 DEF ProposalReply
  <2>2. drafting' = [pc |-> "asking", attempts |-> attempts, best |-> text]
    BY <1>1, <1>2, <2>1
  <2>3. attempts < maxProposalAttempts
    BY <1>1, <1>4, ProposalConstants
  <2> QED BY <2>1, <2>2, <2>3, <1>1, AskProposalKeeps
<1> QED BY <1>3, <1>4

--------------------------------------------------------------------------
\* The fields of a proposal after two of them were set, and after an edit.
LEMMA TwoFields ==
    ASSUME NEW p, IsProposal(p), NEW state, NEW x
    PROVE  /\ [p EXCEPT !.state = state, !.approvedBy = x] =
                [state |-> state, currentVersion |-> p.currentVersion, versions |-> p.versions,
                 approvedBy |-> x, sentAt |-> p.sentAt, answeredAt |-> p.answeredAt]
           /\ [p EXCEPT !.state = state, !.sentAt = x] =
                [state |-> state, currentVersion |-> p.currentVersion, versions |-> p.versions,
                 approvedBy |-> p.approvedBy, sentAt |-> x, answeredAt |-> p.answeredAt]
           /\ [p EXCEPT !.state = state, !.answeredAt = x] =
                [state |-> state, currentVersion |-> p.currentVersion, versions |-> p.versions,
                 approvedBy |-> p.approvedBy, sentAt |-> p.sentAt, answeredAt |-> x]
<1>1. PICK q : q = [p EXCEPT !.state = state]
  OBVIOUS
<1>2. q = [state |-> state, currentVersion |-> p.currentVersion, versions |-> p.versions,
           approvedBy |-> p.approvedBy, sentAt |-> p.sentAt, answeredAt |-> p.answeredAt]
  BY <1>1 DEF IsProposal
<1>3. [q EXCEPT !.approvedBy = x] =
        [state |-> state, currentVersion |-> p.currentVersion, versions |-> p.versions,
         approvedBy |-> x, sentAt |-> p.sentAt, answeredAt |-> p.answeredAt]
  BY <1>2
<1>4. [q EXCEPT !.sentAt = x] =
        [state |-> state, currentVersion |-> p.currentVersion, versions |-> p.versions,
         approvedBy |-> p.approvedBy, sentAt |-> x, answeredAt |-> p.answeredAt]
  BY <1>2
<1>5. [q EXCEPT !.answeredAt = x] =
        [state |-> state, currentVersion |-> p.currentVersion, versions |-> p.versions,
         approvedBy |-> p.approvedBy, sentAt |-> p.sentAt, answeredAt |-> x]
  BY <1>2
<1> QED BY <1>1, <1>3, <1>4, <1>5

LEMMA EditedProposal ==
    ASSUME NEW p, IsProposal(p), NEW current, NEW next
    PROVE  [p EXCEPT !.state = "DRAFT", !.approvedBy = None, !.currentVersion = current,
                     !.versions = Append(@, next)] =
             [state |-> "DRAFT", currentVersion |-> current, versions |-> Append(p.versions, next),
              approvedBy |-> None, sentAt |-> p.sentAt, answeredAt |-> p.answeredAt]
<1>1. PICK q : q = [p EXCEPT !.state = "DRAFT", !.approvedBy = None]
  OBVIOUS
<1>2. q = [state |-> "DRAFT", currentVersion |-> p.currentVersion, versions |-> p.versions,
           approvedBy |-> None, sentAt |-> p.sentAt, answeredAt |-> p.answeredAt]
  BY <1>1, TwoFields
<1>3. PICK r : r = [q EXCEPT !.currentVersion = current]
  OBVIOUS
<1>4. r = [state |-> "DRAFT", currentVersion |-> current, versions |-> p.versions,
           approvedBy |-> None, sentAt |-> p.sentAt, answeredAt |-> p.answeredAt]
  BY <1>2, <1>3
<1>5. [r EXCEPT !.versions = Append(@, next)] =
        [state |-> "DRAFT", currentVersion |-> current, versions |-> Append(p.versions, next),
         approvedBy |-> None, sentAt |-> p.sentAt, answeredAt |-> p.answeredAt]
  BY <1>4
<1> QED BY <1>1, <1>3, <1>5

LEMMA EditedVersion ==
    ASSUME NEW v, IsVersion(v), NEW text, NEW who, v.version \in Nat
    PROVE  [v EXCEPT !.version = @ + 1, !.content = text, !.createdAt = instant, !.createdBy = who] =
             [version |-> v.version + 1, template |-> v.template, content |-> text,
              amount |-> v.amount, createdAt |-> instant, createdBy |-> who]
<1>1. PICK q : q = [v EXCEPT !.version = @ + 1]
  OBVIOUS
<1>2. q = [version |-> v.version + 1, template |-> v.template, content |-> v.content,
           amount |-> v.amount, createdAt |-> v.createdAt, createdBy |-> v.createdBy]
  BY <1>1 DEF IsVersion
<1>3. PICK r : r = [q EXCEPT !.content = text]
  OBVIOUS
<1>4. r = [version |-> v.version + 1, template |-> v.template, content |-> text,
           amount |-> v.amount, createdAt |-> v.createdAt, createdBy |-> v.createdBy]
  BY <1>2, <1>3
<1>5. PICK s : s = [r EXCEPT !.createdAt = instant]
  OBVIOUS
<1>6. s = [version |-> v.version + 1, template |-> v.template, content |-> text,
           amount |-> v.amount, createdAt |-> instant, createdBy |-> v.createdBy]
  BY <1>4, <1>5
<1>7. [s EXCEPT !.createdBy = who] =
        [version |-> v.version + 1, template |-> v.template, content |-> text,
         amount |-> v.amount, createdAt |-> instant, createdBy |-> who]
  BY <1>6
<1> QED BY <1>1, <1>3, <1>5, <1>7

\* A step that leaves the versions and the sendings alone: approval and answer.
LEMMA StateMoveKeeps ==
    ASSUME ProposalsIInv, proposal # None,
           IsProposal(proposal'), proposal'.state \in States \ {"SENT"},
           proposal'.versions = proposal.versions, proposal'.sentAt = proposal.sentAt,
           proposal'.currentVersion = proposal.currentVersion,
           SentIsApproved', UNCHANGED <<instant, drafting, outbox>>
    PROVE  ProposalsIInv'
<1>1. VersionsIInv(proposal) /\ SendingIInv(proposal, outbox)
  BY DEF ProposalsIInv
<1>2. ProposalsTypeOK'
  BY DEF ProposalsIInv, ProposalsTypeOK
<1>3. DraftingIInv'
  BY DEF ProposalsIInv, DraftingIInv
<1>4. VersionsIInv(proposal)'
  BY <1>1 DEF VersionsIInv
<1>5. SendingIInv(proposal, outbox)'
  BY <1>1 DEF SendingIInv
<1> QED BY <1>2, <1>3, <1>4, <1>5 DEF ProposalsIInv

LEMMA ApproveProposalKeeps ==
    ASSUME ProposalsIInv, NEW who, ApproveProposal(who) PROVE ProposalsIInv'
<1>1. /\ proposal # None /\ proposal.state # "SENT"
      /\ proposal' = [proposal EXCEPT !.state = "APPROVED", !.approvedBy = who]
      /\ approved' = [content |-> CurrentVersion.content, amount |-> CurrentVersion.amount,
                      by |-> who]
      /\ UNCHANGED <<instant, drafting, outbox>>
  <2>1. AssertProposalTransition("APPROVED")
    BY DEF ApproveProposal
  <2>2. proposal # None /\ proposal.state # "SENT"
    BY <2>1 DEF ProposalsIInv, ProposalsTypeOK, States, AssertProposalTransition,
                PROPOSAL_TRANSITIONS
  <2> QED BY <2>2 DEF ApproveProposal
<1>2. IsProposal(proposal)
  BY <1>1 DEF ProposalsIInv, VersionsIInv
<1>3. proposal' = [state |-> "APPROVED", currentVersion |-> proposal.currentVersion,
                   versions |-> proposal.versions, approvedBy |-> who,
                   sentAt |-> proposal.sentAt, answeredAt |-> proposal.answeredAt]
  BY <1>1, <1>2, TwoFields
<1>4. /\ IsProposal(proposal') /\ proposal'.state = "APPROVED" /\ proposal'.approvedBy = who
      /\ proposal'.versions = proposal.versions /\ proposal'.sentAt = proposal.sentAt
      /\ proposal'.currentVersion = proposal.currentVersion
  BY <1>3 DEF IsProposal
<1>5. SentIsApproved'
  BY <1>1, <1>4 DEF SentIsApproved, CurrentVersion
<1> QED BY <1>1, <1>4, <1>5, StateMoveKeeps DEF States

LEMMA RecordAnswerKeeps ==
    ASSUME ProposalsIInv, NEW answer \in {"ACCEPTED", "DECLINED"}, RecordAnswer(answer)
    PROVE  ProposalsIInv'
<1>1. /\ proposal # None /\ proposal.state = "SENT"
      /\ proposal' = [proposal EXCEPT !.state = answer, !.answeredAt = instant]
      /\ UNCHANGED <<instant, drafting, approved, outbox>>
  BY DEF ProposalsIInv, ProposalsTypeOK, States, RecordAnswer, AssertProposalTransition,
         PROPOSAL_TRANSITIONS
<1>2. IsProposal(proposal)
  BY <1>1 DEF ProposalsIInv, VersionsIInv
<1>3. proposal' = [state |-> answer, currentVersion |-> proposal.currentVersion,
                   versions |-> proposal.versions, approvedBy |-> proposal.approvedBy,
                   sentAt |-> proposal.sentAt, answeredAt |-> instant]
  BY <1>1, <1>2, TwoFields
<1>4. /\ IsProposal(proposal') /\ proposal'.state = answer
      /\ proposal'.approvedBy = proposal.approvedBy
      /\ proposal'.versions = proposal.versions /\ proposal'.sentAt = proposal.sentAt
      /\ proposal'.currentVersion = proposal.currentVersion
  BY <1>3 DEF IsProposal
<1>5. SentIsApproved'
  BY <1>1, <1>4 DEF ProposalsIInv, SentIsApproved, CurrentVersion
<1> QED BY <1>1, <1>4, <1>5, StateMoveKeeps DEF States

\* What goes out is the current version, and all there are were made by now.
LEMMA MarkProposalSentKeeps == ASSUME ProposalsIInv, MarkProposalSent PROVE ProposalsIInv'
<1> DEFINE e == [at |-> instant, version |-> CurrentVersion]
           n == Len(proposal.versions)
<1>1. /\ proposal # None /\ proposal.state = "APPROVED"
      /\ proposal' = [proposal EXCEPT !.state = "SENT", !.sentAt = instant]
      /\ outbox' = Append(outbox, e)
      /\ UNCHANGED <<instant, drafting, approved>>
  BY DEF ProposalsIInv, ProposalsTypeOK, States, MarkProposalSent, AssertProposalTransition,
         PROPOSAL_TRANSITIONS
<1>2. VersionsIInv(proposal) /\ SendingIInv(proposal, outbox) /\ outbox \in Seq(ToSet(outbox))
  BY <1>1 DEF ProposalsIInv
<1>3. proposal' = [state |-> "SENT", currentVersion |-> proposal.currentVersion,
                   versions |-> proposal.versions, approvedBy |-> proposal.approvedBy,
                   sentAt |-> instant, answeredAt |-> proposal.answeredAt]
  BY <1>1, <1>2, TwoFields DEF VersionsIInv
<1>4. /\ IsProposal(proposal') /\ proposal'.state = "SENT"
      /\ proposal'.approvedBy = proposal.approvedBy
      /\ proposal'.versions = proposal.versions /\ proposal'.sentAt = instant
      /\ proposal'.currentVersion = proposal.currentVersion
  BY <1>3 DEF IsProposal
<1>5. /\ n \in DOMAIN proposal.versions /\ CurrentVersion = proposal.versions[n]
      /\ proposal.versions[n].version = n
      /\ \A j \in DOMAIN proposal.versions : j <= n
  BY <1>1, <1>2 DEF VersionsIInv, CurrentVersion, ProposalsIInv, ProposalsTypeOK
<1>6. instant \in 0..MaxInstant /\ instant \in 0..instant
  BY DEF ProposalsIInv, ProposalsTypeOK
<1>7. ProposalsTypeOK'
  BY <1>1, <1>4, <1>6 DEF ProposalsIInv, ProposalsTypeOK, States
<1>8. SentIsApproved'
  BY <1>1, <1>4 DEF ProposalsIInv, SentIsApproved, CurrentVersion
<1>9. DraftingIInv'
  BY <1>1 DEF ProposalsIInv, DraftingIInv
<1>10. outbox' \in Seq(ToSet(outbox)') /\ outbox' # << >> /\ Last(outbox') = e
       /\ \A i \in DOMAIN outbox' : outbox'[i] = e \/ \E k \in DOMAIN outbox : outbox'[i] = outbox[k]
  <2>1. DOMAIN outbox' = 1..Len(outbox) + 1 /\ Len(outbox') = Len(outbox) + 1
        /\ outbox'[Len(outbox) + 1] = e /\ \A i \in 1..Len(outbox) : outbox'[i] = outbox[i]
    BY <1>1, <1>2
  <2>2. Last(outbox') = e
    BY <2>1, <1>2 DEF Last
  <2>3. outbox' \in Seq(ToSet(outbox'))
    BY <1>1, <1>2, <2>1 DEF ToSet
  <2> QED BY <1>2, <2>1, <2>2, <2>3
<1>11. VersionsIInv(proposal)'
  BY <1>1, <1>2, <1>4 DEF VersionsIInv
<1>12. SendingIInv(proposal, outbox)'
  <2>1. /\ proposal.versions[n].createdAt <= instant
        /\ \A j \in DOMAIN proposal.versions : ~(j > n)
    BY <1>2, <1>5, <1>6 DEF VersionsIInv
  <2>2. Last(outbox').version = proposal.versions[n]
    BY <1>5, <1>10
  <2>3. \A i \in DOMAIN outbox' : outbox'[i].version \in ToSet(proposal.versions)
    BY <1>2, <1>5, <1>10 DEF SendingIInv, ToSet
  <2> QED BY <1>1, <1>4, <1>5, <1>6, <1>10, <2>1, <2>2, <2>3 DEF SendingIInv
<1> QED BY <1>7, <1>8, <1>9, <1>10, <1>11, <1>12 DEF ProposalsIInv

\* An edit adds a version made now, no earlier than any sending there was.
LEMMA AppendEditKeeps ==
    ASSUME ProposalsIInv, NEW text, NEW who, AppendEdit(text, who) PROVE ProposalsIInv'
<1> DEFINE n == Len(proposal.versions)
           v == CurrentVersion
           next == [v EXCEPT !.version = @ + 1, !.content = text,
                             !.createdAt = instant, !.createdBy = who]
<1>1. /\ proposal # None /\ proposal.state \notin {"SENT", "ACCEPTED"}
      /\ proposal' = [proposal EXCEPT !.state = "DRAFT", !.approvedBy = None,
                        !.currentVersion = next.version, !.versions = Append(@, next)]
      /\ UNCHANGED <<instant, drafting, approved, outbox>>
  BY DEF AppendEdit
<1>2. VersionsIInv(proposal) /\ SendingIInv(proposal, outbox) /\ outbox \in Seq(ToSet(outbox))
  BY <1>1 DEF ProposalsIInv
<1>3. /\ n \in DOMAIN proposal.versions /\ v = proposal.versions[n] /\ v.version = n /\ n \in Nat
      /\ IsVersion(v) /\ v.amount = Agreed.amount /\ v.template = Agreed.template
  BY <1>1, <1>2 DEF VersionsIInv, CurrentVersion, ProposalsIInv, ProposalsTypeOK
<1>4. next = [version |-> n + 1, template |-> v.template, content |-> text,
              amount |-> v.amount, createdAt |-> instant, createdBy |-> who]
  <2> HIDE DEF v
  <2>1. IsVersion(v) /\ v.version \in Nat
    BY <1>3
  <2>2. next = [version |-> v.version + 1, template |-> v.template, content |-> text,
                amount |-> v.amount, createdAt |-> instant, createdBy |-> who]
    BY <2>1, EditedVersion
  <2> QED BY <1>3, <2>2
<1>5. /\ IsVersion(next) /\ next.version = n + 1 /\ next.createdAt = instant
      /\ next.amount = Agreed.amount /\ next.template = Agreed.template
  BY <1>3, <1>4 DEF IsVersion
<1> HIDE DEF next
<1>6. proposal' = [state |-> "DRAFT", currentVersion |-> n + 1,
                   versions |-> Append(proposal.versions, next), approvedBy |-> None,
                   sentAt |-> proposal.sentAt, answeredAt |-> proposal.answeredAt]
  BY <1>1, <1>2, <1>5, EditedProposal DEF VersionsIInv
<1>7. /\ IsProposal(proposal') /\ proposal'.state = "DRAFT"
      /\ proposal'.versions = Append(proposal.versions, next)
      /\ proposal'.sentAt = proposal.sentAt /\ proposal'.currentVersion = n + 1
  BY <1>6 DEF IsProposal
<1>8. /\ DOMAIN proposal'.versions = 1..n + 1 /\ Len(proposal'.versions) = n + 1
      /\ DOMAIN proposal.versions = 1..n
      /\ proposal'.versions[n + 1] = next
      /\ \A j \in 1..n : proposal'.versions[j] = proposal.versions[j]
  BY <1>2, <1>7 DEF VersionsIInv
<1>9. ToSet(proposal.versions) \subseteq ToSet(proposal'.versions)
  BY <1>3, <1>8 DEF ToSet
<1>10. proposal'.versions \in Seq(ToSet(proposal'.versions))
  <2>1. next \in ToSet(proposal'.versions)
    BY <1>3, <1>8 DEF ToSet
  <2> QED BY <1>2, <1>7, <1>9, <2>1 DEF VersionsIInv
<1>11. instant \in 0..MaxInstant /\ instant \in 0..instant /\ instant \in Nat
  BY ProposalConstants DEF ProposalsIInv, ProposalsTypeOK
<1>12. ProposalsTypeOK'
  <2>1. \A i \in DOMAIN proposal'.versions : proposal'.versions[i].version = i
    BY <1>1, <1>3, <1>5, <1>8 DEF ProposalsIInv, ProposalsTypeOK
  <2> QED BY <1>1, <1>7, <2>1 DEF ProposalsIInv, ProposalsTypeOK, States
<1>13. SentIsApproved'
  BY <1>7 DEF SentIsApproved
<1>14. DraftingIInv'
  BY <1>1 DEF ProposalsIInv, DraftingIInv
<1>15. VersionsIInv(proposal)'
  <2>1. \A i \in DOMAIN proposal'.versions :
          /\ IsVersion(proposal'.versions[i])
          /\ proposal'.versions[i].amount = Agreed.amount
          /\ proposal'.versions[i].template = Agreed.template
          /\ proposal'.versions[i].createdAt \in 0..instant
    <3>1. \A i \in 1..n :
            /\ IsVersion(proposal.versions[i])
            /\ proposal.versions[i].amount = Agreed.amount
            /\ proposal.versions[i].template = Agreed.template
            /\ proposal.versions[i].createdAt \in 0..instant
      BY <1>2, <1>8 DEF VersionsIInv
    <3>2. \A i \in 1..n + 1 : i \in 1..n \/ i = n + 1
      BY <1>3
    <3> QED BY <3>1, <3>2, <1>5, <1>8, <1>11
  <2> QED BY <1>1, <1>3, <1>7, <1>8, <1>10, <2>1 DEF VersionsIInv
<1>16. SendingIInv(proposal, outbox)'
  <2>1. CASE outbox = << >>
    BY <2>1, <1>1, <1>2, <1>7 DEF SendingIInv
  <2>2. CASE outbox # << >>
    <3> DEFINE sent == Last(outbox).version
    <3>1. /\ proposal.sentAt \in 0..instant /\ proposal.sentAt = Last(outbox).at
          /\ sent.version \in 1..n
          /\ proposal.versions[sent.version] = sent
          /\ proposal.versions[sent.version].createdAt <= proposal.sentAt
          /\ \A j \in 1..n :
                j > sent.version => proposal.versions[j].createdAt >= proposal.sentAt
      BY <2>2, <1>1, <1>2, <1>8 DEF SendingIInv
    <3>2. next.createdAt >= proposal.sentAt
      BY <3>1, <1>5, <1>11
    <3>3. \A j \in 1..n + 1 :
            j > sent.version => proposal'.versions[j].createdAt >= proposal.sentAt
      BY <3>1, <3>2, <1>3, <1>8
    <3>4. \A i \in DOMAIN outbox : outbox[i].version \in ToSet(proposal'.versions)
      BY <1>2, <1>9 DEF SendingIInv
    <3> QED BY <2>2, <3>1, <3>3, <3>4, <1>1, <1>3, <1>7, <1>8 DEF SendingIInv
  <2> QED BY <2>1, <2>2
<1> QED BY <1>1, <1>2, <1>12, <1>13, <1>14, <1>15, <1>16 DEF ProposalsIInv

--------------------------------------------------------------------------
LEMMA ProposalsNextKeeps == ProposalsIInv /\ [ProposalsNext]_proposalVars => ProposalsIInv'
<1> SUFFICES ASSUME ProposalsIInv, [ProposalsNext]_proposalVars PROVE ProposalsIInv'
  OBVIOUS
<1>1. CASE InstantPasses
  BY <1>1, InstantPassesKeeps
<1>2. CASE ProposalRefusal
  BY <1>2, ProposalRefusalKeeps
<1>3. CASE MalformedProposal
  BY <1>3, MalformedProposalKeeps
<1>4. CASE \E text \in Texts : ProposalReply(text)
  BY <1>4, ProposalReplyKeeps
<1>5. CASE \E text \in Edits, who \in Signers : AppendEdit(text, who)
  BY <1>5, AppendEditKeeps
<1>6. CASE \E who \in Signers : ApproveProposal(who)
  BY <1>6, ApproveProposalKeeps
<1>7. CASE MarkProposalSent
  BY <1>7, MarkProposalSentKeeps
<1>8. CASE \E answer \in {"ACCEPTED", "DECLINED"} : RecordAnswer(answer)
  BY <1>8, RecordAnswerKeeps
<1>9. CASE UNCHANGED proposalVars
  BY <1>9 DEF proposalVars, ProposalsIInv, ProposalsTypeOK, SentIsApproved, DraftingIInv,
              CurrentVersion, VersionsIInv, SendingIInv
<1> QED BY <1>1, <1>2, <1>3, <1>4, <1>5, <1>6, <1>7, <1>8, <1>9
        DEF ProposalsNext, ProposalGeneration, Handling

\* The inductive invariant holds in every state of the specification.
THEOREM ProposalsInvariance == ProposalsSpec => []ProposalsIInv
<1> QED BY ProposalsInitHolds, ProposalsNextKeeps, PTL DEF ProposalsSpec

\* However often a proposal is edited, approved, sent and declined, what the client was sent
\* is what somebody approved last, it can be told later from the versions unless an edit
\* was made at that very instant, and every version names the agreed price.
THEOREM ProposalsHoldAlways == ProposalsSpec => []ProposalsHold
<1>1. ProposalsIInv => ProposalsHold
  BY SentVersionFound, PriceFound DEF ProposalsIInv, ProposalsHold
<1> QED BY <1>1, ProposalsInvariance, PTL

---------------------------------------------------------------------------
(***************************************************************************)
(* The lead lifecycle keeps what it promises (FollowUpsHold) for every set *)
(* of leads, every spacing of the touches and every choice of channels.    *)
(***************************************************************************)

--------------------------------------------------------------------------
(* Counting weekdays.                                                      *)

WeekdaysIn(from, to) == {d \in (from + 1)..to : ~IsWeekend(d)}
Weekdays(from, to) == Cardinality(WeekdaysIn(from, to))

LEMMA WeekdaysFinite ==
    ASSUME NEW from \in Nat, NEW to \in Nat
    PROVE  IsFiniteSet(WeekdaysIn(from, to)) /\ Weekdays(from, to) \in Nat
<1>1. IsFiniteSet((from + 1)..to)
  BY FS_Interval
<1>2. IsFiniteSet(WeekdaysIn(from, to))
  BY <1>1, FS_Subset DEF WeekdaysIn
<1> QED BY <1>2, FS_CardinalityType DEF Weekdays

\* One day more is a weekday more or none.
LEMMA NextWeekday ==
    ASSUME NEW from \in Nat, NEW to \in Nat, from <= to
    PROVE  Weekdays(from, to + 1) =
             IF IsWeekend(to + 1) THEN Weekdays(from, to) ELSE Weekdays(from, to) + 1
<1>1. CASE IsWeekend(to + 1)
  <2>1. WeekdaysIn(from, to + 1) = WeekdaysIn(from, to)
    BY <1>1 DEF WeekdaysIn
  <2> QED BY <1>1, <2>1 DEF Weekdays
<1>2. CASE ~IsWeekend(to + 1)
  <2>1. WeekdaysIn(from, to + 1) = WeekdaysIn(from, to) \cup {to + 1}
    BY <1>2 DEF WeekdaysIn
  <2>2. to + 1 \notin WeekdaysIn(from, to)
    BY DEF WeekdaysIn
  <2>3. Cardinality(WeekdaysIn(from, to) \cup {to + 1}) = Cardinality(WeekdaysIn(from, to)) + 1
    BY <2>2, WeekdaysFinite, FS_AddElement
  <2> QED BY <1>2, <2>1, <2>3 DEF Weekdays
<1> QED BY <1>1, <1>2

LEMMA WeekdaysGrow ==
    ASSUME NEW from \in Nat, NEW to \in Nat, NEW later \in Nat, to <= later
    PROVE  Weekdays(from, to) <= Weekdays(from, later)
<1>1. WeekdaysIn(from, to) \subseteq WeekdaysIn(from, later)
  BY DEF WeekdaysIn
<1> QED BY <1>1, WeekdaysFinite, FS_Subset DEF Weekdays

\* No weekday has passed on the day itself.
LEMMA NoWeekdays == ASSUME NEW from \in Nat PROVE Weekdays(from, from) = 0
<1>1. WeekdaysIn(from, from) = {}
  BY DEF WeekdaysIn
<1> QED BY <1>1, FS_EmptySet DEF Weekdays

\* Three days in a row hold a weekday.
LEMMA EnoughWeekdays ==
    ASSUME NEW from \in Nat, NEW n \in Nat
    PROVE  Weekdays(from, from + 3 * n) >= n
<1> DEFINE T == {k \in Nat : ~(Weekdays(from, from + 3 * k) >= k)}
<1>1. SUFFICES ASSUME T # {} PROVE FALSE
  OBVIOUS
<1>2. PICK k \in T : \A j \in T : k <= j
  BY <1>1, LeastNumber
<1>3. k # 0
  BY <1>2, NoWeekdays
<1>4. k - 1 \in Nat /\ Weekdays(from, from + 3 * (k - 1)) >= k - 1
  BY <1>2, <1>3
<1> DEFINE a == from + 3 * (k - 1)
<1>5. a \in Nat /\ from <= a /\ a + 1 + 1 + 1 = from + 3 * k
  BY <1>4
<1> HIDE DEF a
<1>6. /\ Weekdays(from, a + 1) =
           IF IsWeekend(a + 1) THEN Weekdays(from, a) ELSE Weekdays(from, a) + 1
      /\ Weekdays(from, a + 1 + 1) =
           IF IsWeekend(a + 1 + 1) THEN Weekdays(from, a + 1) ELSE Weekdays(from, a + 1) + 1
      /\ Weekdays(from, a + 1 + 1 + 1) =
           IF IsWeekend(a + 1 + 1 + 1) THEN Weekdays(from, a + 1 + 1)
                                       ELSE Weekdays(from, a + 1 + 1) + 1
  BY <1>5, NextWeekday
<1>7. ~(IsWeekend(a + 1) /\ IsWeekend(a + 1 + 1) /\ IsWeekend(a + 1 + 1 + 1))
  BY <1>5 DEF IsWeekend
<1>8. Weekdays(from, a) \in Nat
  BY <1>5, WeekdaysFinite
<1>9. Weekdays(from, a + 1 + 1 + 1) >= Weekdays(from, a) + 1
  BY <1>6, <1>7, <1>8
<1>10. Weekdays(from, a) >= k - 1
  BY <1>4 DEF a
<1>11. ~(Weekdays(from, from + 3 * k) >= k) /\ k \in Nat
  BY <1>2
<1>12. Weekdays(from, from + 3 * k) >= Weekdays(from, a) + 1
  BY <1>5, <1>9
<1>13. from + 3 * k \in Nat
  BY <1>11
<1>14. Weekdays(from, from + 3 * k) \in Nat
  BY <1>13, WeekdaysFinite
<1> HIDE DEF T
<1> QED BY <1>8, <1>10, <1>11, <1>12, <1>14

\* The day addBusinessDays looks for exists: the first by which so many weekdays passed.
LEMMA AddedDays ==
    ASSUME NEW from \in Nat, NEW n \in Nat
    PROVE  LET day == AddBusinessDays(from, n)
           IN  day \in Nat /\ from <= day /\ Weekdays(from, day) = n
<1> DEFINE T == {d \in Nat : from <= d /\ Weekdays(from, d) >= n}
<1>1. from + 3 * n \in T
  BY EnoughWeekdays
<1>2. PICK day \in T : \A d \in T : day <= d
  BY <1>1, LeastNumber
<1>3. day \in from..(from + 3 * n + 2)
  BY <1>1, <1>2
<1>4. Weekdays(from, day) = n /\ (day = from \/ ~IsWeekend(day))
  <2>1. CASE day = from
    BY <2>1, <1>2, NoWeekdays
  <2>2. CASE day # from
    <3>1. day - 1 \in Nat /\ from <= day - 1 /\ day - 1 + 1 = day
      BY <1>2, <2>2
    <3>2. ~(Weekdays(from, day - 1) >= n)
      BY <1>2, <3>1
    <3>3. Weekdays(from, day) = IF IsWeekend(day) THEN Weekdays(from, day - 1)
                                                 ELSE Weekdays(from, day - 1) + 1
      BY <3>1, NextWeekday
    <3>4. Weekdays(from, day - 1) \in Nat
      BY <3>1, WeekdaysFinite
    <3> QED BY <1>2, <3>2, <3>3, <3>4
  <2> QED BY <2>1, <2>2
<1>5. AddBusinessDays(from, n) \in from..(from + 3 * n + 2) /\ Weekdays(from, AddBusinessDays(from, n)) = n
  BY <1>3, <1>4 DEF AddBusinessDays, Weekdays, WeekdaysIn
<1> QED BY <1>5

\* By the day a touch is due, as many weekdays have passed as the spacing asks.
LEMMA DueIsSpaced ==
    ASSUME NEW from \in Nat, NEW attempt \in DOMAIN FOLLOW_UP_SPACING_DAYS
    PROVE  /\ TouchDueAt(from, attempt) \in Nat
           /\ \A now \in Nat : TouchDueAt(from, attempt) <= now =>
                Weekdays(from, now) >= FOLLOW_UP_SPACING_DAYS[attempt]
<1> DEFINE n == FOLLOW_UP_SPACING_DAYS[attempt]
           day == AddBusinessDays(from, n)
<1>1. n \in Nat
  <2>1. FOLLOW_UP_SPACING_DAYS \in Seq(Nat)
    BY FollowUpConstants
  <2> QED BY <2>1
<1>2. day \in Nat /\ from <= day /\ Weekdays(from, day) = n
  BY <1>1, AddedDays
<1>3. NextBusinessDay(day) \in Nat /\ day <= NextBusinessDay(day)
  <2>1. day % 7 \in 0..6
    BY <1>2
  <2> QED BY <1>2, <2>1 DEF NextBusinessDay
<1>4. TouchDueAt(from, attempt) = NextBusinessDay(day)
  BY DEF TouchDueAt
<1>5. ASSUME NEW now \in Nat, NextBusinessDay(day) <= now PROVE Weekdays(from, now) >= n
  <2>1. day <= now
    BY <1>2, <1>3, <1>5
  <2>2. Weekdays(from, day) <= Weekdays(from, now)
    BY <1>2, <2>1, WeekdaysGrow
  <2> QED BY <1>1, <1>2, <2>2, WeekdaysFinite
<1> QED BY <1>3, <1>4, <1>5

--------------------------------------------------------------------------
(* What a decision to schedule stands for.                                 *)

\* A lead with a channel is given one, and the last one again only if there is no other.
LEMMA ChannelChosen ==
    ASSUME NEW l \in Leads, NEW attempt \in Nat \ {0}, NEW last, ChannelsOf(l) # << >>
    PROVE  /\ ChooseChannel(ChannelsOf(l), attempt, last) \in ToSet(ChannelsOf(l)) \ {None}
           /\ ChooseChannel(ChannelsOf(l), attempt, last) = last => Len(ChannelsOf(l)) = 1
<1> DEFINE channels == ChannelsOf(l)
           k == IF attempt < Len(channels) THEN attempt ELSE Len(channels)
           others == {i \in DOMAIN channels : channels[i] # last}
           least == CHOOSE i \in others : \A j \in others : i <= j
           chosen == ChooseChannel(channels, attempt, last)
<1>1. channels \in Seq(ToSet(channels) \ {None}) /\ IsInjective(channels)
  BY FollowUpConstants
<1>2. /\ Len(channels) \in Nat \ {0} /\ DOMAIN channels = 1..Len(channels)
      /\ \A i \in DOMAIN channels : channels[i] # None
  BY <1>1
<1>3. k \in DOMAIN channels
  BY <1>2
<1>4. chosen = IF channels[k] # last \/ others = {} THEN channels[k] ELSE channels[least]
  BY DEF ChooseChannel
<1>5. others # {} => least \in others
  <2>1. others \in SUBSET Nat
    BY <1>2
  <2>2. ASSUME others # {} PROVE \E i \in others : \A j \in others : i <= j
    BY <2>1, <2>2, LeastNumber
  <2> QED BY <2>2
<1> HIDE DEF k, least
<1>6. chosen \in ToSet(channels) \ {None}
  BY <1>2, <1>3, <1>4, <1>5 DEF ToSet
<1>7. ASSUME chosen = last PROVE Len(channels) = 1
  <2>1. others = {}
    BY <1>4, <1>5, <1>7
  <2>2. \A i, j \in DOMAIN channels : channels[i] = channels[j] => i = j
    BY <1>1 DEF IsInjective
  <2>3. 1 \in DOMAIN channels /\ \A i \in DOMAIN channels : channels[i] = last
    BY <1>2, <2>1
  <2>4. \A i \in DOMAIN channels : i = 1
    BY <2>2, <2>3
  <2> QED BY <1>2, <2>4
<1> QED BY <1>6, <1>7

LEMMA ScheduleMeans ==
    ASSUME NEW l \in Leads, workday \in Nat, lead[l].followUpsSent \in Nat,
           lead[l].lastTouchAt \in Nat \cup {None}, Decision(l, workday) = "SCHEDULE"
    PROVE  LET attempt == lead[l].followUpsSent + 1 IN
           /\ lead[l].lastReplyAt = None /\ lead[l].lastTouchAt \in Nat
           /\ attempt <= MAX_FOLLOW_UPS
           /\ Weekdays(lead[l].lastTouchAt, workday) >= FOLLOW_UP_SPACING_DAYS[attempt]
           /\ ChooseChannel(ChannelsOf(l), attempt, lead[l].lastChannel) \in ToSet(ChannelsOf(l))
           /\ ChooseChannel(ChannelsOf(l), attempt, lead[l].lastChannel) = lead[l].lastChannel
                => Len(ChannelsOf(l)) = 1
<1> DEFINE attempt == lead[l].followUpsSent + 1
           chosen == ChooseChannel(ChannelsOf(l), attempt, lead[l].lastChannel)
<1>1. /\ lead[l].lastReplyAt = None /\ lead[l].lastTouchAt # None
      /\ ~(attempt > MAX_FOLLOW_UPS)
      /\ chosen # None
      /\ ~(TouchDueAt(lead[l].lastTouchAt, attempt) > workday)
  BY DEF Decision
<1>2. FOLLOW_UP_SPACING_DAYS \in Seq(Nat)
  BY FollowUpConstants
<1>3. attempt \in DOMAIN FOLLOW_UP_SPACING_DAYS /\ attempt \in Nat \ {0} /\ attempt <= MAX_FOLLOW_UPS
  BY <1>1, <1>2 DEF MAX_FOLLOW_UPS
<1>4. lead[l].lastTouchAt \in Nat
  BY <1>1
<1>5. TouchDueAt(lead[l].lastTouchAt, attempt) \in Nat
  BY <1>3, <1>4, DueIsSpaced
<1>6. Weekdays(lead[l].lastTouchAt, workday) >= FOLLOW_UP_SPACING_DAYS[attempt]
  <2>1. TouchDueAt(lead[l].lastTouchAt, attempt) <= workday
    BY <1>1, <1>5
  <2> QED BY <2>1, <1>3, <1>4, DueIsSpaced
<1>7. ChannelsOf(l) # << >>
  BY <1>1 DEF ChooseChannel
<1>8. /\ chosen \in ToSet(ChannelsOf(l))
      /\ chosen = lead[l].lastChannel => Len(ChannelsOf(l)) = 1
  BY <1>3, <1>7, ChannelChosen
<1> QED BY <1>1, <1>3, <1>4, <1>6, <1>8

--------------------------------------------------------------------------
(* The inductive invariant, lead by lead.                                  *)

Channels == UNION {ToSet(ChannelsOf(l)) : l \in Leads}

LeadRecords ==
    [stage : Stages, lastTouchAt : Nat \cup {None},
     lastReplyAt : Nat \cup {None}, hasUnreadReply : BOOLEAN, followUpsSent : 0..MAX_FOLLOW_UPS,
     lastChannel : Channels \cup {None}, unsubscribed : BOOLEAN, pausedFrom : Pipeline \cup {None}]

RecordIInv(x) ==
    /\ x \in LeadRecords
    /\ x.hasUnreadReply => x.lastReplyAt # None

\* The touches that went out so far are those the record of the lead counts.
TouchIInv(l, x, sent, now) ==
    /\ sent \in Seq(ToSet(sent))
    /\ x.lastTouchAt = None => sent = << >> /\ x.followUpsSent = 0
    /\ x.lastTouchAt # None =>
         /\ ChannelsOf(l) # << >>
         /\ x.lastTouchAt \in 0..now
         /\ Len(sent) = x.followUpsSent + 1
         /\ sent[Len(sent)].on = x.lastTouchAt
         /\ sent[Len(sent)].channel = x.lastChannel
    /\ \A i \in DOMAIN sent :
         /\ sent[i].attempt = i - 1
         /\ sent[i].attempt > 0 => ~sent[i].replied
    /\ \A i \in 2..Len(sent) :
         /\ Weekdays(sent[i - 1].on, sent[i].on) >= FOLLOW_UP_SPACING_DAYS[i - 1]
         /\ sent[i].channel = sent[i - 1].channel => Len(ChannelsOf(l)) = 1

IsPlan(plan) ==
    plan = [attempt |-> plan.attempt, authorized |-> plan.authorized, channel |-> plan.channel]

\* What is scheduled is the next touch of a lead that has not replied, and is due.
PlanIInv(l, x, plan, now) ==
    /\ x.lastReplyAt # None => plan = None
    /\ x.lastTouchAt = None => plan = None
    /\ plan # None =>
         /\ IsPlan(plan)
         /\ plan.attempt = x.followUpsSent + 1
         /\ plan.attempt <= MAX_FOLLOW_UPS
         /\ Weekdays(x.lastTouchAt, now) >= FOLLOW_UP_SPACING_DAYS[plan.attempt]
         /\ plan.channel \in ToSet(ChannelsOf(l))
         /\ plan.channel = x.lastChannel => Len(ChannelsOf(l)) = 1

\* The last entry is a person's authorisation of the attempt.
LastApproves(entries, attempt) == entries # << >> /\ Approves(entries[Len(entries)], attempt)

\* The trail tells of one touch that it was authorised exactly if it was.
ToldOf(touch, entries) ==
    /\ touch.entry \in DOMAIN entries
    /\ entries[touch.entry].kind = "FOLLOW_UP_SENT"
    /\ touch.authorized <=> touch.entry > 1 /\ Approves(entries[touch.entry - 1], touch.attempt)

\* The last entry authorises what is scheduled exactly if that is authorised, and nothing
\* that is still to be proposed.
TrailIInv(x, plan, sent, entries) ==
    /\ entries \in Seq(ToSet(entries))
    /\ (plan = None /\ x.lastReplyAt = None /\ entries # << >>) =>
         entries[Len(entries)].kind # "FOLLOW_UP_AUTHORIZED"
    /\ plan # None => (plan.authorized <=> LastApproves(entries, plan.attempt))
    /\ \A i \in DOMAIN sent : sent[i].attempt > 0 => ToldOf(sent[i], entries)

LeadIInv(l) ==
    /\ RecordIInv(lead[l])
    /\ TouchIInv(l, lead[l], touches[l], workday)
    /\ PlanIInv(l, lead[l], scheduled[l], workday)
    /\ TrailIInv(lead[l], scheduled[l], touches[l], trail[l])

\* The inductive invariant of the lead lifecycle.
FollowUpsIInv ==
    /\ workday \in 0..MaxDay
    /\ lead = [l \in Leads |-> lead[l]]
    /\ scheduled = [l \in Leads |-> scheduled[l]]
    /\ touches = [l \in Leads |-> touches[l]]
    /\ trail = [l \in Leads |-> trail[l]]
    /\ \A l \in Leads : LeadIInv(l)

--------------------------------------------------------------------------
LEMMA PipelineIs ==
    Pipeline = {"NEW", "RESEARCHED", "CONTACTED", "REPLIED", "QUALIFIED", "PROPOSAL_SENT"}
BY DEF Pipeline, PIPELINE_ORDER, Range

LEMMA SpacingFacts ==
    /\ MAX_FOLLOW_UPS \in Nat /\ DOMAIN FOLLOW_UP_SPACING_DAYS = 1..MAX_FOLLOW_UPS
    /\ \A i \in 1..MAX_FOLLOW_UPS : FOLLOW_UP_SPACING_DAYS[i] \in Nat
<1>1. FOLLOW_UP_SPACING_DAYS \in Seq(Nat)
  BY FollowUpConstants
<1> QED BY <1>1 DEF MAX_FOLLOW_UPS

LEMMA FollowUpsInitHolds == FollowUpsInit => FollowUpsIInv
<1> SUFFICES ASSUME FollowUpsInit PROVE FollowUpsIInv
  OBVIOUS
<1>1. MAX_FOLLOW_UPS \in Nat
  BY SpacingFacts
<1>2. ASSUME NEW l \in Leads PROVE LeadIInv(l)
  <2>1. /\ lead[l] = [stage |-> "NEW", lastTouchAt |-> None,
                      lastReplyAt |-> None, hasUnreadReply |-> FALSE, followUpsSent |-> 0,
                      lastChannel |-> None, unsubscribed |-> FALSE, pausedFrom |-> None]
        /\ scheduled[l] = None /\ touches[l] = << >> /\ trail[l] = << >>
    BY DEF FollowUpsInit
  <2>2. RecordIInv(lead[l])
    BY <1>1, <2>1, PipelineIs DEF RecordIInv, LeadRecords, Stages
  <2>3. TouchIInv(l, lead[l], touches[l], workday)
    BY <2>1 DEF TouchIInv
  <2>4. /\ PlanIInv(l, lead[l], scheduled[l], workday)
        /\ TrailIInv(lead[l], scheduled[l], touches[l], trail[l])
    BY <2>1 DEF PlanIInv, TrailIInv
  <2> QED BY <2>2, <2>3, <2>4 DEF LeadIInv
<1>3. workday \in 0..MaxDay
  <2>1. MaxDay \in Nat
    BY FollowUpConstants
  <2> QED BY <2>1 DEF FollowUpsInit
<1>4. /\ lead = [l \in Leads |-> lead[l]] /\ scheduled = [l \in Leads |-> scheduled[l]]
      /\ touches = [l \in Leads |-> touches[l]] /\ trail = [l \in Leads |-> trail[l]]
  BY DEF FollowUpsInit
<1> QED BY <1>2, <1>3, <1>4 DEF FollowUpsIInv

LEMMA WorkdayIsNat == FollowUpsIInv => workday \in Nat /\ None \notin Nat
<1>1. MaxDay \in Nat /\ None \notin Nat
  BY FollowUpConstants
<1> QED BY <1>1 DEF FollowUpsIInv

\* A step of one lead leaves the others alone.
LEMMA LeadStepKeeps ==
    ASSUME FollowUpsIInv, UNCHANGED workday, NEW l \in Leads, NEW x, NEW plan, NEW sent, NEW entries,
           lead' = [lead EXCEPT ![l] = x], scheduled' = [scheduled EXCEPT ![l] = plan],
           touches' = [touches EXCEPT ![l] = sent], trail' = [trail EXCEPT ![l] = entries],
           RecordIInv(x), TouchIInv(l, x, sent, workday), PlanIInv(l, x, plan, workday),
           TrailIInv(x, plan, sent, entries)
    PROVE  FollowUpsIInv'
<1>1. /\ lead' = [m \in Leads |-> IF m = l THEN x ELSE lead[m]]
      /\ scheduled' = [m \in Leads |-> IF m = l THEN plan ELSE scheduled[m]]
      /\ touches' = [m \in Leads |-> IF m = l THEN sent ELSE touches[m]]
      /\ trail' = [m \in Leads |-> IF m = l THEN entries ELSE trail[m]]
  BY DEF FollowUpsIInv
<1>2. LeadIInv(l)'
  BY <1>1 DEF LeadIInv
<1>3. ASSUME NEW m \in Leads, m # l PROVE LeadIInv(m)'
  <2>1. /\ lead'[m] = lead[m] /\ scheduled'[m] = scheduled[m]
        /\ touches'[m] = touches[m] /\ trail'[m] = trail[m]
    BY <1>1, <1>3
  <2>2. LeadIInv(m)
    BY DEF FollowUpsIInv
  <2> QED BY <2>1, <2>2 DEF LeadIInv
<1>4. \A m \in Leads : LeadIInv(m)'
  BY <1>2, <1>3
<1> QED BY <1>1, <1>4 DEF FollowUpsIInv

\* What a step leaves alone, written as a step of the lead.
LEMMA AloneIsSame ==
    ASSUME FollowUpsIInv, NEW l \in Leads
    PROVE  /\ lead = [lead EXCEPT ![l] = lead[l]]
           /\ scheduled = [scheduled EXCEPT ![l] = scheduled[l]]
           /\ touches = [touches EXCEPT ![l] = touches[l]]
           /\ trail = [trail EXCEPT ![l] = trail[l]]
BY DEF FollowUpsIInv

\* A step of the record that the touches and the plan do not notice.
LEMMA RecordStepKeeps ==
    ASSUME FollowUpsIInv, NEW l \in Leads, NEW x, lead' = [lead EXCEPT ![l] = x],
           UNCHANGED <<workday, scheduled, touches, trail>>, RecordIInv(x),
           x.lastTouchAt = lead[l].lastTouchAt, x.lastReplyAt = lead[l].lastReplyAt,
           x.followUpsSent = lead[l].followUpsSent, x.lastChannel = lead[l].lastChannel
    PROVE  FollowUpsIInv'
<1>1. LeadIInv(l)
  BY DEF FollowUpsIInv
<1>2. TouchIInv(l, x, touches[l], workday)
  BY <1>1 DEF LeadIInv, TouchIInv
<1>3. PlanIInv(l, x, scheduled[l], workday)
  BY <1>1 DEF LeadIInv, PlanIInv
<1>4. TrailIInv(x, scheduled[l], touches[l], trail[l])
  BY <1>1 DEF LeadIInv, TrailIInv
<1> QED BY <1>2, <1>3, <1>4, AloneIsSame, LeadStepKeeps

LEMMA StagesAre ==
    Stages = {"NEW", "RESEARCHED", "CONTACTED", "REPLIED", "QUALIFIED", "PROPOSAL_SENT", "WON",
              "LOST", "PAUSED"}
BY PipelineIs DEF Stages, TERMINAL_STAGES

\* Another stage, another stage to return to.
LEMMA StageStepKeeps ==
    ASSUME FollowUpsIInv, NEW l \in Leads, NEW to \in Stages, NEW from \in Pipeline \cup {None},
           lead' = [lead EXCEPT ![l].stage = to, ![l].pausedFrom = from],
           UNCHANGED <<workday, scheduled, touches, trail>>
    PROVE  FollowUpsIInv'
<1> DEFINE x == lead[l]
           y == [x EXCEPT !.stage = to, !.pausedFrom = from]
<1>1. RecordIInv(x)
  BY DEF FollowUpsIInv, LeadIInv
<1>2. lead' = [lead EXCEPT ![l] = y]
  BY DEF FollowUpsIInv
<1>3. /\ y \in LeadRecords /\ y.hasUnreadReply = x.hasUnreadReply
      /\ y.lastTouchAt = x.lastTouchAt /\ y.lastReplyAt = x.lastReplyAt
      /\ y.followUpsSent = x.followUpsSent /\ y.lastChannel = x.lastChannel
  <2> HIDE DEF x
  <2> QED BY <1>1 DEF RecordIInv, LeadRecords
<1> HIDE DEF y
<1>4. RecordIInv(y)
  BY <1>1, <1>3 DEF RecordIInv
<1> QED BY <1>2, <1>3, <1>4, RecordStepKeeps

LEMMA MoveToKeeps ==
    ASSUME FollowUpsIInv, NEW l \in Leads, NEW to \in Stages, MoveTo(l, to)
    PROVE  FollowUpsIInv'
BY StageStepKeeps DEF MoveTo

LEMMA PauseKeeps == ASSUME FollowUpsIInv, NEW l \in Leads, Pause(l) PROVE FollowUpsIInv'
<1>1. lead[l].stage \in Stages
  BY DEF FollowUpsIInv, LeadIInv, RecordIInv, LeadRecords
<1>2. lead[l].stage \in Pipeline /\ "PAUSED" \in Stages
  BY <1>1, StagesAre, PipelineIs DEF Pause, CanTransition, STAGE_TRANSITIONS
<1> QED BY <1>2, StageStepKeeps DEF Pause

LEMMA ResumeKeeps == ASSUME FollowUpsIInv, NEW l \in Leads, Resume(l) PROVE FollowUpsIInv'
<1>1. Resumed(l) \in Pipeline /\ Pipeline \subseteq Stages
  BY DEF Resume, Stages
<1> QED BY <1>1, StageStepKeeps DEF Resume

LEMMA AnswerReplyKeeps ==
    ASSUME FollowUpsIInv, NEW l \in Leads, AnswerReply(l) \/ Unsubscribe(l) PROVE FollowUpsIInv'
<1> DEFINE x == lead[l]
<1>1. RecordIInv(x)
  BY DEF FollowUpsIInv, LeadIInv
<1>2. x \in LeadRecords
  BY <1>1 DEF RecordIInv
<1>3. CASE AnswerReply(l)
  <2> DEFINE y == [x EXCEPT !.hasUnreadReply = FALSE]
  <2>1. lead' = [lead EXCEPT ![l] = y] /\ UNCHANGED <<workday, scheduled, touches, trail>>
    BY <1>3 DEF AnswerReply
  <2>2. /\ y \in LeadRecords /\ ~y.hasUnreadReply
        /\ y.lastTouchAt = x.lastTouchAt /\ y.lastReplyAt = x.lastReplyAt
        /\ y.followUpsSent = x.followUpsSent /\ y.lastChannel = x.lastChannel
    BY <1>2 DEF LeadRecords
  <2>3. RecordIInv(y)
    BY <1>1, <2>2 DEF RecordIInv
  <2> QED BY <2>1, <2>2, <2>3, RecordStepKeeps
<1>4. CASE Unsubscribe(l)
  <2> DEFINE y == [x EXCEPT !.unsubscribed = TRUE]
  <2>1. lead' = [lead EXCEPT ![l] = y] /\ UNCHANGED <<workday, scheduled, touches, trail>>
    BY <1>4 DEF Unsubscribe
  <2>2. /\ y \in LeadRecords /\ y.hasUnreadReply = x.hasUnreadReply
        /\ y.lastTouchAt = x.lastTouchAt /\ y.lastReplyAt = x.lastReplyAt
        /\ y.followUpsSent = x.followUpsSent /\ y.lastChannel = x.lastChannel
    BY <1>2 DEF LeadRecords
  <2>3. RecordIInv(y)
    BY <1>1, <2>2 DEF RecordIInv
  <2> QED BY <2>1, <2>2, <2>3, RecordStepKeeps
<1> QED BY <1>3, <1>4

\* A reply ends what was scheduled.
LEMMA LeadRepliesKeeps == ASSUME FollowUpsIInv, NEW l \in Leads, LeadReplies(l) PROVE FollowUpsIInv'
<1> DEFINE x == lead[l]
           to == IF x.stage = "CONTACTED" THEN "REPLIED" ELSE x.stage
           z == [x EXCEPT !.stage = to, !.lastReplyAt = workday, !.hasUnreadReply = TRUE]
<1>1. LeadIInv(l) /\ RecordIInv(x) /\ x \in LeadRecords
  BY DEF FollowUpsIInv, LeadIInv, RecordIInv
<1>2. /\ lead' = [lead EXCEPT ![l] = z]
      /\ scheduled' = [scheduled EXCEPT ![l] = None]
      /\ UNCHANGED <<workday, touches, trail>>
  BY DEF LeadReplies, CancelledOnReply, FollowUpsIInv
<1>3. to \in Stages
  BY <1>1, StagesAre DEF LeadRecords
<1>4. workday \in Nat /\ None \notin Nat
  BY WorkdayIsNat
<1> HIDE DEF x, to
<1>5. /\ z \in LeadRecords
      /\ z.lastTouchAt = x.lastTouchAt /\ z.lastReplyAt = workday
      /\ z.followUpsSent = x.followUpsSent /\ z.lastChannel = x.lastChannel
  BY <1>1, <1>3, <1>4 DEF LeadRecords
<1> HIDE DEF z
<1>6. RecordIInv(z)
  BY <1>4, <1>5 DEF RecordIInv
<1>7. TouchIInv(l, z, touches[l], workday)
  BY <1>1, <1>5 DEF LeadIInv, TouchIInv, x
<1>8. PlanIInv(l, z, None, workday)
  BY DEF PlanIInv
<1>9. TrailIInv(z, None, touches[l], trail[l])
  BY <1>1, <1>4, <1>5 DEF LeadIInv, TrailIInv
<1> QED BY <1>2, <1>6, <1>7, <1>8, <1>9, AloneIsSame, LeadStepKeeps

\* What is proposed is due, and nobody authorised it yet.
LEMMA ProposeKeeps == ASSUME FollowUpsIInv, NEW l \in Leads, Propose(l) PROVE FollowUpsIInv'
<1> DEFINE x == lead[l]
           attempt == x.followUpsSent + 1
           chosen == ChooseChannel(ChannelsOf(l), attempt, x.lastChannel)
           plan == [attempt |-> attempt, authorized |-> FALSE, channel |-> chosen]
<1>1. LeadIInv(l) /\ x \in LeadRecords
  BY DEF FollowUpsIInv, LeadIInv, RecordIInv
<1>2. /\ scheduled[l] = None /\ Decision(l, workday) = "SCHEDULE"
      /\ scheduled' = [scheduled EXCEPT ![l] = plan]
      /\ UNCHANGED <<workday, lead, touches, trail>>
  BY DEF Propose
<1>3. workday \in Nat /\ None \notin Nat
  <2>1. MaxDay \in Nat /\ None \notin Nat
    BY FollowUpConstants
  <2> QED BY <2>1 DEF FollowUpsIInv
<1>4. x.followUpsSent \in Nat /\ x.lastTouchAt \in Nat \cup {None}
  BY <1>1, SpacingFacts DEF LeadRecords
<1>5. /\ x.lastReplyAt = None /\ x.lastTouchAt \in Nat
      /\ attempt <= MAX_FOLLOW_UPS
      /\ Weekdays(x.lastTouchAt, workday) >= FOLLOW_UP_SPACING_DAYS[attempt]
      /\ chosen \in ToSet(ChannelsOf(l))
      /\ chosen = x.lastChannel => Len(ChannelsOf(l)) = 1
  BY <1>2, <1>3, <1>4, ScheduleMeans
<1>6. PlanIInv(l, x, plan, workday)
  BY <1>3, <1>5 DEF PlanIInv, IsPlan
<1>7. TrailIInv(x, plan, touches[l], trail[l])
  <2>1. TrailIInv(x, None, touches[l], trail[l])
    BY <1>1, <1>2 DEF LeadIInv
  <2>2. ~LastApproves(trail[l], attempt)
    BY <1>5, <2>1 DEF TrailIInv, LastApproves, Approves
  <2> QED BY <2>1, <2>2 DEF TrailIInv
<1>8. RecordIInv(x) /\ TouchIInv(l, x, touches[l], workday)
  BY <1>1 DEF LeadIInv
<1> QED BY <1>2, <1>6, <1>7, <1>8, AloneIsSame, LeadStepKeeps

\* One entry more in the trail of a lead.
LEMMA TrailGrows ==
    ASSUME NEW entries, entries \in Seq(ToSet(entries)), NEW e
    PROVE  LET after == Append(entries, e)
           IN  /\ after \in Seq(ToSet(after)) /\ after # << >>
               /\ Len(after) = Len(entries) + 1 /\ Len(entries) \in Nat
               /\ DOMAIN after = 1..Len(entries) + 1
               /\ after[Len(entries) + 1] = e
               /\ \A i \in 1..Len(entries) : after[i] = entries[i]
               /\ \A touch : ToldOf(touch, entries) => ToldOf(touch, after)
<1> DEFINE n == Len(entries)
           after == Append(entries, e)
<1>2. /\ n \in Nat /\ DOMAIN entries = 1..n /\ DOMAIN after = 1..n + 1 /\ Len(after) = n + 1
      /\ after[n + 1] = e /\ \A i \in 1..n : after[i] = entries[i]
  OBVIOUS
<1>3. after \in Seq(ToSet(after)) /\ after # << >>
  <2>1. ToSet(entries) \subseteq ToSet(after) /\ e \in ToSet(after)
    BY <1>2 DEF ToSet
  <2> QED BY <1>2, <2>1
<1> HIDE DEF after
<1>4. ASSUME NEW touch, ToldOf(touch, entries) PROVE ToldOf(touch, after)
  <2>1. touch.entry \in 1..n /\ after[touch.entry] = entries[touch.entry]
    BY <1>2, <1>4 DEF ToldOf
  <2>2. touch.entry > 1 => touch.entry - 1 \in 1..n
    BY <1>2, <2>1
  <2>3. touch.entry > 1 => after[touch.entry - 1] = entries[touch.entry - 1]
    BY <1>2, <2>2
  <2> QED BY <1>2, <1>4, <2>1, <2>3 DEF ToldOf
<1> QED BY <1>2, <1>3, <1>4 DEF after

LEMMA AuthorizeKeeps ==
    ASSUME FollowUpsIInv, NEW l \in Leads, NEW actor, Authorize(l, actor) PROVE FollowUpsIInv'
<1> DEFINE s == scheduled[l]
           plan == [s EXCEPT !.authorized = TRUE]
           e == [kind |-> "FOLLOW_UP_AUTHORIZED", actor |-> actor, attempt |-> s.attempt]
<1>1. LeadIInv(l)
  BY DEF FollowUpsIInv
<1>2. /\ s # None /\ actor # "SYSTEM"
      /\ scheduled' = [scheduled EXCEPT ![l] = plan]
      /\ trail' = [trail EXCEPT ![l] = Append(trail[l], e)]
      /\ UNCHANGED <<workday, lead, touches>>
  BY DEF Authorize, AssertHumanActor, TrailEntry
<1>3. PlanIInv(l, lead[l], s, workday)
  BY <1>1 DEF LeadIInv
<1>4. /\ IsPlan(plan) /\ plan.attempt = s.attempt /\ plan.channel = s.channel
      /\ plan.authorized /\ plan # None
  <2>1. IsPlan(s)
    BY <1>2, <1>3 DEF PlanIInv
  <2>2. PICK q : q = plan
    OBVIOUS
  <2>3. s.attempt \in Nat /\ s.channel \in ToSet(ChannelsOf(l))
    BY <1>1, <1>2, <1>3, SpacingFacts DEF PlanIInv, LeadIInv, RecordIInv, LeadRecords
  <2> HIDE DEF s
  <2>4. q = [attempt |-> s.attempt, authorized |-> TRUE, channel |-> s.channel]
    BY <2>1, <2>2 DEF IsPlan
  <2>5. q # None
    <3>1. q \in [attempt : Nat, authorized : BOOLEAN, channel : ToSet(ChannelsOf(l))]
      BY <2>3, <2>4
    <3> QED BY <3>1, FollowUpConstants
  <2> QED BY <2>2, <2>4, <2>5 DEF IsPlan
<1> HIDE DEF plan
<1>5. PlanIInv(l, lead[l], plan, workday)
  BY <1>2, <1>3, <1>4 DEF PlanIInv
<1>6. TrailIInv(lead[l], plan, touches[l], Append(trail[l], e))
  <2> DEFINE after == Append(trail[l], e)
  <2>1. TrailIInv(lead[l], s, touches[l], trail[l])
    BY <1>1 DEF LeadIInv
  <2>2. /\ after \in Seq(ToSet(after)) /\ after # << >> /\ after[Len(after)] = e
        /\ \A touch : ToldOf(touch, trail[l]) => ToldOf(touch, after)
    BY <2>1, TrailGrows DEF TrailIInv
  <2>3. e.kind = "FOLLOW_UP_AUTHORIZED" /\ e.actor # "SYSTEM" /\ e.attempt = plan.attempt
    BY <1>2, <1>4
  <2> HIDE DEF after, e, s
  <2>4. LastApproves(after, plan.attempt)
    BY <2>2, <2>3 DEF LastApproves, Approves
  <2>5. TrailIInv(lead[l], plan, touches[l], after)
    BY <1>4, <2>1, <2>2, <2>4 DEF TrailIInv
  <2> QED BY <2>5 DEF after
<1>7. RecordIInv(lead[l]) /\ TouchIInv(l, lead[l], touches[l], workday)
  BY <1>1 DEF LeadIInv
<1> QED BY <1>2, <1>5, <1>6, <1>7, AloneIsSame, LeadStepKeeps

LEMMA DeclineKeeps ==
    ASSUME FollowUpsIInv, NEW l \in Leads, NEW actor, Decline(l, actor) PROVE FollowUpsIInv'
<1> DEFINE e == [kind |-> "FOLLOW_UP_DECLINED", actor |-> actor, attempt |-> scheduled[l].attempt]
<1>1. LeadIInv(l)
  BY DEF FollowUpsIInv
<1>2. /\ scheduled' = [scheduled EXCEPT ![l] = None]
      /\ trail' = [trail EXCEPT ![l] = Append(trail[l], e)]
      /\ UNCHANGED <<workday, lead, touches>>
  BY DEF Decline, TrailEntry
<1>3. PlanIInv(l, lead[l], None, workday)
  BY DEF PlanIInv
<1>4. TrailIInv(lead[l], None, touches[l], Append(trail[l], e))
  <2> DEFINE after == Append(trail[l], e)
  <2>1. TrailIInv(lead[l], scheduled[l], touches[l], trail[l])
    BY <1>1 DEF LeadIInv
  <2>2. /\ after \in Seq(ToSet(after)) /\ after[Len(after)] = e
        /\ \A touch : ToldOf(touch, trail[l]) => ToldOf(touch, after)
    BY <2>1, TrailGrows DEF TrailIInv
  <2>3. e.kind = "FOLLOW_UP_DECLINED"
    OBVIOUS
  <2> HIDE DEF after, e
  <2>4. TrailIInv(lead[l], None, touches[l], after)
    BY <2>1, <2>2, <2>3 DEF TrailIInv
  <2> QED BY <2>4 DEF after
<1>5. RecordIInv(lead[l]) /\ TouchIInv(l, lead[l], touches[l], workday)
  BY <1>1 DEF LeadIInv
<1> QED BY <1>2, <1>3, <1>4, <1>5, AloneIsSame, LeadStepKeeps

\* One touch more of a lead.
LEMMA TouchGrows ==
    ASSUME NEW l \in Leads, NEW x, NEW y, NEW sent, NEW now \in Nat, TouchIInv(l, x, sent, now), NEW e,
           ChannelsOf(l) # << >>, e.on = now, e.attempt = Len(sent),
           e.attempt > 0 => ~e.replied,
           Len(sent) > 0 =>
             /\ Weekdays(sent[Len(sent)].on, now) >= FOLLOW_UP_SPACING_DAYS[Len(sent)]
             /\ e.channel = sent[Len(sent)].channel => Len(ChannelsOf(l)) = 1,
           y.lastTouchAt = now, y.lastChannel = e.channel, y.followUpsSent = Len(sent)
    PROVE  TouchIInv(l, y, Append(sent, e), now)
<1> DEFINE n == Len(sent)
           after == Append(sent, e)
<1>1. sent \in Seq(ToSet(sent))
  BY DEF TouchIInv
<1>2. /\ n \in Nat /\ DOMAIN sent = 1..n /\ DOMAIN after = 1..n + 1 /\ Len(after) = n + 1
      /\ after[n + 1] = e /\ \A i \in 1..n : after[i] = sent[i]
  BY <1>1
<1>3. after \in Seq(ToSet(after))
  <2>1. ToSet(sent) \subseteq ToSet(after) /\ e \in ToSet(after)
    BY <1>2 DEF ToSet
  <2> QED BY <1>1, <2>1
<1> HIDE DEF after
<1>4. \A i \in DOMAIN after : /\ after[i].attempt = i - 1
                              /\ after[i].attempt > 0 => ~after[i].replied
  <2>1. \A i \in 1..n : /\ sent[i].attempt = i - 1
                        /\ sent[i].attempt > 0 => ~sent[i].replied
    BY <1>2 DEF TouchIInv
  <2>2. \A i \in 1..n + 1 : i \in 1..n \/ i = n + 1
    BY <1>2
  <2>3. n + 1 - 1 = n
    BY <1>2
  <2> QED BY <1>2, <2>1, <2>2, <2>3
<1>5. ASSUME NEW i \in 2..Len(after)
      PROVE  /\ Weekdays(after[i - 1].on, after[i].on) >= FOLLOW_UP_SPACING_DAYS[i - 1]
             /\ after[i].channel = after[i - 1].channel => Len(ChannelsOf(l)) = 1
  <2>1. CASE i \in 2..n
    <3>1. after[i] = sent[i] /\ after[i - 1] = sent[i - 1]
      BY <2>1, <1>2
    <3> QED BY <2>1, <3>1 DEF TouchIInv
  <2>2. CASE i = n + 1
    <3>1. n > 0 /\ i - 1 = n /\ after[i] = e /\ after[i - 1] = sent[n]
      BY <2>2, <1>2
    <3> QED BY <3>1
  <2> QED BY <2>1, <2>2, <1>2
<1>6. y.lastTouchAt # None /\ y.lastTouchAt \in 0..now
  <2>1. None \notin Nat
    BY FollowUpConstants
  <2> QED BY <2>1
<1>7. TouchIInv(l, y, after, now)
  BY <1>2, <1>3, <1>4, <1>5, <1>6 DEF TouchIInv
<1> QED BY <1>7 DEF after

LEMMA SendOpeningKeeps == ASSUME FollowUpsIInv, NEW l \in Leads, SendOpening(l) PROVE FollowUpsIInv'
<1> DEFINE x == lead[l]
           channel == Head(ChannelsOf(l))
           z == [x EXCEPT !.stage = "CONTACTED", !.lastTouchAt = workday, !.lastChannel = channel]
           e == [on |-> workday, channel |-> channel, attempt |-> 0,
                 replied |-> x.lastReplyAt # None, authorized |-> TRUE,
                 entry |-> Len(trail[l]) + 1]
<1>1. LeadIInv(l) /\ RecordIInv(x) /\ x \in LeadRecords
  BY DEF FollowUpsIInv, LeadIInv, RecordIInv
<1>2. /\ touches[l] = << >> /\ ChannelsOf(l) # << >>
      /\ lead' = [lead EXCEPT ![l] = z]
      /\ touches' = [touches EXCEPT ![l] = Append(touches[l], e)]
      /\ UNCHANGED <<workday, scheduled, trail>>
  <2>1. lead' = [lead EXCEPT ![l] = z]
    BY DEF SendOpening, FollowUpsIInv
  <2> QED BY <2>1 DEF SendOpening, Touched
<1>4. workday \in Nat /\ None \notin Nat
  BY WorkdayIsNat
<1>5. channel \in Channels
  <2>1. ChannelsOf(l) \in Seq(ToSet(ChannelsOf(l)) \ {None})
    BY FollowUpConstants
  <2>2. channel \in ToSet(ChannelsOf(l))
    BY <1>2, <2>1
  <2> QED BY <2>2 DEF Channels
<1>6. x.lastTouchAt = None
  <2>1. TouchIInv(l, x, touches[l], workday) /\ x.followUpsSent \in Nat
    BY <1>1, SpacingFacts DEF LeadIInv, LeadRecords
  <2> QED BY <1>2, <2>1 DEF TouchIInv
<1>7. x.followUpsSent = 0 /\ scheduled[l] = None
  BY <1>1, <1>6 DEF LeadIInv, TouchIInv, PlanIInv
<1>8. /\ z \in LeadRecords
      /\ z.lastTouchAt = workday /\ z.lastChannel = channel
      /\ z.lastReplyAt = x.lastReplyAt /\ z.followUpsSent = 0
      /\ z.hasUnreadReply = x.hasUnreadReply
  <2> HIDE DEF x, channel
  <2> QED BY <1>1, <1>4, <1>5, <1>7, StagesAre DEF LeadRecords
<1> HIDE DEF z
<1>9. RecordIInv(z)
  BY <1>1, <1>8 DEF RecordIInv
<1>10. TouchIInv(l, z, Append(touches[l], e), workday)
  <2>1. TouchIInv(l, x, touches[l], workday)
    BY <1>1 DEF LeadIInv, x
  <2>2. e.on = workday /\ e.channel = channel /\ e.attempt = 0 /\ Len(touches[l]) = 0
    BY <1>2
  <2>3. /\ ~(e.attempt > 0) /\ ~(Len(touches[l]) > 0) /\ e.attempt = Len(touches[l])
        /\ z.lastTouchAt = workday /\ z.lastChannel = e.channel
        /\ z.followUpsSent = Len(touches[l])
    BY <1>8, <2>2
  <2> HIDE DEF e, x, channel
  <2> QED BY <1>2, <1>4, <2>1, <2>2, <2>3, TouchGrows
<1>11. PlanIInv(l, z, scheduled[l], workday)
  BY <1>7 DEF PlanIInv
<1>12. TrailIInv(z, scheduled[l], Append(touches[l], e), trail[l])
  <2>1. TrailIInv(x, scheduled[l], touches[l], trail[l])
    BY <1>1 DEF LeadIInv
  <2>2. DOMAIN Append(touches[l], e) = {1} /\ Append(touches[l], e)[1].attempt = 0
    BY <1>2
  <2> QED BY <1>8, <2>1, <2>2 DEF TrailIInv
<1> QED BY <1>2, <1>9, <1>10, <1>11, <1>12, AloneIsSame, LeadStepKeeps

LEMMA SendFollowUpKeeps ==
    ASSUME FollowUpsIInv, NEW l \in Leads, NEW actor, SendFollowUp(l, actor) PROVE FollowUpsIInv'
<1> DEFINE x == lead[l]
           s == scheduled[l]
           z == [x EXCEPT !.lastTouchAt = workday, !.lastChannel = s.channel,
                          !.followUpsSent = @ + 1]
           e == [on |-> workday, channel |-> s.channel, attempt |-> s.attempt,
                 replied |-> x.lastReplyAt # None, authorized |-> s.authorized,
                 entry |-> Len(trail[l]) + 1]
           entry == [kind |-> "FOLLOW_UP_SENT", actor |-> actor, attempt |-> None]
<1>1. LeadIInv(l) /\ RecordIInv(x) /\ x \in LeadRecords
  BY DEF FollowUpsIInv, LeadIInv, RecordIInv
<1>2. /\ s # None
      /\ lead' = [lead EXCEPT ![l] = z]
      /\ touches' = [touches EXCEPT ![l] = Append(touches[l], e)]
      /\ trail' = [trail EXCEPT ![l] = Append(trail[l], entry)]
      /\ scheduled' = [scheduled EXCEPT ![l] = None]
      /\ UNCHANGED workday
  <2>1. lead' = [lead EXCEPT ![l] = z]
    BY DEF SendFollowUp, FollowUpsIInv
  <2> QED BY <2>1 DEF SendFollowUp, Touched, TrailEntry
<1>3. workday \in Nat /\ None \notin Nat
  BY WorkdayIsNat
<1>4. /\ x.lastReplyAt = None /\ x.lastTouchAt # None
      /\ s.attempt = x.followUpsSent + 1 /\ s.attempt <= MAX_FOLLOW_UPS
      /\ Weekdays(x.lastTouchAt, workday) >= FOLLOW_UP_SPACING_DAYS[s.attempt]
      /\ s.channel \in Channels
      /\ s.channel = x.lastChannel => Len(ChannelsOf(l)) = 1
  BY <1>1, <1>2 DEF LeadIInv, PlanIInv, Channels
<1>5. TouchIInv(l, x, touches[l], workday)
  BY <1>1 DEF LeadIInv
<1>6. /\ ChannelsOf(l) # << >>
      /\ Len(touches[l]) = s.attempt
      /\ touches[l][Len(touches[l])].on = x.lastTouchAt
      /\ touches[l][Len(touches[l])].channel = x.lastChannel
  BY <1>4, <1>5 DEF TouchIInv
<1>7. x.followUpsSent \in 0..MAX_FOLLOW_UPS /\ x.followUpsSent + 1 \in 0..MAX_FOLLOW_UPS
  BY <1>1, <1>4, SpacingFacts DEF LeadRecords
<1>8. /\ z \in LeadRecords
      /\ z.lastTouchAt = workday /\ z.lastChannel = s.channel
      /\ z.lastReplyAt = x.lastReplyAt /\ z.followUpsSent = x.followUpsSent + 1
      /\ z.hasUnreadReply = x.hasUnreadReply
  <2> HIDE DEF x, s
  <2> QED BY <1>1, <1>3, <1>4, <1>7 DEF LeadRecords
<1> HIDE DEF z
<1>9. RecordIInv(z)
  BY <1>1, <1>8 DEF RecordIInv
<1>10. TouchIInv(l, z, Append(touches[l], e), workday)
  <2>1. /\ e.on = workday /\ e.channel = s.channel /\ e.attempt = s.attempt
        /\ ~e.replied
    BY <1>4
  <2> HIDE DEF e
  <2> QED BY <1>3, <1>4, <1>5, <1>6, <1>8, <2>1, TouchGrows
<1>11. PlanIInv(l, z, None, workday)
  BY DEF PlanIInv
<1>12. TrailIInv(z, None, Append(touches[l], e), Append(trail[l], entry))
  <2> DEFINE n == Len(trail[l])
             after == Append(trail[l], entry)
             sent == Append(touches[l], e)
  <2>1. TrailIInv(x, s, touches[l], trail[l])
    BY <1>1 DEF LeadIInv
  <2>2. /\ after \in Seq(ToSet(after)) /\ n \in Nat /\ Len(after) = n + 1
        /\ DOMAIN after = 1..n + 1 /\ after[n + 1] = entry
        /\ \A i \in 1..n : after[i] = trail[l][i]
        /\ \A touch : ToldOf(touch, trail[l]) => ToldOf(touch, after)
    BY <2>1, TrailGrows DEF TrailIInv
  <2>3. entry.kind = "FOLLOW_UP_SENT"
    OBVIOUS
  <2>4. e.entry = n + 1 /\ e.attempt = s.attempt /\ e.authorized = s.authorized
    OBVIOUS
  <2>5. \A i \in DOMAIN sent : sent[i] = e \/ (i \in DOMAIN touches[l] /\ sent[i] = touches[l][i])
    <3>1. touches[l] \in Seq(ToSet(touches[l]))
      BY <1>5 DEF TouchIInv
    <3> QED BY <3>1
  <2>6. s.authorized <=> n > 0 /\ Approves(trail[l][n], s.attempt)
    <3>1. s.authorized <=> LastApproves(trail[l], s.attempt)
      BY <1>2, <2>1 DEF TrailIInv
    <3>2. trail[l] # << >> <=> n > 0
      BY <2>1 DEF TrailIInv
    <3> QED BY <3>1, <3>2 DEF LastApproves
  <2> HIDE DEF n, after, sent, e, entry, s
  <2>7. ToldOf(e, after)
    <3>1. n > 0 => after[n + 1 - 1] = trail[l][n]
      BY <2>2
    <3>2. n + 1 > 1 <=> n > 0
      BY <2>2
    <3> QED BY <2>2, <2>3, <2>4, <2>6, <3>1, <3>2 DEF ToldOf
  <2>8. \A i \in DOMAIN sent : sent[i].attempt > 0 => ToldOf(sent[i], after)
    BY <2>1, <2>2, <2>5, <2>7 DEF TrailIInv
  <2>9. TrailIInv(z, None, sent, after)
    BY <2>2, <2>3, <2>8 DEF TrailIInv
  <2> QED BY <2>9 DEF sent, after, n
<1> QED BY <1>2, <1>9, <1>10, <1>11, <1>12, LeadStepKeeps

LEMMA DaysPassKeeps == ASSUME FollowUpsIInv, NEW n \in DaySteps, DaysPass(n) PROVE FollowUpsIInv'
<1>1. /\ workday + n <= MaxDay /\ workday' = workday + n
      /\ UNCHANGED <<lead, scheduled, touches, trail>>
  BY DEF DaysPass
<1>2. n \in Nat /\ MaxDay \in Nat /\ None \notin Nat
  BY FollowUpConstants
<1>3. workday \in Nat /\ workday' \in 0..MaxDay /\ workday' \in Nat /\ workday <= workday'
  BY <1>1, <1>2 DEF FollowUpsIInv
<1>4. ASSUME NEW l \in Leads PROVE LeadIInv(l)'
  <2>1. LeadIInv(l)
    BY DEF FollowUpsIInv
  <2>2. TouchIInv(l, lead[l], touches[l], workday)'
    <3>1. TouchIInv(l, lead[l], touches[l], workday)
      BY <2>1 DEF LeadIInv
    <3>2. 0..workday \subseteq 0..workday'
      BY <1>3
    <3>3. TouchIInv(l, lead[l], touches[l], workday')
      BY <3>1, <3>2 DEF TouchIInv
    <3> QED BY <1>1, <3>3
  <2>3. PlanIInv(l, lead[l], scheduled[l], workday)'
    <3>1. CASE scheduled[l] = None
      BY <3>1, <1>1 DEF PlanIInv
    <3>2. CASE scheduled[l] # None
      <4>1. PlanIInv(l, lead[l], scheduled[l], workday) /\ lead[l].lastTouchAt \in Nat
        BY <2>1, <3>2 DEF LeadIInv, PlanIInv, RecordIInv, LeadRecords
      <4>2. /\ Weekdays(lead[l].lastTouchAt, workday) <= Weekdays(lead[l].lastTouchAt, workday')
            /\ Weekdays(lead[l].lastTouchAt, workday) \in Nat
            /\ Weekdays(lead[l].lastTouchAt, workday') \in Nat
        BY <1>3, <4>1, WeekdaysGrow, WeekdaysFinite
      <4>3. scheduled[l].attempt \in 1..MAX_FOLLOW_UPS
        <5>1. lead[l].followUpsSent \in Nat
          BY <2>1, SpacingFacts DEF LeadIInv, RecordIInv, LeadRecords
        <5> QED BY <3>2, <4>1, <5>1, SpacingFacts DEF PlanIInv
      <4>4. FOLLOW_UP_SPACING_DAYS[scheduled[l].attempt] \in Nat
        BY <4>3, SpacingFacts
      <4>5. Weekdays(lead[l].lastTouchAt, workday') >= FOLLOW_UP_SPACING_DAYS[scheduled[l].attempt]
        BY <3>2, <4>1, <4>2, <4>4 DEF PlanIInv
      <4> QED BY <1>1, <3>2, <4>1, <4>5 DEF PlanIInv
    <3> QED BY <3>1, <3>2
  <2>4. RecordIInv(lead[l])' /\ TrailIInv(lead[l], scheduled[l], touches[l], trail[l])'
    BY <1>1, <2>1 DEF LeadIInv
  <2> QED BY <2>2, <2>3, <2>4 DEF LeadIInv
<1> QED BY <1>1, <1>3, <1>4 DEF FollowUpsIInv

--------------------------------------------------------------------------
(* What the invariant says.                                                *)

LEMMA TouchesFound == FollowUpsIInv => NoTouchAfterReply /\ TouchesAreSpaced
<1> SUFFICES ASSUME FollowUpsIInv, NEW l \in Leads
             PROVE  /\ \A i \in DOMAIN touches[l] :
                         touches[l][i].attempt > 0 => ~touches[l][i].replied
                    /\ Len(touches[l]) <= MAX_FOLLOW_UPS + 1
                    /\ \A i \in 2..Len(touches[l]) :
                         LET before == touches[l][i - 1]
                             this == touches[l][i]
                         IN  /\ this.attempt = i - 1
                             /\ Cardinality({d \in (before.on + 1)..this.on : ~IsWeekend(d)})
                                   >= FOLLOW_UP_SPACING_DAYS[this.attempt]
                             /\ this.channel = before.channel => Len(ChannelsOf(l)) = 1
  BY DEF NoTouchAfterReply, TouchesAreSpaced
<1> DEFINE sent == touches[l]
<1>1. TouchIInv(l, lead[l], sent, workday) /\ lead[l].followUpsSent \in 0..MAX_FOLLOW_UPS
  BY DEF FollowUpsIInv, LeadIInv, RecordIInv, LeadRecords
<1>2. Len(sent) <= MAX_FOLLOW_UPS + 1
  BY <1>1, SpacingFacts DEF TouchIInv
<1>3. \A i \in DOMAIN sent : /\ sent[i].attempt = i - 1
                             /\ sent[i].attempt > 0 => ~sent[i].replied
  BY <1>1 DEF TouchIInv
<1>4. ASSUME NEW i \in 2..Len(sent)
      PROVE  /\ sent[i].attempt = i - 1
             /\ Cardinality({d \in (sent[i - 1].on + 1)..sent[i].on : ~IsWeekend(d)})
                   >= FOLLOW_UP_SPACING_DAYS[sent[i].attempt]
             /\ sent[i].channel = sent[i - 1].channel => Len(ChannelsOf(l)) = 1
  <2>1. i \in DOMAIN sent
    <3>1. sent \in Seq(ToSet(sent))
      BY <1>1 DEF TouchIInv
    <3> QED BY <3>1
  <2>2. sent[i].attempt = i - 1
    BY <1>3, <2>1
  <2>3. /\ Weekdays(sent[i - 1].on, sent[i].on) >= FOLLOW_UP_SPACING_DAYS[i - 1]
        /\ sent[i].channel = sent[i - 1].channel => Len(ChannelsOf(l)) = 1
    BY <1>1 DEF TouchIInv
  <2> QED BY <2>2, <2>3 DEF Weekdays, WeekdaysIn
<1> HIDE DEF sent
<1>5. \A i \in DOMAIN sent : sent[i].attempt > 0 => ~sent[i].replied
  BY <1>3
<1> QED BY <1>2, <1>4, <1>5 DEF sent

LEMMA TrailFound == FollowUpsIInv => TrailTellsApproval
BY DEF FollowUpsIInv, LeadIInv, TrailIInv, ToldOf, TrailTellsApproval

LEMMA QueueFound == FollowUpsIInv => QueueAgreesWithPlan
<1> SUFFICES ASSUME FollowUpsIInv, NEW l \in Leads, lead[l].stage = "CONTACTED",
                    lead[l].lastTouchAt # None, lead[l].lastReplyAt = None, ~lead[l].unsubscribed
             PROVE  /\ NextActionFor(l) = "CLOSE_OR_DROP"
                         <=> Decision(l, workday) = "STOP_EXHAUSTED"
                    /\ NextActionFor(l) = "SEND_FOLLOW_UP" => Decision(l, workday) = "SCHEDULE"
  BY DEF QueueAgreesWithPlan
<1> DEFINE c == lead[l]
           attempt == c.followUpsSent + 1
           chosen == ChooseChannel(ChannelsOf(l), attempt, c.lastChannel)
           due == TouchDueAt(c.lastTouchAt, attempt)
<1>1. RecordIInv(c) /\ c \in LeadRecords /\ TouchIInv(l, c, touches[l], workday)
  BY DEF FollowUpsIInv, LeadIInv, RecordIInv
<1>2. /\ c.lastTouchAt # None /\ ~c.hasUnreadReply
  BY <1>1 DEF RecordIInv
<1>3. c.followUpsSent \in 0..MAX_FOLLOW_UPS /\ c.lastTouchAt \in Nat
  BY <1>1, <1>2 DEF LeadRecords
<1>4. ChannelsOf(l) # << >>
  BY <1>1, <1>2 DEF TouchIInv
<1>5. attempt \in Nat \ {0} /\ MAX_FOLLOW_UPS \in Nat
  BY <1>3, SpacingFacts
<1>6. chosen # None
  BY <1>4, <1>5, ChannelChosen
<1>7. IsActive(c.stage) /\ c.stage # "REPLIED" /\ c.stage # "PAUSED"
  BY DEF IsActive, IsTerminal, TERMINAL_STAGES
<1>8. Decision(l, workday) = IF attempt > MAX_FOLLOW_UPS THEN "STOP_EXHAUSTED"
                             ELSE IF due > workday THEN "WAIT" ELSE "SCHEDULE"
  BY <1>2, <1>6, <1>7 DEF Decision
<1>9. Exhausted(l) <=> attempt > MAX_FOLLOW_UPS
  BY <1>3, <1>5 DEF Exhausted
<1>10. CASE attempt > MAX_FOLLOW_UPS
  <2>1. NextActionFor(l) = "CLOSE_OR_DROP"
    BY <1>2, <1>7, <1>9, <1>10 DEF NextActionFor
  <2> QED BY <1>8, <1>10, <2>1
<1>11. CASE ~(attempt > MAX_FOLLOW_UPS)
  <2>1. attempt \in DOMAIN FOLLOW_UP_SPACING_DAYS
    BY <1>5, <1>11, SpacingFacts
  <2>2. due \in Nat
    BY <1>3, <2>1, DueIsSpaced
  <2>3. due # None
    <3>1. None \notin Nat
      BY FollowUpConstants
    <3> QED BY <2>2, <3>1
  <2>4. NextActionFor(l) = IF NextFollowUpDueAt(l) # None THEN "NOTHING" ELSE "SEND_FOLLOW_UP"
    BY <1>2, <1>7, <1>9, <1>11 DEF NextActionFor, STAGE_ACTION
  <2>5. NextFollowUpDueAt(l) = IF Decision(l, workday) = "WAIT" THEN due ELSE None
    BY DEF NextFollowUpDueAt
  <2> QED BY <1>8, <1>11, <2>3, <2>4, <2>5
<1> QED BY <1>10, <1>11

LEMMA FollowUpsTypes == FollowUpsIInv => FollowUpsTypeOK
BY DEF FollowUpsIInv, LeadIInv, RecordIInv, LeadRecords, FollowUpsTypeOK

--------------------------------------------------------------------------
LEMMA FollowUpsNextKeeps == FollowUpsIInv /\ [FollowUpsNext]_followUpVars => FollowUpsIInv'
<1> SUFFICES ASSUME FollowUpsIInv, [FollowUpsNext]_followUpVars PROVE FollowUpsIInv'
  OBVIOUS
<1>1. CASE \E n \in DaySteps : DaysPass(n)
  BY <1>1, DaysPassKeeps
<1>2. ASSUME NEW l \in Leads, NEW to \in Stages, MoveTo(l, to) PROVE FollowUpsIInv'
  BY <1>2, MoveToKeeps
<1>3. ASSUME NEW l \in Leads, Pause(l) \/ Resume(l) PROVE FollowUpsIInv'
  BY <1>3, PauseKeeps, ResumeKeeps
<1>4. ASSUME NEW l \in Leads, Propose(l) PROVE FollowUpsIInv'
  BY <1>4, ProposeKeeps
<1>5. ASSUME NEW l \in Leads, NEW actor \in Actors,
             Authorize(l, actor) \/ Decline(l, actor) \/ SendFollowUp(l, actor)
      PROVE  FollowUpsIInv'
  BY <1>5, AuthorizeKeeps, DeclineKeeps, SendFollowUpKeeps
<1>6. ASSUME NEW l \in Leads, SendOpening(l) \/ LeadReplies(l) PROVE FollowUpsIInv'
  BY <1>6, SendOpeningKeeps, LeadRepliesKeeps
<1>7. ASSUME NEW l \in Leads, AnswerReply(l) \/ Unsubscribe(l) PROVE FollowUpsIInv'
  BY <1>7, AnswerReplyKeeps
<1>8. CASE UNCHANGED followUpVars
  BY <1>8 DEF followUpVars, FollowUpsIInv, LeadIInv
<1> QED BY <1>1, <1>2, <1>3, <1>4, <1>5, <1>6, <1>7, <1>8 DEF FollowUpsNext

\* The inductive invariant holds in every state of the specification.
THEOREM FollowUpsInvariance == FollowUpsSpec => []FollowUpsIInv
<1> QED BY FollowUpsInitHolds, FollowUpsNextKeeps, PTL DEF FollowUpsSpec

\* Whoever replies, pauses, declines or stays silent: no follow-up goes out after a reply,
\* each one comes after the weekdays the spacing asks, the trail shows of each whether a
\* person approved it, and the queue tells the operator what the planner decided.
THEOREM FollowUpsHoldAlways == FollowUpsSpec => []FollowUpsHold
<1>1. FollowUpsIInv => FollowUpsHold
  BY FollowUpsTypes, TouchesFound, TrailFound, QueueFound DEF FollowUpsHold
<1> QED BY <1>1, FollowUpsInvariance, PTL

===========================================================================
