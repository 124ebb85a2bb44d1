---------------------------------- MODULE FollowUps ----------------------------------
(***************************************************************************)
(* The lead lifecycle of packages/core-acquisition: the stages a lead may  *)
(* move between, when and on which channel it is chased, who may authorise *)
(* it, and what the operator is told to do next.  The package is pure      *)
(* functions; the operator who calls them, and the lead who answers,       *)
(* unsubscribes or stays silent, are this module's actions.                *)
(*                                                                         *)
(* Day 0 is a Monday.  Of the audit trail the events that need a human are *)
(* kept; what a message says is left out.  The code does not say who sends *)
(* the opening message: here it goes out once, to a researched lead.       *)
(***************************************************************************)
EXTENDS Absence, Integers, Sequences, FiniteSets, SequencesExt

CONSTANTS
    Leads,
    ChannelsOf(_),           \* the channels a lead has, in the order of escalation
    FOLLOW_UP_SPACING_DAYS,  \* the code's sequence is <<3, 5, 8, 13>>
    DaySteps,                \* days that may pass at once
    MaxDay,                  \* bound: the last day
    MaxTrail                 \* bound: authorised or declined only in a trail shorter than this

\* The spacing counts days, and a lead has each channel once (availableChannels).
ASSUME FollowUpConstants ==
    /\ FOLLOW_UP_SPACING_DAYS \in Seq(Nat)
    /\ DaySteps \subseteq Nat /\ MaxDay \in Nat /\ MaxTrail \in Nat
    /\ None \notin Nat
    /\ \A l \in Leads : /\ ChannelsOf(l) \in Seq(ToSet(ChannelsOf(l)) \ {None})
                        /\ IsInjective(ChannelsOf(l))
                        /\ None \notin [attempt : Nat, authorized : BOOLEAN,
                                         channel : ToSet(ChannelsOf(l))]

PIPELINE_ORDER ==
    <<"NEW", "RESEARCHED", "CONTACTED", "REPLIED", "QUALIFIED", "PROPOSAL_SENT">>
Pipeline == Range(PIPELINE_ORDER)
TERMINAL_STAGES == {"WON", "LOST"}
Stages == Pipeline \cup TERMINAL_STAGES \cup {"PAUSED"}
Actors == {"SYSTEM", "operator"}

VARIABLES
    workday,
    lead,       \* each lead, as FollowUpContext and OpportunitySnapshot see it
    scheduled,  \* the follow-up that is scheduled for it, if any
    touches,    \* the messages that went out, each with its place in the trail: a history
    trail       \* authorisations, declined and sent follow-ups: the audit trail

followUpVars == <<workday, lead, scheduled, touches, trail>>

MAX_FOLLOW_UPS == Len(FOLLOW_UP_SPACING_DAYS)

\* Leads keep to their stages and counters to their bounds.
FollowUpsTypeOK ==
    /\ workday \in 0..MaxDay
    /\ \A l \in Leads : /\ lead[l].stage \in Stages
                        /\ lead[l].followUpsSent \in 0..MAX_FOLLOW_UPS
                        /\ lead[l].pausedFrom \in Pipeline \cup {None}

FollowUpsInit ==
    /\ workday = 0
    /\ lead = [l \in Leads |->
                 [stage |-> "NEW", lastTouchAt |-> None, lastReplyAt |-> None,
                  hasUnreadReply |-> FALSE, followUpsSent |-> 0, lastChannel |-> None,
                  unsubscribed |-> FALSE, pausedFrom |-> None]]
    /\ scheduled = [l \in Leads |-> None]
    /\ touches = [l \in Leads |-> << >>]
    /\ trail = [l \in Leads |-> << >>]

--------------------------------------------------------------------------
(* Stages.                                                                 *)

STAGE_TRANSITIONS ==
    [NEW |-> {"RESEARCHED", "LOST", "PAUSED"},
     RESEARCHED |-> {"CONTACTED", "LOST", "PAUSED"},
     CONTACTED |-> {"REPLIED", "QUALIFIED", "LOST", "PAUSED"},
     REPLIED |-> {"QUALIFIED", "CONTACTED", "LOST", "PAUSED"},
     QUALIFIED |-> {"PROPOSAL_SENT", "LOST", "PAUSED"},
     PROPOSAL_SENT |-> {"WON", "LOST", "PAUSED"},
     WON |-> {},
     LOST |-> {},
     PAUSED |-> Pipeline \cup {"LOST"}]

CanTransition(from, to) == to \in STAGE_TRANSITIONS[from]
IsTerminal(stage) == stage \in TERMINAL_STAGES
IsActive(stage) == ~IsTerminal(stage) /\ stage # "PAUSED"

\* assertTransition: the operator moves a lead along, or out of a pause to any stage but
\* WON.  Where it was paused is then of no more use.
MoveTo(l, to) ==
    /\ to # "PAUSED"
    /\ CanTransition(lead[l].stage, to)
    /\ lead' = [lead EXCEPT ![l].stage = to, ![l].pausedFrom = None]
    /\ UNCHANGED <<workday, scheduled, touches, trail>>

\* pause: the stage is remembered; the date it may name is only shown.
Pause(l) ==
    /\ CanTransition(lead[l].stage, "PAUSED")
    /\ lead' = [lead EXCEPT ![l].stage = "PAUSED", ![l].pausedFrom = lead[l].stage]
    /\ UNCHANGED <<workday, scheduled, touches, trail>>

\* resume: the stage that was remembered.
Resumed(l) == lead[l].pausedFrom

Resume(l) ==
    /\ lead[l].stage = "PAUSED"
    /\ Resumed(l) \in Pipeline
    /\ lead' = [lead EXCEPT ![l].stage = Resumed(l), ![l].pausedFrom = None]
    /\ UNCHANGED <<workday, scheduled, touches, trail>>

--------------------------------------------------------------------------
(* When the next touch is due, and on which channel.                       *)

IsWeekend(day) == day % 7 \in {5, 6}

\* addBusinessDays: the first day by which so many weekdays have passed.
AddBusinessDays(from, days) ==
    CHOOSE day \in from..(from + 3 * days + 2) :
        /\ Cardinality({d \in (from + 1)..day : ~IsWeekend(d)}) = days
        /\ day = from \/ ~IsWeekend(day)

NextBusinessDay(day) ==
    CASE day % 7 = 5 -> day + 2
      [] day % 7 = 6 -> day + 1
      [] day % 7 \in 0..4 -> day

\* planFollowUp.
TouchDueAt(lastTouchAt, attempt) ==
    NextBusinessDay(AddBusinessDays(lastTouchAt, FOLLOW_UP_SPACING_DAYS[attempt]))

\* chooseChannel: by attempt, but not the same one twice while there is another.
ChooseChannel(channels, attempt, lastChannel) ==
    LET preferred == channels[IF attempt < Len(channels) THEN attempt ELSE Len(channels)]
        others == {i \in DOMAIN channels : channels[i] # lastChannel}
    IN  IF channels = << >> THEN None
        ELSE IF preferred # lastChannel \/ others = {} THEN preferred
        ELSE channels[CHOOSE i \in others : \A j \in others : i <= j]

\* planNextFollowUp.
Decision(l, now) ==
    LET c == lead[l]
        attempt == c.followUpsSent + 1
    IN  IF c.unsubscribed THEN "STOP_UNSUBSCRIBED"
        ELSE IF c.stage = "REPLIED" \/ c.lastReplyAt # None THEN "STOP_REPLIED"
        ELSE IF c.stage = "PAUSED" THEN "STOP_PAUSED"
        ELSE IF ~IsActive(c.stage) THEN "STOP_CLOSED"
        ELSE IF c.stage # "CONTACTED" \/ c.lastTouchAt = None THEN "STOP_NOT_CONTACTED"
        ELSE IF attempt > MAX_FOLLOW_UPS THEN "STOP_EXHAUSTED"
        ELSE IF ChooseChannel(ChannelsOf(l), attempt, c.lastChannel) = None
             THEN "STOP_NO_CHANNEL"
        ELSE IF TouchDueAt(c.lastTouchAt, attempt) > now THEN "WAIT" ELSE "SCHEDULE"

--------------------------------------------------------------------------
(* A follow-up: proposed by the system, authorised and sent by a person.   *)

Propose(l) ==
    /\ scheduled[l] = None
    /\ Decision(l, workday) = "SCHEDULE"
    /\ LET attempt == lead[l].followUpsSent + 1 IN
       scheduled' = [scheduled EXCEPT ![l] =
           [attempt |-> attempt, authorized |-> FALSE,
            channel |-> ChooseChannel(ChannelsOf(l), attempt, lead[l].lastChannel)]]
    /\ UNCHANGED <<workday, lead, touches, trail>>

\* assertHumanActor, for the three kinds of entry that are HUMAN_ONLY.
AssertHumanActor(actor) == actor # "SYSTEM"

\* The entry of a sent follow-up names the message, not the attempt.
TrailEntry(l, kind, actor, attempt) ==
    [trail EXCEPT ![l] = Append(@, [kind |-> kind, actor |-> actor, attempt |-> attempt])]

\* recordAuthorization: a proposal that is authorised is still only scheduled.
Authorize(l, actor) ==
    /\ scheduled[l] # None
    /\ AssertHumanActor(actor)
    /\ Len(trail[l]) < MaxTrail
    /\ scheduled' = [scheduled EXCEPT ![l].authorized = TRUE]
    /\ trail' = TrailEntry(l, "FOLLOW_UP_AUTHORIZED", actor, scheduled[l].attempt)
    /\ UNCHANGED <<workday, lead, touches>>

\* recordDecline: also of what was authorised before.
Decline(l, actor) ==
    /\ scheduled[l] # None
    /\ AssertHumanActor(actor)
    /\ Len(trail[l]) < MaxTrail
    /\ scheduled' = [scheduled EXCEPT ![l] = None]
    /\ trail' = TrailEntry(l, "FOLLOW_UP_DECLINED", actor, scheduled[l].attempt)
    /\ UNCHANGED <<workday, lead, touches>>

Touched(l, channel, attempt, authorized) ==
    [touches EXCEPT ![l] = Append(@, [on |-> workday, channel |-> channel, attempt |-> attempt,
                                      replied |-> lead[l].lastReplyAt # None,
                                      authorized |-> authorized, entry |-> Len(trail[l]) + 1])]

\* The opening message: a lead is contacted.
SendOpening(l) ==
    /\ lead[l].stage = "RESEARCHED"
    /\ touches[l] = << >>
    /\ ~lead[l].unsubscribed
    /\ ChannelsOf(l) # << >>
    /\ lead' = [lead EXCEPT ![l].stage = "CONTACTED", ![l].lastTouchAt = workday,
                            ![l].lastChannel = Head(ChannelsOf(l))]
    /\ touches' = Touched(l, Head(ChannelsOf(l)), 0, TRUE)
    /\ UNCHANGED <<workday, scheduled, trail>>

\* recordSend asks for a person, and not whether the follow-up was authorised.
SendFollowUp(l, actor) ==
    /\ scheduled[l] # None
    /\ AssertHumanActor(actor)
    /\ lead' = [lead EXCEPT ![l].lastTouchAt = workday, ![l].lastChannel = scheduled[l].channel,
                            ![l].followUpsSent = @ + 1]
    /\ touches' = Touched(l, scheduled[l].channel, scheduled[l].attempt, scheduled[l].authorized)
    /\ trail' = TrailEntry(l, "FOLLOW_UP_SENT", actor, None)
    /\ scheduled' = [scheduled EXCEPT ![l] = None]
    /\ UNCHANGED workday

--------------------------------------------------------------------------
(* The lead.                                                               *)

\* Mutant: what is authorised already still goes out.
CancelledOnReplyLate(l) == IF scheduled[l] # None /\ ~scheduled[l].authorized
                           THEN None ELSE scheduled[l]

\* shouldCancelOnReply: a reply cancels every scheduled touch.
CancelledOnReply(l) == None

LeadReplies(l) ==
    /\ lead[l].lastTouchAt # None
    /\ ~IsTerminal(lead[l].stage)
    /\ lead' = [lead EXCEPT ![l].stage = IF @ = "CONTACTED" THEN "REPLIED" ELSE @,
                            ![l].lastReplyAt = workday, ![l].hasUnreadReply = TRUE]
    /\ scheduled' = [scheduled EXCEPT ![l] = CancelledOnReply(l)]
    /\ UNCHANGED <<workday, touches, trail>>

AnswerReply(l) ==
    /\ lead[l].hasUnreadReply
    /\ lead' = [lead EXCEPT ![l].hasUnreadReply = FALSE]
    /\ UNCHANGED <<workday, scheduled, touches, trail>>

Unsubscribe(l) ==
    /\ ~lead[l].unsubscribed
    /\ lead' = [lead EXCEPT ![l].unsubscribed = TRUE]
    /\ UNCHANGED <<workday, scheduled, touches, trail>>

DaysPass(n) ==
    /\ workday + n <= MaxDay
    /\ workday' = workday + n
    /\ UNCHANGED <<lead, scheduled, touches, trail>>

--------------------------------------------------------------------------
FollowUpsNext ==
    \/ \E n \in DaySteps : DaysPass(n)
    \/ \E l \in Leads :
          \/ \E to \in Stages : MoveTo(l, to)
          \/ Pause(l)
          \/ Resume(l)
          \/ Propose(l)
          \/ \E actor \in Actors :
                Authorize(l, actor) \/ Decline(l, actor) \/ SendFollowUp(l, actor)
          \/ SendOpening(l)
          \/ LeadReplies(l)
          \/ AnswerReply(l)
          \/ Unsubscribe(l)

FollowUpsSpec == FollowUpsInit /\ [][FollowUpsNext]_followUpVars

--------------------------------------------------------------------------
(* What the operator is told (nextActionFor).                              *)

STAGE_ACTION ==
    [NEW |-> "RESEARCH_LEAD", RESEARCHED |-> "DRAFT_MESSAGE", CONTACTED |-> "SEND_FOLLOW_UP",
     REPLIED |-> "REVIEW_REPLY", QUALIFIED |-> "SEND_PROPOSAL",
     PROPOSAL_SENT |-> "CHASE_PROPOSAL"]

Exhausted(l) == lead[l].stage = "CONTACTED" /\ lead[l].followUpsSent >= MAX_FOLLOW_UPS

\* The touch that is planned but not yet due.
NextFollowUpDueAt(l) ==
    IF Decision(l, workday) = "WAIT"
    THEN TouchDueAt(lead[l].lastTouchAt, lead[l].followUpsSent + 1) ELSE None

\* The order in which the actions are offered, by priority, is left out.
NextActionFor(l) ==
    CASE ~IsActive(lead[l].stage) -> "NOTHING"
      [] IsActive(lead[l].stage) /\ lead[l].hasUnreadReply -> "REVIEW_REPLY"
      [] IsActive(lead[l].stage) /\ ~lead[l].hasUnreadReply /\ Exhausted(l) -> "CLOSE_OR_DROP"
      [] OTHER -> IF NextFollowUpDueAt(l) # None THEN "NOTHING" ELSE STAGE_ACTION[lead[l].stage]

--------------------------------------------------------------------------
(* Properties.                                                             *)

\* "The single most important rule": once a lead has replied no follow-up goes out any
\* more, not even one authorised before, and not after the lead is moved back to
\* CONTACTED.
NoTouchAfterReply ==
    \A l \in Leads : \A i \in DOMAIN touches[l] :
        touches[l][i].attempt > 0 => ~touches[l][i].replied

\* The sequence ends, each touch comes after as many weekdays as the spacing asks, and
\* never twice in a row on one channel while the lead has another.
TouchesAreSpaced ==
    \A l \in Leads :
        /\ Len(touches[l]) <= MAX_FOLLOW_UPS + 1
        /\ \A i \in 2..Len(touches[l]) :
              LET before == touches[l][i - 1]
                  this == touches[l][i]
              IN  /\ this.attempt = i - 1
                  /\ Cardinality({d \in (before.on + 1)..this.on : ~IsWeekend(d)})
                        >= FOLLOW_UP_SPACING_DAYS[this.attempt]
                  /\ this.channel = before.channel => Len(ChannelsOf(l)) = 1

\* A person's authorisation of one attempt.
Approves(entry, attempt) ==
    entry.kind = "FOLLOW_UP_AUTHORIZED" /\ entry.attempt = attempt /\ entry.actor # "SYSTEM"

\* The trail tells what was approved (audit.ts: "an unauthorised send leaves an audit trail
\* that visibly has no approver"): the entry of a follow-up that went out stands right
\* after a person's authorisation of that attempt exactly if it was authorised when it
\* went out, whatever was authorised, declined or cancelled before.
TrailTellsApproval ==
    \A l \in Leads : \A i \in DOMAIN touches[l] :
        LET this == touches[l][i]
        IN  this.attempt > 0 =>
              /\ this.entry \in DOMAIN trail[l]
              /\ trail[l][this.entry].kind = "FOLLOW_UP_SENT"
              /\ this.authorized <=>
                    this.entry > 1 /\ Approves(trail[l][this.entry - 1], this.attempt)

\* The queue and the planner agree on a lead that was written to and has not answered: to
\* close or drop it is asked exactly when the sequence is exhausted, and to follow up only
\* when a touch is due.
QueueAgreesWithPlan ==
    \A l \in Leads :
        (/\ lead[l].stage = "CONTACTED" /\ lead[l].lastTouchAt # None
         /\ lead[l].lastReplyAt = None /\ ~lead[l].unsubscribed) =>
            LET action == NextActionFor(l)
                decision == Decision(l, workday)
            IN  /\ action = "CLOSE_OR_DROP" <=> decision = "STOP_EXHAUSTED"
                /\ action = "SEND_FOLLOW_UP" => decision = "SCHEDULE"

\* What the lead lifecycle promises over any run of replies, pauses and declines: silence
\* after a reply, spaced touches, a trail that shows who approved, a queue that fits the
\* plan.
FollowUpsHold ==
    /\ FollowUpsTypeOK
    /\ NoTouchAfterReply
    /\ TouchesAreSpaced
    /\ TrailTellsApproval
    /\ QueueAgreesWithPlan

=============================================================================
