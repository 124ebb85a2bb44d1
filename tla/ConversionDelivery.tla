--------------------------- MODULE ConversionDelivery ---------------------------
(***************************************************************************)
(* What the Meta outbox promises its reader, with no worker, lease or      *)
(* retry in sight.  Every paid order owes Meta one Purchase conversion.  A *)
(* conversion that was enqueued may be accepted by Meta at any time, also  *)
(* after its outcome was decided: delivery is at least once, never exactly *)
(* once.  Its outcome is decided once: "sent" only for a conversion Meta   *)
(* has accepted, "dead" when the outbox gives up.                          *)
(***************************************************************************)

CONSTANT Events   \* the conversions, one for each captured payment

VARIABLES
    outcome,      \* what the outbox records about each conversion
    accepted      \* whether Meta has ever accepted the conversion

vars == <<outcome, accepted>>

Outcome == {"absent", "queued", "sent", "dead"}

\* The outcome and the deliveries of an event keep to their domains.
TypeOK == /\ outcome \in [Events -> Outcome]
          /\ accepted \in [Events -> BOOLEAN]

Init == /\ outcome = [e \in Events |-> "absent"]
        /\ accepted = [e \in Events |-> FALSE]

Enqueue(e) == /\ outcome[e] = "absent"
              /\ outcome' = [outcome EXCEPT ![e] = "queued"]
              /\ UNCHANGED accepted

MetaAccepts(e) == /\ outcome[e] # "absent"
                  /\ accepted' = [accepted EXCEPT ![e] = TRUE]
                  /\ UNCHANGED outcome

ConfirmSent(e) == /\ outcome[e] = "queued"
                  /\ accepted[e]
                  /\ outcome' = [outcome EXCEPT ![e] = "sent"]
                  /\ UNCHANGED accepted

GiveUp(e) == /\ outcome[e] = "queued"
             /\ outcome' = [outcome EXCEPT ![e] = "dead"]
             /\ UNCHANGED accepted

Next == \E e \in Events : Enqueue(e) \/ MetaAccepts(e) \/ ConfirmSent(e) \/ GiveUp(e)

Spec == Init /\ [][Next]_vars
=============================================================================
