-------------------------- MODULE RevocationPromise --------------------------
(***************************************************************************)
(* What revocation delivery promises for each event and target             *)
(* application, with no rows, attempts, leases or messages in sight: the   *)
(* notification is owed until it is concluded, it is concluded once, and a *)
(* conclusion is true: "notified" only of an application that processed    *)
(* the event, "abandoned" only of one whose event is kept as a dead letter *)
(***************************************************************************)

CONSTANT Delivery  \* pairs of an event and a target application

VARIABLES
    outcome,       \* what the provider has concluded about each delivery
    handled,       \* deliveries whose application has processed the event
    deadLettered   \* deliveries with a copy in the dead-letter queue

promiseVars == <<outcome, handled, deadLettered>>

Init ==
    /\ outcome = [d \in Delivery |-> "owed"]
    /\ handled = {}
    /\ deadLettered = {}

\* The application processes the event, concluded or not: requests may be late.
Process(d) ==
    /\ handled' = handled \cup {d}
    /\ UNCHANGED <<outcome, deadLettered>>

KeepDeadLetter(d) ==
    /\ outcome[d] # "abandoned"
    /\ deadLettered' = deadLettered \cup {d}
    /\ UNCHANGED <<outcome, handled>>

Conclude(d) ==
    /\ outcome[d] = "owed"
    /\ \/ d \in handled /\ outcome' = [outcome EXCEPT ![d] = "notified"]
       \/ d \in deadLettered /\ outcome' = [outcome EXCEPT ![d] = "abandoned"]
    /\ UNCHANGED <<handled, deadLettered>>

Next == \E d \in Delivery : Process(d) \/ KeepDeadLetter(d) \/ Conclude(d)

Spec == Init /\ [][Next]_promiseVars

=============================================================================
