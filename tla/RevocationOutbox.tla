-------------------------- MODULE RevocationOutbox --------------------------
(***************************************************************************)
(* The transactional outbox of the Auth Provider server: a transaction     *)
(* that revokes access inserts its events as PENDING rows, and the outbox  *)
(* publisher moves them to the broker.  A publisher claims a row by        *)
(* advancing publishAttemptCount and pushing nextPublishAttemptAt a lease  *)
(* into the future, publishes with a confirm, and marks the row PUBLISHED, *)
(* or reschedules it.  Each of these is awaited: crashes and other         *)
(* publishers come in between.                                             *)
(*                                                                         *)
(* Clock times are abstracted to the one test the code makes: due, which   *)
(* says that nextPublishAttemptAt is null or not after now.                *)
(***************************************************************************)
EXTENDS Naturals, FiniteSets

CONSTANTS
    Event,      \* outbox rows, numbered in the order of createdAt
    Publisher,  \* server processes that run the publisher
    BatchSize,  \* OUTBOX_PUBLISH_BATCH_SIZE
    MaxFaults   \* bound: refused publishes, crashes, database errors, slow attempts

ASSUME OutboxAssumption ==
    /\ Event \subseteq Nat \ {0}
    /\ BatchSize \in Nat \ {0}
    /\ MaxFaults \in Nat

NoEvent == 0

Row == [status : {"NONE", "PENDING", "PUBLISHED"}, attempts : Nat, due : BOOLEAN]

\* A row as findMany returned it.
Candidate == [id : Event, count : Nat]

\* refused: publish threw a RabbitMqPublishError; unmarked: the PUBLISHED update threw.
PublisherPc == {"idle", "claim", "publish", "mark", "refused", "unmarked"}
InAttempt == {"publish", "mark", "refused", "unmarked"}

\* batch: the candidates still to do; id, number: the attempt in progress.
PublisherState ==
    [pc : PublisherPc, batch : SUBSET Candidate, id : Event \cup {NoEvent}, number : Nat]

VARIABLES
    row,     \* the events table
    pub,     \* the publication cycle of each publisher
    copies,  \* attempt numbers whose publish left a copy in the broker
    faults   \* faults so far

vars == <<row, pub, copies, faults>>

NoRow == [status |-> "NONE", attempts |-> 0, due |-> FALSE]
Pending(attempts, due) == [status |-> "PENDING", attempts |-> attempts, due |-> due]
NewRow == Pending(0, TRUE)
Idle == [pc |-> "idle", batch |-> {}, id |-> NoEvent, number |-> 0]

Init ==
    /\ row = [e \in Event |-> NoRow]
    /\ pub = [p \in Publisher |-> Idle]
    /\ copies = [e \in Event |-> {}]
    /\ faults = 0

-----------------------------------------------------------------------------
(* Writing the outbox: OutboxEventService                                  *)

\* A revoking transaction commits with the rows enqueueMany gave it.  createdAt is
\* the start of the transaction, so rows may appear in another order than theirs.
Commit(S) ==
    /\ \A e \in S : row[e].status = "NONE"
    /\ row' = [e \in Event |-> IF e \in S THEN NewRow ELSE row[e]]
    /\ UNCHANGED <<pub, copies, faults>>

-----------------------------------------------------------------------------
(* The publication cycle: publishPendingBatch()                            *)

\* Mutant: only rows that were never attempted are looked at.
NeverAttempted(e) == row[e].status = "PENDING" /\ row[e].due /\ row[e].attempts = 0

Eligible(e) == row[e].status = "PENDING" /\ row[e].due

\* The BatchSize oldest eligible rows, or all of them.
OldestEligible(S) ==
    LET eligible == {e \in Event : Eligible(e)}
    IN  /\ S \subseteq eligible
        /\ Cardinality(S) <= BatchSize
        /\ \A e \in S, f \in eligible \ S : e < f
        /\ S = eligible \/ Cardinality(S) = BatchSize

\* activeCycle keeps a publisher to one cycle.  A cycle that finds no row changes
\* nothing and is not a step.
ReadBatch(p, S) ==
    /\ pub[p].pc = "idle"
    /\ S # {}
    /\ OldestEligible(S)
    /\ pub' = [pub EXCEPT ![p] = [Idle EXCEPT
                 !.pc = "claim",
                 !.batch = {[id |-> e, count |-> row[e].attempts] : e \in S}]]
    /\ UNCHANGED <<row, copies, faults>>

\* Mutants: a claim guarded by one half of the condition.
ClaimableWhenDue(c) == Eligible(c.id)
ClaimableByCount(c) == row[c.id].attempts = c.count

\* updateMany guarded by status, publishAttemptCount and nextPublishAttemptAt.
Claimable(c) == Eligible(c.id) /\ row[c.id].attempts = c.count

Oldest(p, c) == \A d \in pub[p].batch : c.id <= d.id

\* One turn of the loop: claim the next candidate, or pass over it.
ClaimNext(p, c) ==
    /\ pub[p].pc = "claim"
    /\ c \in pub[p].batch
    /\ Oldest(p, c)
    /\ IF Claimable(c)
         THEN /\ row' = [row EXCEPT ![c.id] = Pending(@.attempts + 1, FALSE)]
              /\ pub' = [pub EXCEPT ![p] = [pc |-> "publish", batch |-> @.batch \ {c},
                                            id |-> c.id, number |-> c.count + 1]]
         ELSE /\ pub' = [pub EXCEPT ![p].batch = @ \ {c}]
              /\ UNCHANGED row
    /\ UNCHANGED <<copies, faults>>

EndCycle(p) ==
    /\ pub[p].pc = "claim"
    /\ pub[p].batch = {}
    /\ pub' = [pub EXCEPT ![p] = Idle]
    /\ UNCHANGED <<row, copies, faults>>

CopyAdded(p) == copies' = [copies EXCEPT ![pub[p].id] = @ \cup {pub[p].number}]

\* The broker confirms a mandatory message it has routed to the queue.
Confirmed(p) ==
    /\ pub[p].pc = "publish"
    /\ CopyAdded(p)
    /\ pub' = [pub EXCEPT ![p].pc = "mark"]
    /\ UNCHANGED <<row, faults>>

Fault == faults < MaxFaults /\ faults' = faults + 1

\* Mutant: a returned or unconfirmed message counts as published.
RefusedUnnoticed(p) ==
    /\ pub[p].pc = "publish"
    /\ Fault
    /\ CopyAdded(p) \/ UNCHANGED copies
    /\ pub' = [pub EXCEPT ![p].pc = "mark"]
    /\ UNCHANGED row

\* No channel, an unroutable message, a nack or a confirm that is late or lost: in
\* the last case the broker may have the copy all the same.
Refused(p) ==
    /\ pub[p].pc = "publish"
    /\ Fault
    /\ CopyAdded(p) \/ UNCHANGED copies
    /\ pub' = [pub EXCEPT ![p].pc = "refused"]
    /\ UNCHANGED row

\* Mutant: the updates are not guarded by the attempt number.
OwnedByStatus(e, number) == row[e].status = "PENDING"

\* The guard of both updates that end an attempt.
Owned(e, number) == row[e].status = "PENDING" /\ row[e].attempts = number

NextCandidate(p) == [Idle EXCEPT !.pc = "claim", !.batch = pub[p].batch]

\* Mutant: the update leaves nextPublishAttemptAt as it was.
MarkPublishedOnly(e, number) ==
    row' = IF Owned(e, number) THEN [row EXCEPT ![e].status = "PUBLISHED"] ELSE row

MarkPublished(e, number) ==
    row' = IF Owned(e, number)
             THEN [row EXCEPT ![e].status = "PUBLISHED", ![e].due = FALSE]
             ELSE row

Mark(p) ==
    /\ pub[p].pc = "mark"
    /\ MarkPublished(pub[p].id, pub[p].number)
    /\ pub' = [pub EXCEPT ![p] = NextCandidate(p)]
    /\ UNCHANGED <<copies, faults>>

\* The update throws, before or after it took effect: the attempt counts as failed.
MarkError(p) ==
    /\ pub[p].pc = "mark"
    /\ Fault
    /\ MarkPublished(pub[p].id, pub[p].number) \/ UNCHANGED row
    /\ pub' = [pub EXCEPT ![p].pc = "unmarked"]
    /\ UNCHANGED copies

\* The catch block: reschedule the row after a delay if it is still this attempt's,
\* and leave the loop if it was the broker that failed.
Reschedule(p) ==
    /\ pub[p].pc \in {"refused", "unmarked"}
    /\ row' = IF Owned(pub[p].id, pub[p].number)
                THEN [row EXCEPT ![pub[p].id].due = FALSE]
                ELSE row
    /\ pub' = [pub EXCEPT ![p] = IF pub[p].pc = "refused" THEN Idle ELSE NextCandidate(p)]
    /\ UNCHANGED <<copies, faults>>

-----------------------------------------------------------------------------
(* Time and faults                                                         *)

Working(p, e) == pub[p].pc \in InAttempt /\ pub[p].id = e

InProgress(e) ==
    \E p \in Publisher : Working(p, e) /\ pub[p].number = row[e].attempts

\* The lease or the delay in nextPublishAttemptAt runs out; under an attempt that is
\* still in progress it counts as a fault.
Elapse(e) ==
    /\ row[e].status = "PENDING"
    /\ ~row[e].due
    /\ IF InProgress(e) THEN Fault ELSE UNCHANGED faults
    /\ row' = [row EXCEPT ![e].due = TRUE]
    /\ UNCHANGED <<pub, copies>>

\* The process dies and is restarted, or the claim or the reschedule throws and ends
\* the cycle: nothing but the cycle's own state is lost.
Crash(p) ==
    /\ Fault
    /\ pub[p].pc # "idle"
    /\ pub' = [pub EXCEPT ![p] = Idle]
    /\ UNCHANGED <<row, copies>>

-----------------------------------------------------------------------------

CycleStep(p) ==
    \/ \E S \in SUBSET Event : ReadBatch(p, S)
    \/ \E c \in pub[p].batch : ClaimNext(p, c)
    \/ EndCycle(p) \/ Confirmed(p) \/ Mark(p) \/ Reschedule(p)

FaultStep(p) == Refused(p) \/ MarkError(p) \/ Crash(p)

PublisherNext ==
    \/ \E p \in Publisher : CycleStep(p) \/ FaultStep(p)
    \/ \E e \in Event : Elapse(e)

Next == (\E S \in SUBSET Event \ {{}} : Commit(S)) \/ PublisherNext

Spec == Init /\ [][Next]_vars

\* The polling interval starts cycles, the event loop runs them, time passes.
\* Nothing obliges anybody to revoke, and no fault has to happen.
PublisherFairness ==
    /\ \A p \in Publisher : WF_vars(CycleStep(p))
    /\ \A e \in Event : WF_vars(Elapse(e))

FairSpec == Spec /\ PublisherFairness

-----------------------------------------------------------------------------
(* Properties                                                              *)

\* Every variable has its type; only PENDING rows wait for a time.
TypeOK ==
    /\ row \in [Event -> Row]
    /\ \A e \in Event : row[e].due => row[e].status = "PENDING"
    /\ pub \in [Publisher -> PublisherState]
    /\ \A p \in Publisher : pub[p].pc \in InAttempt => pub[p].id \in Event
    /\ copies \in [Event -> SUBSET Nat]
    /\ faults \in Nat

\* A row is PUBLISHED only when the broker holds its message: no confirm that was
\* missed, crash or competing publisher drops a revocation.
PublishedWasEnqueued ==
    \A e \in Event : row[e].status = "PUBLISHED" => copies[e] # {}

\* An attempt number is published once: no two publishers work under the same one,
\* and none is about to publish under a number that has left a copy, so a row has at
\* most publishAttemptCount copies in the broker.
AttemptsAreExclusive ==
    \A e \in Event :
        /\ copies[e] \subseteq 1 .. row[e].attempts
        /\ \A p \in Publisher :
             /\ Working(p, e) /\ pub[p].pc = "publish" => pub[p].number \notin copies[e]
             /\ \A q \in Publisher :
                  Working(p, e) /\ Working(q, e) /\ pub[p].number = pub[q].number => p = q

\* A PUBLISHED row is never touched again: not by a late attempt and not by the error
\* path of the very update that published it.
PublishedIsFinal ==
    [][\A e \in Event : row[e].status = "PUBLISHED" => row'[e] = row[e]]_vars

\* An attempt that lost its lease to a later one neither publishes nor reschedules
\* the row under the later attempt's feet.
LateAttemptChangesNothing ==
    [][\A p \in Publisher, e \in Event :
          /\ Working(p, e)
          /\ pub[p].number < row[e].attempts
          /\ pub'[p] # pub[p]
          => row'[e] = row[e]]_vars

\* Every event whose transaction committed is published in the end.
CommittedIsPublished ==
    \A e \in Event : row[e].status = "PENDING" ~> row[e].status = "PUBLISHED"

=============================================================================
