------------------------- MODULE RevocationDelivery -------------------------
(***************************************************************************)
(* The Sync Worker of the Auth Provider: it consumes revocation events     *)
(* from the broker, keeps one EventDelivery row per event and target       *)
(* application in the primary database, calls POST /internal/logout of the *)
(* application, retries with backoff and moves what is exhausted to the    *)
(* dead-letter queue.                                                      *)
(*                                                                         *)
(* Every database statement, HTTP request and broker publish is a step of  *)
(* its own: each is awaited, and the consumer's tasks and the retry cycle  *)
(* run in between.  Clock times are abstracted to the two tests the code   *)
(* makes of them: due (a RETRYING row whose nextRetryAt is not after now)  *)
(* and stale (a PROCESSING row whose lastAttemptAt is older than the       *)
(* processing lease).                                                      *)
(***************************************************************************)
EXTENDS Naturals, FiniteSets

CONSTANTS
    Event,        \* revocation events, by event id
    NoEvent,      \* what a task holds when it processes no message
    App,          \* registered applications
    Targets,      \* Targets[e]: the applications resolveTargets finds for e
    Poison,       \* events whose message is malformed or differs from the outbox
    Task,         \* executions of processMessage that may overlap
    Poll,         \* the retry cycle of RevocationRetryService
    MaxAttempts,  \* DELIVERY_RETRY_MAX_ATTEMPTS
    MaxCopies,    \* bound: copies of one message the publisher puts on the queue
    MaxFaults     \* bound: crashes, lost channels, database errors, slow attempts

ASSUME DeliveryAssumption ==
    /\ NoEvent \notin Event
    /\ Targets \in [Event -> SUBSET App]
    /\ Poison \subseteq Event
    /\ IsFiniteSet(Task)
    /\ Poll \notin Task
    /\ MaxAttempts \in Nat \ {0}
    /\ MaxCopies \in Nat
    /\ MaxFaults \in Nat

Owner == Task \cup {Poll}

\* The rows that can exist: one per event and target, whatever the copies.
Delivery == {d \in Event \X App : d[1] \notin Poison /\ d[2] \in Targets[d[1]]}

Status == {"NONE", "PENDING", "PROCESSING", "RETRYING", "SUCCEEDED", "FAILED"}
Terminal == {"SUCCEEDED", "FAILED"}

Row == [status : Status, attempts : Nat, due : BOOLEAN, stale : BOOLEAN]

\* Where one call of deliver or moveToDeadLetter stands.
AttemptPc == {"none", "claim", "request", "waiting", "deadClaim", "deadPublish",
              "deadConfirmed", "deadUnconfirmed", "done", "threw"}
Settled == {"none", "done", "threw"}

\* seen and number are what the call remembers of its row: the status it read
\* and the attempt number its guarded updates name.
Attempt == [pc : AttemptPc, seen : Status, number : Nat]

TaskState == [pc : {"idle", "received", "read", "deliver"},
              event : Event \cup {NoEvent}, held : BOOLEAN]

VARIABLES
    arrived,       \* copies the publisher has put on the queue so far
    ready,         \* copies on the queue waiting for a consumer
    rejected,      \* events dead-lettered by a nack without requeue
    row,           \* the event_deliveries table
    task,          \* the consumer's processMessage executions
    poll,          \* where the retry cycle stands
    att,           \* the deliver and moveToDeadLetter calls in progress
    sent,          \* attempt numbers whose HTTP request has left the worker
    handled,       \* deliveries whose application has processed the event
    deadLettered,  \* deliveries with a copy in the dead-letter queue
    faults         \* faults so far

queueVars == <<arrived, ready, rejected>>
outsideVars == <<sent, handled, deadLettered>>
vars == <<queueVars, row, task, poll, att, outsideVars, faults>>

NoAttempt == [pc |-> "none", seen |-> "NONE", number |-> 0]
NoAttempts == [d \in Delivery |-> NoAttempt]
IdleTask == [pc |-> "idle", event |-> NoEvent, held |-> FALSE]

RowOf(status, attempts, due) ==
    [status |-> status, attempts |-> attempts, due |-> due, stale |-> FALSE]
NoRow == RowOf("NONE", 0, FALSE)
NewRow == RowOf("PENDING", 0, FALSE)

Init ==
    /\ arrived = [e \in Event |-> 0]
    /\ ready = [e \in Event |-> 0]
    /\ rejected = {}
    /\ row = [d \in Delivery |-> NoRow]
    /\ task = [t \in Task |-> IdleTask]
    /\ poll = "idle"
    /\ att = [o \in Owner |-> NoAttempts]
    /\ sent = [d \in Delivery |-> {}]
    /\ handled = {}
    /\ deadLettered = {}
    /\ faults = 0

-----------------------------------------------------------------------------
(* The consumer: RabbitMqConsumerService and process()                     *)

\* The broker accepts a copy of the event's message from the outbox publisher.
Arrive(e) ==
    /\ arrived[e] < MaxCopies
    /\ arrived' = [arrived EXCEPT ![e] = @ + 1]
    /\ ready' = [ready EXCEPT ![e] = @ + 1]
    /\ UNCHANGED <<rejected, row, task, poll, att, outsideVars, faults>>

\* The broker hands a copy to the consumer, which starts processMessage.
Receive(t, e) ==
    /\ task[t].pc = "idle"
    /\ ready[e] > 0
    /\ ready' = [ready EXCEPT ![e] = @ - 1]
    /\ task' = [task EXCEPT ![t] = [pc |-> "received", event |-> e, held |-> TRUE]]
    /\ UNCHANGED <<arrived, rejected, row, poll, att, outsideVars, faults>>

\* Mutant: an inconsistent message is requeued like an infrastructure failure.
RejectByRequeue(t) ==
    /\ task[t].pc = "received"
    /\ task[t].event \in Poison
    /\ ready' = IF task[t].held THEN [ready EXCEPT ![task[t].event] = @ + 1] ELSE ready
    /\ task' = [task EXCEPT ![t] = IdleTask]
    /\ UNCHANGED <<arrived, rejected, row, poll, att, outsideVars, faults>>

\* A message that cannot be parsed, or contradicts its outbox row or its target,
\* is nacked without requeue: the queue's dead-letter exchange takes it.
Reject(t) ==
    /\ task[t].pc = "received"
    /\ task[t].event \in Poison
    /\ rejected' = IF task[t].held THEN rejected \cup {task[t].event} ELSE rejected
    /\ task' = [task EXCEPT ![t] = IdleTask]
    /\ UNCHANGED <<arrived, ready, row, poll, att, outsideVars, faults>>

\* createMany with skipDuplicates: rows that exist already are left alone.
CreateDeliveries(t) ==
    /\ task[t].pc = "received"
    /\ task[t].event \notin Poison
    /\ row' = [d \in Delivery |->
                 IF d[1] = task[t].event /\ row[d].status = "NONE" THEN NewRow ELSE row[d]]
    /\ task' = [task EXCEPT ![t].pc = "read"]
    /\ UNCHANGED <<queueVars, poll, att, outsideVars, faults>>

\* What deliver does with the row it was given before its first await: only a
\* PENDING or RETRYING one is attempted.
Snapshot(d) ==
    IF row[d].status \in {"PENDING", "RETRYING"}
      THEN [pc |-> "claim", seen |-> row[d].status, number |-> row[d].attempts + 1]
      ELSE [pc |-> "done", seen |-> row[d].status, number |-> row[d].attempts]

\* findMany, then one deliver call per row of the event, all at once.
ReadDeliveries(t) ==
    /\ task[t].pc = "read"
    /\ att' = [att EXCEPT ![t] =
                 [d \in Delivery |-> IF d[1] = task[t].event THEN Snapshot(d) ELSE NoAttempt]]
    /\ task' = [task EXCEPT ![t].pc = "deliver"]
    /\ UNCHANGED <<queueVars, row, poll, outsideVars, faults>>

\* Mutant: a rejected deliver call does not fail the message.
NoneThrew(o) == FALSE

AllSettled(o) == \A d \in Delivery : att[o][d].pc \in Settled
SomeThrew(o) == \E d \in Delivery : att[o][d].pc = "threw"

\* Promise.allSettled has resolved: the message is acknowledged, or requeued if
\* a deliver call threw.  A task whose channel is gone can settle nothing.
Settle(t) ==
    /\ task[t].pc = "deliver"
    /\ AllSettled(t)
    /\ ready' = IF task[t].held /\ SomeThrew(t)
                  THEN [ready EXCEPT ![task[t].event] = @ + 1]
                  ELSE ready
    /\ task' = [task EXCEPT ![t] = IdleTask]
    /\ att' = [att EXCEPT ![t] = NoAttempts]
    /\ UNCHANGED <<arrived, rejected, row, poll, outsideVars, faults>>

-----------------------------------------------------------------------------
(* deliver(): claim, request, record the outcome                           *)

At(o, d, pc) == att[o][d].pc = pc
Goto(o, d, pc) == att' = [att EXCEPT ![o][d].pc = pc]
SetRow(d, status, attempts, due) ==
    row' = [row EXCEPT ![d] = RowOf(status, attempts, due)]

\* Mutant: the claim is guarded by the status alone.
ClaimableByStatus(o, d) ==
    /\ row[d].status = att[o][d].seen
    /\ row[d].status = "RETRYING" => row[d].due

\* updateMany guarded by the status and attemptCount the call has read, and for
\* a retry by nextRetryAt; a count other than one means somebody else has it.
Claimable(o, d) ==
    /\ row[d].status = att[o][d].seen
    /\ row[d].attempts + 1 = att[o][d].number
    /\ row[d].status = "RETRYING" => row[d].due

\* Mutant: the claim leaves nextRetryAt as it was.
ClaimKeepingDue(o, d) ==
    /\ At(o, d, "claim")
    /\ IF Claimable(o, d)
         THEN /\ SetRow(d, "PROCESSING", att[o][d].number, row[d].due)
              /\ Goto(o, d, "request")
         ELSE /\ Goto(o, d, "done")
              /\ UNCHANGED row
    /\ UNCHANGED <<queueVars, task, poll, outsideVars, faults>>

Claim(o, d) ==
    /\ At(o, d, "claim")
    /\ IF Claimable(o, d)
         THEN /\ SetRow(d, "PROCESSING", att[o][d].number, FALSE)
              /\ Goto(o, d, "request")
         ELSE /\ Goto(o, d, "done")
              /\ UNCHANGED row
    /\ UNCHANGED <<queueVars, task, poll, outsideVars, faults>>

Send(o, d) ==
    /\ At(o, d, "request")
    /\ sent' = [sent EXCEPT ![d] = @ \cup {att[o][d].number}]
    /\ Goto(o, d, "waiting")
    /\ UNCHANGED <<queueVars, row, task, poll, handled, deadLettered, faults>>

\* The application processes a request it got, which may have timed out at the
\* worker long before.
Handle(d) ==
    /\ sent[d] # {}
    /\ d \notin handled
    /\ handled' = handled \cup {d}
    /\ UNCHANGED <<queueVars, row, task, poll, att, sent, deadLettered, faults>>

\* Mutants: outcome updates guarded by one half of the condition.
OwnedByStatus(d, number) == row[d].status = "PROCESSING"
OwnedByNumber(d, number) == row[d].attempts = number

\* The guard of every outcome update: the row is still claimed, by this attempt.
Owned(d, number) == row[d].status = "PROCESSING" /\ row[d].attempts = number

Exhausted(number) == number >= MaxAttempts

\* Mutant: an answer of any status counts as success.
SucceedOnAnyAnswer(o, d) ==
    /\ At(o, d, "waiting")
    /\ IF Owned(d, att[o][d].number)
         THEN /\ SetRow(d, "SUCCEEDED", att[o][d].number, FALSE)
              /\ Goto(o, d, "done")
         ELSE /\ Goto(o, d, "threw")
              /\ UNCHANGED row
    /\ UNCHANGED <<queueVars, task, poll, outsideVars, faults>>

\* A 2xx answer, then the guarded update to SUCCEEDED.
Succeed(o, d) ==
    /\ At(o, d, "waiting")
    /\ d \in handled
    /\ IF Owned(d, att[o][d].number)
         THEN /\ SetRow(d, "SUCCEEDED", att[o][d].number, FALSE)
              /\ Goto(o, d, "done")
         ELSE /\ Goto(o, d, "threw")
              /\ UNCHANGED row
    /\ UNCHANGED <<queueVars, task, poll, outsideVars, faults>>

\* A bad URL, a timeout, a refused connection or another status; then the guarded
\* update to RETRYING, due at once when the attempts are used up.
Fail(o, d) ==
    /\ att[o][d].pc \in {"request", "waiting"}
    /\ IF Owned(d, att[o][d].number)
         THEN /\ SetRow(d, "RETRYING", att[o][d].number, Exhausted(att[o][d].number))
              /\ Goto(o, d, "done")
         ELSE /\ Goto(o, d, "threw")
              /\ UNCHANGED row
    /\ UNCHANGED <<queueVars, task, poll, outsideVars, faults>>

-----------------------------------------------------------------------------
(* The retry cycle: processDueRetries() and moveToDeadLetter()             *)

\* Mutant: no lease is ever taken back.
NeverOrphaned(d) == FALSE

Orphaned(d) == row[d].status = "PROCESSING" /\ row[d].stale
Due(d) == row[d].status = "RETRYING" /\ row[d].due

\* The cycle starts by releasing rows whose lease has run out.  A cycle that
\* finds nothing to do changes nothing and is not a step.
RecoverOrphans ==
    /\ poll = "idle"
    /\ \E d \in Delivery : Orphaned(d) \/ Due(d)
    /\ row' = [d \in Delivery |->
                 IF Orphaned(d) THEN RowOf("RETRYING", row[d].attempts, TRUE) ELSE row[d]]
    /\ poll' = "read"
    /\ UNCHANGED <<queueVars, task, att, outsideVars, faults>>

Candidate(d) ==
    IF ~Due(d) THEN NoAttempt
    ELSE IF row[d].attempts >= MaxAttempts
      THEN [pc |-> "deadClaim", seen |-> "RETRYING", number |-> row[d].attempts]
      ELSE Snapshot(d)

ReadCandidates ==
    /\ poll = "read"
    /\ att' = [att EXCEPT ![Poll] = [d \in Delivery |-> Candidate(d)]]
    /\ poll' = "deliver"
    /\ UNCHANGED <<queueVars, row, task, outsideVars, faults>>

EndCycle ==
    /\ poll = "deliver"
    /\ AllSettled(Poll)
    /\ att' = [att EXCEPT ![Poll] = NoAttempts]
    /\ poll' = "idle"
    /\ UNCHANGED <<queueVars, row, task, outsideVars, faults>>

\* The dead-letter claim names attemptCount but does not advance it.
DeadClaim(d) ==
    /\ At(Poll, d, "deadClaim")
    /\ IF Due(d) /\ row[d].attempts = att[Poll][d].number
         THEN /\ SetRow(d, "PROCESSING", att[Poll][d].number, FALSE)
              /\ Goto(Poll, d, "deadPublish")
         ELSE /\ Goto(Poll, d, "done")
              /\ UNCHANGED row
    /\ UNCHANGED <<queueVars, task, poll, outsideVars, faults>>

\* Mutant: the dead letter counts as published without waiting for its confirm.
DeadPublishUnchecked(d) ==
    /\ At(Poll, d, "deadPublish")
    /\ deadLettered' \in {deadLettered, deadLettered \cup {d}}
    /\ Goto(Poll, d, "deadConfirmed")
    /\ UNCHANGED <<queueVars, row, task, poll, sent, handled, faults>>

\* sendToQueue with a confirm; a confirm that is late or lost leaves a copy behind.
DeadPublish(d) ==
    /\ At(Poll, d, "deadPublish")
    /\ \/ /\ deadLettered' = deadLettered \cup {d}
          /\ Goto(Poll, d, "deadConfirmed")
       \/ /\ deadLettered' \in {deadLettered, deadLettered \cup {d}}
          /\ Goto(Poll, d, "deadUnconfirmed")
    /\ UNCHANGED <<queueVars, row, task, poll, sent, handled, faults>>

\* The update after the publish: FAILED, or back to RETRYING after a delay.
DeadRecord(d) ==
    /\ att[Poll][d].pc \in {"deadConfirmed", "deadUnconfirmed"}
    /\ IF Owned(d, att[Poll][d].number)
         THEN /\ SetRow(d, IF At(Poll, d, "deadConfirmed") THEN "FAILED" ELSE "RETRYING",
                        att[Poll][d].number, FALSE)
              /\ Goto(Poll, d, "done")
         ELSE /\ Goto(Poll, d, "threw")
              /\ UNCHANGED row
    /\ UNCHANGED <<queueVars, task, poll, outsideVars, faults>>

-----------------------------------------------------------------------------
(* Time and faults                                                         *)

BackoffElapses(d) ==
    /\ row[d].status = "RETRYING"
    /\ ~row[d].due
    /\ row' = [row EXCEPT ![d].due = TRUE]
    /\ UNCHANGED <<queueVars, task, poll, att, outsideVars, faults>>

\* Some call in progress holds the row's current claim.
InProgress(d) ==
    \E o \in Owner : /\ att[o][d].pc \notin Settled \cup {"claim", "deadClaim"}
                     /\ att[o][d].number = row[d].attempts

\* The 30 s lease runs out: on a row that nobody works on any more, or, counted
\* as a fault, on an attempt that is merely slow.
LeaseElapses(d) ==
    /\ row[d].status = "PROCESSING"
    /\ ~row[d].stale
    /\ IF InProgress(d)
         THEN faults < MaxFaults /\ faults' = faults + 1
         ELSE UNCHANGED faults
    /\ row' = [row EXCEPT ![d].stale = TRUE]
    /\ UNCHANGED <<queueVars, task, poll, att, outsideVars>>

Fault == faults < MaxFaults /\ faults' = faults + 1

\* What the broker does with unacknowledged copies when their channel is gone.
Holders(e) == {t \in Task : task[t].held /\ task[t].event = e}
RequeueHeld == ready' = [e \in Event |-> ready[e] + Cardinality(Holders(e))]

\* A statement of process() fails before any deliver call: the copy is requeued.
TaskError(t) ==
    /\ Fault
    /\ task[t].pc \in {"received", "read"}
    /\ task[t].event \notin Poison
    /\ ready' = IF task[t].held THEN [ready EXCEPT ![task[t].event] = @ + 1] ELSE ready
    /\ task' = [task EXCEPT ![t] = IdleTask]
    /\ UNCHANGED <<arrived, rejected, row, poll, att, outsideVars>>

\* A statement of deliver or moveToDeadLetter fails: the call throws, and the row
\* stays as the last statement that succeeded left it.
AttemptError(o, d) ==
    /\ Fault
    /\ att[o][d].pc \notin Settled
    /\ Goto(o, d, "threw")
    /\ UNCHANGED <<queueVars, row, task, poll, outsideVars>>

\* The channel or its connection closes, or a shutdown reaches its deadline and
\* requeues: the copies go back to the queue while their tasks run on.
ConnectionLost ==
    /\ Fault
    /\ \E t \in Task : task[t].held
    /\ RequeueHeld
    /\ task' = [t \in Task |-> [task[t] EXCEPT !.held = FALSE]]
    /\ UNCHANGED <<arrived, rejected, row, poll, att, outsideVars>>

\* The worker process dies and is started again: tables and queues survive.
Crash ==
    /\ Fault
    /\ \/ poll # "idle"
       \/ \E t \in Task : task[t].pc # "idle"
    /\ RequeueHeld
    /\ task' = [t \in Task |-> IdleTask]
    /\ poll' = "idle"
    /\ att' = [o \in Owner |-> NoAttempts]
    /\ UNCHANGED <<arrived, rejected, row, outsideVars>>

-----------------------------------------------------------------------------

ConsumerStep(t) ==
    \/ \E e \in Event : Receive(t, e)
    \/ Reject(t) \/ CreateDeliveries(t) \/ ReadDeliveries(t) \/ Settle(t)

DeliverStep(o, d) == Claim(o, d) \/ Send(o, d) \/ Succeed(o, d) \/ Fail(o, d)

DeadLetterStep(d) == DeadClaim(d) \/ DeadPublish(d) \/ DeadRecord(d)

PollStep == RecoverOrphans \/ ReadCandidates \/ EndCycle

TimePasses(d) == BackoffElapses(d) \/ LeaseElapses(d)

FaultStep ==
    \/ \E t \in Task : TaskError(t)
    \/ \E o \in Owner, d \in Delivery : AttemptError(o, d)
    \/ ConnectionLost
    \/ Crash

\* Everything but the arrival of messages, which the outbox publisher decides.
WorkerNext ==
    \/ \E t \in Task : ConsumerStep(t)
    \/ \E o \in Owner, d \in Delivery : DeliverStep(o, d)
    \/ PollStep
    \/ \E d \in Delivery : DeadLetterStep(d) \/ Handle(d) \/ TimePasses(d)
    \/ FaultStep

Next == (\E e \in Event : Arrive(e)) \/ WorkerNext

Spec == Init /\ [][Next]_vars

\* The event loop runs every continuation that is ready, timers fire, and every
\* request ends in an answer or a timeout.  The broker confirms a dead letter if
\* asked often enough.  Applications, crashes and errors owe nothing.
WorkerFairness ==
    /\ \A t \in Task : WF_vars(ConsumerStep(t))
    /\ \A o \in Owner, d \in Delivery : WF_vars(DeliverStep(o, d))
    /\ WF_vars(PollStep)
    /\ \A d \in Delivery :
         /\ WF_vars(DeadLetterStep(d))
         /\ SF_vars(DeadPublish(d) /\ At(Poll, d, "deadConfirmed")')
         /\ WF_vars(TimePasses(d))

FairSpec == Spec /\ WorkerFairness

-----------------------------------------------------------------------------
(* Properties                                                              *)

\* Every variable has its type; nextRetryAt matters to RETRYING rows only.
TypeOK ==
    /\ arrived \in [Event -> Nat]
    /\ ready \in [Event -> Nat]
    /\ rejected \subseteq Event
    /\ row \in [Delivery -> Row]
    /\ \A d \in Delivery : row[d].due => row[d].status = "RETRYING"
    /\ task \in [Task -> TaskState]
    /\ poll \in {"idle", "read", "deliver"}
    /\ att \in [Owner -> [Delivery -> Attempt]]
    /\ sent \in [Delivery -> SUBSET Nat]
    /\ handled \subseteq Delivery
    /\ deadLettered \subseteq Delivery
    /\ faults \in Nat

\* A copy of e's message is on the queue or unacknowledged.
MessageKept(e) == ready[e] > 0 \/ Holders(e) # {}

Started(d) == row[d].status \notin {"NONE", "PENDING"}

\* The retry cycle never looks at PENDING rows, so a message may be acknowledged
\* only when every target's row has left PENDING for good; a poison message only
\* disappears into the dead-letter queue.
NoMessageLost ==
    \A e \in Event : arrived[e] > 0 =>
        \/ MessageKept(e)
        \/ e \in rejected
        \/ e \notin Poison /\ \A d \in Delivery : d[1] = e => Started(d)

\* Calls that have claimed an attempt number and not recorded its outcome.
Live(o, d) == att[o][d].pc \in {"request", "waiting"}

\* An attempt number is claimed once: no two calls hold the same one, and none is
\* about to send a request under a number that was used before, so attemptCount
\* counts every request an application was sent and names its outcome.
AttemptNumbersAreFresh ==
    \A d \in Delivery :
        /\ sent[d] \subseteq 1 .. row[d].attempts
        /\ \A o \in Owner :
             /\ At(o, d, "request") => att[o][d].number \notin sent[d]
             /\ \A p \in Owner :
                  Live(o, d) /\ Live(p, d) /\ att[o][d].number = att[p][d].number => o = p

\* Only a delivery whose attempts are used up is dead-lettered, and a row is
\* FAILED only with its dead letter in the queue.
DeadLettersAreJustified ==
    \A d \in Delivery :
        /\ d \in deadLettered => row[d].attempts >= MaxAttempts
        /\ row[d].status = "FAILED" => d \in deadLettered

\* No step of a late attempt, a crash or a redelivered message reopens or flips a
\* delivery that has succeeded or failed.
TerminalIsFinal ==
    [][\A d \in Delivery :
          row[d].status \in Terminal => row'[d].status = row[d].status]_vars

\* An attempt whose row has been claimed again under a later number ends without
\* touching the row: only the newest claim's outcome counts.
LateAttemptChangesNothing ==
    [][\A o \in Owner, d \in Delivery :
          /\ Live(o, d)
          /\ att[o][d].number < row[d].attempts
          /\ att'[o][d] # att[o][d]
          => row'[d] = row[d]]_vars

\* Seen through its terminal statuses the worker keeps the delivery promise.
Promise == INSTANCE RevocationPromise WITH
    outcome <- [d \in Delivery |->
                  IF row[d].status = "SUCCEEDED" THEN "notified"
                  ELSE IF row[d].status = "FAILED" THEN "abandoned" ELSE "owed"]
PromiseKept == Promise!Spec

\* Whatever crashes, is redelivered or fails, each target of an event that reached
\* the queue ends as SUCCEEDED or FAILED: no row is stranded.
EveryDeliveryConcludes ==
    \A d \in Delivery : arrived[d[1]] > 0 ~> row[d].status \in Terminal

\* Every copy is settled for good in the end: nothing is requeued for ever.
ConsumerQuiesces ==
    <>[](\A e \in Event : ~MessageKept(e))

\* The README's limit: no application is sent more requests for an event than
\* DELIVERY_RETRY_MAX_ATTEMPTS before the delivery goes to the dead-letter queue.
AttemptsWithinLimit ==
    \A d \in Delivery : sent[d] \subseteq 1 .. MaxAttempts

=============================================================================
