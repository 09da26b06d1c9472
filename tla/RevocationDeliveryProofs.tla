---------------------- MODULE RevocationDeliveryProofs ----------------------
(***************************************************************************)
(* What RevocationDelivery guarantees for every set of events,             *)
(* applications and tasks, every attempt limit and any number of faults.   *)
(***************************************************************************)
EXTENDS RevocationDelivery, FiniteSetTheorems, TLAPS

-----------------------------------------------------------------------------
(* Types                                                                   *)

\* What the updates of deliver and moveToDeadLetter write is a row.
LEMMA RowOfType ==
    ASSUME NEW status \in Status, NEW attempts \in Nat, NEW due \in BOOLEAN
    PROVE  /\ RowOf(status, attempts, due) \in Row
           /\ RowOf(status, attempts, due).status = status
           /\ RowOf(status, attempts, due).attempts = attempts
           /\ RowOf(status, attempts, due).due = due
           /\ RowOf(status, attempts, due).stale = FALSE
  BY DEF RowOf, Row

\* The unacknowledged copies of an event are finitely many.
LEMMA HoldersFinite ==
    ASSUME NEW e
    PROVE  /\ IsFiniteSet(Holders(e))
           /\ Cardinality(Holders(e)) \in Nat
           /\ Holders(e) # {} => Cardinality(Holders(e)) > 0
  <1>1. IsFiniteSet(Holders(e))
    <2>1. Holders(e) \subseteq Task
      BY DEF Holders
    <2>2. QED
      BY <2>1, FS_Subset, DeliveryAssumption
  <1>2. Cardinality(Holders(e)) \in Nat
    BY <1>1, FS_CardinalityType
  <1>3. Holders(e) # {} => Cardinality(Holders(e)) # 0
    BY <1>1, FS_EmptySet
  <1>4. QED
    BY <1>1, <1>2, <1>3

\* What deliver remembers of a row it is given is a call in a known state.
LEMMA SnapshotType ==
    ASSUME TypeOK, NEW d \in Delivery
    PROVE  /\ Snapshot(d) \in Attempt
           /\ Candidate(d) \in Attempt
  <1>1. /\ row[d].status \in Status
        /\ row[d].attempts \in Nat
    BY DEF TypeOK, Row
  <1>2. Snapshot(d) \in Attempt
    BY <1>1 DEF Snapshot, Attempt, AttemptPc
  <1>3. NoAttempt \in Attempt
    BY DEF NoAttempt, Attempt, AttemptPc, Status
  <1>4. [pc |-> "deadClaim", seen |-> "RETRYING", number |-> row[d].attempts] \in Attempt
    BY <1>1 DEF Attempt, AttemptPc, Status
  <1>5. QED
    BY <1>2, <1>3, <1>4 DEF Candidate

\* Putting a copy back leaves a count of copies per event.
LEMMA RequeueType ==
    ASSUME TypeOK, NEW e
    PROVE  [ready EXCEPT ![e] = @ + 1] \in [Event -> Nat]
  <1>1. CASE e \in Event
    BY <1>1 DEF TypeOK
  <1>2. CASE e \notin Event
    BY <1>2 DEF TypeOK
  <1>3. QED
    BY <1>1, <1>2

\* The idle states are states.
LEMMA IdleTaskType == IdleTask \in TaskState /\ IdleTask.event = NoEvent /\ ~IdleTask.held
  BY DEF IdleTask, TaskState

LEMMA NoAttemptsType == NoAttempts \in [Delivery -> Attempt]
  BY DEF NoAttempts, NoAttempt, Attempt, AttemptPc, Status

\* The initial state has its types.
LEMMA TypeInit == Init => TypeOK
  <1> SUFFICES ASSUME Init PROVE TypeOK
    OBVIOUS
  <1>1. NoRow \in Row /\ ~NoRow.due
    BY RowOfType DEF NoRow, Status
  <1>2. NoAttempts \in [Delivery -> Attempt]
    BY DEF NoAttempts, NoAttempt, Attempt, AttemptPc, Status
  <1>3. IdleTask \in TaskState
    BY DEF IdleTask, TaskState
  <1>4. QED
    BY <1>1, <1>2, <1>3 DEF Init, TypeOK

\* A deliver call that moves on, or whose row is updated, keeps the types.
LEMMA CallTypes ==
    ASSUME TypeOK, NEW o \in Owner, NEW d \in Delivery
    PROVE  /\ att[o][d] \in Attempt
           /\ att[o][d].number \in Nat
           /\ row[d] \in Row
           /\ row[d].attempts \in Nat
           /\ row[d].due \in BOOLEAN
           /\ \A pc \in AttemptPc :
                Goto(o, d, pc) => att' \in [Owner -> [Delivery -> Attempt]]
           /\ \A status \in Status, n \in Nat, due \in BOOLEAN :
                SetRow(d, status, n, due) /\ (due => status = "RETRYING") =>
                  /\ row' \in [Delivery -> Row]
                  /\ \A c \in Delivery : row'[c].due => row'[c].status = "RETRYING"
  <1>1. att[o][d] \in Attempt /\ att[o][d].number \in Nat
    BY DEF TypeOK, Attempt
  <1>2. row[d] \in Row /\ row[d].attempts \in Nat /\ row[d].due \in BOOLEAN
    BY DEF TypeOK, Row
  <1>3. ASSUME NEW pc \in AttemptPc, Goto(o, d, pc)
        PROVE  att' \in [Owner -> [Delivery -> Attempt]]
    <2> DEFINE call == [att[o][d] EXCEPT !.pc = pc]
               calls == [att[o] EXCEPT ![d] = call]
    <2>1. call \in Attempt
      BY <1>1 DEF Attempt
    <2>2. calls \in [Delivery -> Attempt]
      BY <2>1 DEF TypeOK
    <2>3. att' = [att EXCEPT ![o] = calls]
      BY <1>3 DEF Goto
    <2>4. QED
      BY <2>2, <2>3 DEF TypeOK
  <1>4. ASSUME NEW status \in Status, NEW n \in Nat, NEW due \in BOOLEAN,
               SetRow(d, status, n, due), due => status = "RETRYING"
        PROVE  /\ row' \in [Delivery -> Row]
               /\ \A c \in Delivery : row'[c].due => row'[c].status = "RETRYING"
    BY <1>4, RowOfType DEF TypeOK, SetRow
  <1>5. QED
    BY <1>1, <1>2, <1>3, <1>4

\* Only a row that is RETRYING becomes due, and nothing else of it changes but its age.
LEMMA TimeEffect ==
    ASSUME TypeOK, NEW d \in Delivery, TimePasses(d)
    PROVE  /\ row' \in [Delivery -> Row]
           /\ \A c \in Delivery : row'[c].due => row'[c].status = "RETRYING"
           /\ \A c \in Delivery : row'[c].status = row[c].status
                                 /\ row'[c].attempts = row[c].attempts
  <1> DEFINE due == [row[d] EXCEPT !.due = TRUE]
             stale == [row[d] EXCEPT !.stale = TRUE]
  <1>1. row \in [Delivery -> Row] /\ row[d] \in Row
    BY DEF TypeOK
  <1>2. /\ due \in Row /\ due.status = row[d].status /\ due.attempts = row[d].attempts
        /\ stale \in Row /\ stale.status = row[d].status /\ stale.attempts = row[d].attempts
        /\ stale.due = row[d].due
    BY <1>1 DEF Row
  <1>3. CASE BackoffElapses(d)
    <2>1. row' = [row EXCEPT ![d] = due] /\ row[d].status = "RETRYING"
      BY <1>3 DEF BackoffElapses
    <2>2. QED
      BY <1>1, <1>2, <2>1 DEF TypeOK
  <1>4. CASE LeaseElapses(d)
    <2>1. row' = [row EXCEPT ![d] = stale]
      BY <1>4 DEF LeaseElapses
    <2>2. QED
      BY <1>1, <1>2, <2>1 DEF TypeOK
  <1>5. QED
    BY <1>3, <1>4 DEF TimePasses

\* Every step keeps the types.
LEMMA TypeStep == TypeOK /\ [Next]_vars => TypeOK'
  <1> SUFFICES ASSUME TypeOK, [Next]_vars PROVE TypeOK'
    OBVIOUS
  <1> USE DeliveryAssumption
  <1>1. ASSUME NEW e \in Event, Arrive(e) PROVE TypeOK'
    BY <1>1 DEF TypeOK, Arrive, outsideVars
  <1>2. ASSUME NEW t \in Task, NEW e \in Event, Receive(t, e) PROVE TypeOK'
    <2>1. ready' \in [Event -> Nat]
      BY <1>2 DEF TypeOK, Receive
    <2>2. task' \in [Task -> TaskState]
      BY <1>2 DEF TypeOK, Receive, TaskState
    <2>3. QED
      BY <1>2, <2>1, <2>2 DEF TypeOK, Receive, outsideVars
  <1>3. ASSUME NEW t \in Task, Reject(t) PROVE TypeOK'
    <2>1. task' \in [Task -> TaskState]
      BY <1>3, IdleTaskType DEF TypeOK, Reject
    <2>2. rejected' \subseteq Event
      BY <1>3 DEF TypeOK, Reject
    <2>3. QED
      BY <1>3, <2>1, <2>2 DEF TypeOK, Reject, outsideVars
  <1>4. ASSUME NEW t \in Task, CreateDeliveries(t) PROVE TypeOK'
    <2>1. NewRow \in Row /\ ~NewRow.due
      BY RowOfType DEF NewRow, Status
    <2>2. /\ row' \in [Delivery -> Row]
          /\ \A d \in Delivery : row'[d].due => row'[d].status = "RETRYING"
      BY <1>4, <2>1 DEF TypeOK, CreateDeliveries
    <2>3. task' \in [Task -> TaskState]
      BY <1>4 DEF TypeOK, CreateDeliveries, TaskState
    <2>4. QED
      BY <1>4, <2>2, <2>3 DEF TypeOK, CreateDeliveries, queueVars, outsideVars
  <1>5. ASSUME NEW t \in Task, ReadDeliveries(t) PROVE TypeOK'
    <2>1. [d \in Delivery |-> IF d[1] = task[t].event THEN Snapshot(d) ELSE NoAttempt]
            \in [Delivery -> Attempt]
      BY SnapshotType DEF NoAttempt, Attempt, AttemptPc, Status
    <2>2. att' \in [Owner -> [Delivery -> Attempt]]
      BY <1>5, <2>1 DEF TypeOK, ReadDeliveries, Owner
    <2>3. task' \in [Task -> TaskState]
      BY <1>5 DEF TypeOK, ReadDeliveries, TaskState
    <2>4. QED
      BY <1>5, <2>2, <2>3 DEF TypeOK, ReadDeliveries, queueVars, outsideVars
  <1>6. ASSUME NEW t \in Task, Settle(t) PROVE TypeOK'
    <2>1. ready' \in [Event -> Nat]
      BY <1>6, RequeueType DEF TypeOK, Settle
    <2>2. task' \in [Task -> TaskState]
      BY <1>6, IdleTaskType DEF TypeOK, Settle
    <2>3. att' \in [Owner -> [Delivery -> Attempt]]
      BY <1>6, NoAttemptsType DEF TypeOK, Settle
    <2>4. QED
      BY <1>6, <2>1, <2>2, <2>3 DEF TypeOK, Settle, outsideVars
  <1>7. ASSUME NEW o \in Owner, NEW d \in Delivery, Claim(o, d) PROVE TypeOK'
    <2>1. /\ row' \in [Delivery -> Row]
          /\ \A c \in Delivery : row'[c].due => row'[c].status = "RETRYING"
      BY <1>7, CallTypes DEF TypeOK, Claim, Status
    <2>2. att' \in [Owner -> [Delivery -> Attempt]]
      BY <1>7, CallTypes DEF Claim, AttemptPc
    <2>3. QED
      BY <1>7, <2>1, <2>2 DEF TypeOK, Claim, queueVars, outsideVars
  <1>8. ASSUME NEW o \in Owner, NEW d \in Delivery, Send(o, d) PROVE TypeOK'
    <2>1. att' \in [Owner -> [Delivery -> Attempt]]
      BY <1>8, CallTypes DEF Send, AttemptPc
    <2>2. sent' \in [Delivery -> SUBSET Nat]
      BY <1>8, CallTypes DEF TypeOK, Send
    <2>3. QED
      BY <1>8, <2>1, <2>2 DEF TypeOK, Send, queueVars
  <1>9. ASSUME NEW o \in Owner, NEW d \in Delivery, Succeed(o, d) PROVE TypeOK'
    <2>1. /\ row' \in [Delivery -> Row]
          /\ \A c \in Delivery : row'[c].due => row'[c].status = "RETRYING"
      BY <1>9, CallTypes DEF TypeOK, Succeed, Status
    <2>2. att' \in [Owner -> [Delivery -> Attempt]]
      BY <1>9, CallTypes DEF Succeed, AttemptPc
    <2>3. QED
      BY <1>9, <2>1, <2>2 DEF TypeOK, Succeed, queueVars, outsideVars
  <1>10. ASSUME NEW o \in Owner, NEW d \in Delivery, Fail(o, d) PROVE TypeOK'
    <2>1. Exhausted(att[o][d].number) \in BOOLEAN
      BY DEF Exhausted
    <2>2. /\ row' \in [Delivery -> Row]
          /\ \A c \in Delivery : row'[c].due => row'[c].status = "RETRYING"
      BY <1>10, <2>1, CallTypes DEF TypeOK, Fail, Status
    <2>3. att' \in [Owner -> [Delivery -> Attempt]]
      BY <1>10, CallTypes DEF Fail, AttemptPc
    <2>4. QED
      BY <1>10, <2>2, <2>3 DEF TypeOK, Fail, queueVars, outsideVars
  <1>11. CASE RecoverOrphans
    <2>1. ASSUME NEW d \in Delivery
          PROVE  /\ RowOf("RETRYING", row[d].attempts, TRUE) \in Row
                 /\ RowOf("RETRYING", row[d].attempts, TRUE).status = "RETRYING"
      <3>1. row[d].attempts \in Nat
        BY DEF TypeOK, Row
      <3>2. QED
        BY <3>1 DEF RowOf, Row, Status
    <2>2. /\ row' \in [Delivery -> Row]
          /\ \A d \in Delivery : row'[d].due => row'[d].status = "RETRYING"
      BY <1>11, <2>1 DEF TypeOK, RecoverOrphans
    <2>3. QED
      BY <1>11, <2>2 DEF TypeOK, RecoverOrphans, queueVars, outsideVars
  <1>12. CASE ReadCandidates
    <2>1. [d \in Delivery |-> Candidate(d)] \in [Delivery -> Attempt]
      BY SnapshotType
    <2>2. att' \in [Owner -> [Delivery -> Attempt]]
      BY <1>12, <2>1 DEF TypeOK, ReadCandidates, Owner
    <2>3. QED
      BY <1>12, <2>2 DEF TypeOK, ReadCandidates, queueVars, outsideVars
  <1>13. CASE EndCycle
    <2>1. att' \in [Owner -> [Delivery -> Attempt]]
      BY <1>13, NoAttemptsType DEF TypeOK, EndCycle, Owner
    <2>2. QED
      BY <1>13, <2>1 DEF TypeOK, EndCycle, queueVars, outsideVars
  <1>14. ASSUME NEW d \in Delivery, DeadClaim(d) PROVE TypeOK'
    <2>1. /\ row' \in [Delivery -> Row]
          /\ \A c \in Delivery : row'[c].due => row'[c].status = "RETRYING"
      BY <1>14, CallTypes DEF TypeOK, DeadClaim, Status, Owner
    <2>2. att' \in [Owner -> [Delivery -> Attempt]]
      BY <1>14, CallTypes DEF DeadClaim, AttemptPc, Owner
    <2>3. QED
      BY <1>14, <2>1, <2>2 DEF TypeOK, DeadClaim, queueVars, outsideVars
  <1>15. ASSUME NEW d \in Delivery, DeadPublish(d) PROVE TypeOK'
    <2>1. att' \in [Owner -> [Delivery -> Attempt]]
      BY <1>15, CallTypes DEF DeadPublish, AttemptPc, Owner
    <2>2. deadLettered' \subseteq Delivery
      BY <1>15 DEF TypeOK, DeadPublish
    <2>3. QED
      BY <1>15, <2>1, <2>2 DEF TypeOK, DeadPublish, queueVars
  <1>16. ASSUME NEW d \in Delivery, DeadRecord(d) PROVE TypeOK'
    <2>1. /\ row' \in [Delivery -> Row]
          /\ \A c \in Delivery : row'[c].due => row'[c].status = "RETRYING"
      BY <1>16, CallTypes DEF TypeOK, DeadRecord, Status, Owner
    <2>2. att' \in [Owner -> [Delivery -> Attempt]]
      BY <1>16, CallTypes DEF DeadRecord, AttemptPc, Owner
    <2>3. QED
      BY <1>16, <2>1, <2>2 DEF TypeOK, DeadRecord, queueVars, outsideVars
  <1>17. ASSUME NEW d \in Delivery, Handle(d) PROVE TypeOK'
    BY <1>17 DEF TypeOK, Handle, queueVars
  <1>18. ASSUME NEW d \in Delivery, BackoffElapses(d) PROVE TypeOK'
    <2>1. /\ row' \in [Delivery -> Row]
          /\ \A c \in Delivery : row'[c].due => row'[c].status = "RETRYING"
      BY <1>18, TimeEffect DEF TimePasses
    <2>2. QED
      BY <1>18, <2>1 DEF TypeOK, BackoffElapses, queueVars, outsideVars
  <1>19. ASSUME NEW d \in Delivery, LeaseElapses(d) PROVE TypeOK'
    <2>1. /\ row' \in [Delivery -> Row]
          /\ \A c \in Delivery : row'[c].due => row'[c].status = "RETRYING"
      BY <1>19, TimeEffect DEF TimePasses
    <2>2. faults' \in Nat
      BY <1>19 DEF TypeOK, LeaseElapses
    <2>3. QED
      BY <1>19, <2>1, <2>2 DEF TypeOK, LeaseElapses, queueVars, outsideVars
  <1>20. ASSUME NEW t \in Task, TaskError(t) PROVE TypeOK'
    <2>1. ready' \in [Event -> Nat]
      BY <1>20, RequeueType DEF TypeOK, TaskError
    <2>2. task' \in [Task -> TaskState]
      BY <1>20, IdleTaskType DEF TypeOK, TaskError
    <2>3. QED
      BY <1>20, <2>1, <2>2 DEF TypeOK, TaskError, Fault, outsideVars
  <1>21. ASSUME NEW o \in Owner, NEW d \in Delivery, AttemptError(o, d) PROVE TypeOK'
    <2>1. att' \in [Owner -> [Delivery -> Attempt]]
      BY <1>21, CallTypes DEF AttemptError, AttemptPc
    <2>2. QED
      BY <1>21, <2>1 DEF TypeOK, AttemptError, Fault, queueVars, outsideVars
  <1>22. CASE ConnectionLost
    <2>1. ready' \in [Event -> Nat]
      BY <1>22, HoldersFinite DEF TypeOK, ConnectionLost, RequeueHeld
    <2>2. task' \in [Task -> TaskState]
      <3>1. ASSUME NEW t \in Task PROVE [task[t] EXCEPT !.held = FALSE] \in TaskState
        <4>1. task[t] \in TaskState
          BY DEF TypeOK
        <4>2. QED
          BY <4>1 DEF TaskState
      <3>2. QED
        BY <1>22, <3>1 DEF ConnectionLost
    <2>3. QED
      BY <1>22, <2>1, <2>2 DEF TypeOK, ConnectionLost, Fault, outsideVars
  <1>23. CASE Crash
    <2>1. ready' \in [Event -> Nat]
      BY <1>23, HoldersFinite DEF TypeOK, Crash, RequeueHeld
    <2>2. task' \in [Task -> TaskState] /\ att' \in [Owner -> [Delivery -> Attempt]]
      BY <1>23, IdleTaskType, NoAttemptsType DEF Crash
    <2>3. QED
      BY <1>23, <2>1, <2>2 DEF TypeOK, Crash, Fault, outsideVars
  <1>24. CASE UNCHANGED vars
    BY <1>24 DEF TypeOK, vars, queueVars, outsideVars
  <1>25. QED
    BY <1>1, <1>2, <1>3, <1>4, <1>5, <1>6, <1>7, <1>8, <1>9, <1>10, <1>11, <1>12, <1>13,
       <1>14, <1>15, <1>16, <1>17, <1>18, <1>19, <1>20, <1>21, <1>22, <1>23, <1>24
       DEF Next, WorkerNext, ConsumerStep, DeliverStep, PollStep, DeadLetterStep, TimePasses,
           FaultStep

\* Every variable keeps its type whatever crashes, is late or is redelivered.
THEOREM TypeCorrect == Spec => []TypeOK
  BY TypeInit, TypeStep, PTL DEF Spec

-----------------------------------------------------------------------------
(* What one step does to the rows and the calls                            *)

DeadPcs == {"deadPublish", "deadConfirmed", "deadUnconfirmed"}

\* Moving one call on changes its control state and no other call.
LEMMA GotoEffect ==
    ASSUME TypeOK, NEW o \in Owner, NEW d \in Delivery, NEW pc, Goto(o, d, pc)
    PROVE  /\ att'[o][d].pc = pc
           /\ att'[o][d].seen = att[o][d].seen
           /\ att'[o][d].number = att[o][d].number
           /\ \A p \in Owner, c \in Delivery :
                p # o \/ c # d => att'[p][c] = att[p][c]
  <1> DEFINE call == [att[o][d] EXCEPT !.pc = pc]
             calls == [att[o] EXCEPT ![d] = call]
  <1>1. att' = [att EXCEPT ![o] = calls]
    BY DEF Goto
  <1>2. /\ att \in [Owner -> [Delivery -> Attempt]]
        /\ att[o][d] \in Attempt
    BY DEF TypeOK
  <1>3. call.pc = pc /\ call.seen = att[o][d].seen /\ call.number = att[o][d].number
    BY <1>2 DEF Attempt
  <1>4. att'[o][d] = call
    BY <1>1, <1>2
  <1>5. \A p \in Owner, c \in Delivery : p # o \/ c # d => att'[p][c] = att[p][c]
    BY <1>1, <1>2
  <1>6. QED
    BY <1>3, <1>4, <1>5

\* A statement of deliver moves its own call past the claim and no other.
LEMMA DeliverStepCall ==
    ASSUME TypeOK, NEW o \in Owner, NEW d \in Delivery, DeliverStep(o, d)
    PROVE  /\ att'[o][d].pc \in {"request", "waiting", "done", "threw"}
           /\ att'[o][d].number = att[o][d].number
           /\ \A p \in Owner, c \in Delivery :
                p # o \/ c # d => att'[p][c] = att[p][c]
  <1>1. \E pc \in {"request", "waiting", "done", "threw"} : Goto(o, d, pc)
    BY DEF DeliverStep, Claim, Send, Succeed, Fail
  <1>2. QED
    BY <1>1, GotoEffect

\* So does a statement of moveToDeadLetter, whose calls belong to the retry cycle.
LEMMA DeadLetterStepCall ==
    ASSUME TypeOK, NEW d \in Delivery, DeadLetterStep(d)
    PROVE  /\ att'[Poll][d].pc \in DeadPcs \cup {"done", "threw"}
           /\ att'[Poll][d].number = att[Poll][d].number
           /\ \A p \in Owner, c \in Delivery :
                p # Poll \/ c # d => att'[p][c] = att[p][c]
  <1>1. \E pc \in DeadPcs \cup {"done", "threw"} : Goto(Poll, d, pc)
    BY DEF DeadLetterStep, DeadClaim, DeadPublish, DeadRecord, DeadPcs
  <1>2. QED
    BY <1>1, GotoEffect DEF Owner

\* Updating one row writes what the call gives it and no other row.
LEMMA SetRowEffect ==
    ASSUME TypeOK, NEW d \in Delivery, NEW status, NEW n, NEW due,
           SetRow(d, status, n, due)
    PROVE  /\ row'[d].status = status
           /\ row'[d].attempts = n
           /\ \A c \in Delivery : c # d => row'[c] = row[c]
  BY DEF TypeOK, SetRow, RowOf

\* Calls are started, dropped or fail, with no row touched: ReadDeliveries, Settle,
\* ReadCandidates, EndCycle, AttemptError and Crash.
CallsChange ==
    /\ UNCHANGED <<row, sent, deadLettered>>
    /\ \A o \in Owner, d \in Delivery :
         \/ att'[o][d] \in {att[o][d], NoAttempt, Snapshot(d)}
         \/ o = Poll /\ att'[o][d] = Candidate(d)
         \/ att'[o][d].pc = "threw"

\* A step leaves rows and calls alone, changes calls only, or is one of the
\* statements that read and write a row.
LEMMA CoreSteps ==
    ASSUME TypeOK, [Next]_vars
    PROVE  \/ UNCHANGED <<row, att, sent, deadLettered>>
           \/ CallsChange
           \/ \E t \in Task : CreateDeliveries(t)
           \/ \E o \in Owner, d \in Delivery : DeliverStep(o, d)
           \/ RecoverOrphans
           \/ \E d \in Delivery : DeadLetterStep(d)
           \/ \E d \in Delivery : TimePasses(d)
  <1>1. ASSUME NEW t \in Task, ReadDeliveries(t) PROVE CallsChange
    BY <1>1 DEF ReadDeliveries, CallsChange, TypeOK, Owner, outsideVars
  <1>2. ASSUME NEW t \in Task, Settle(t) PROVE CallsChange
    BY <1>2 DEF Settle, CallsChange, TypeOK, Owner, NoAttempts, outsideVars
  <1>3. ASSUME ReadCandidates PROVE CallsChange
    BY <1>3 DEF ReadCandidates, CallsChange, TypeOK, Owner, outsideVars
  <1>4. ASSUME EndCycle PROVE CallsChange
    BY <1>4 DEF EndCycle, CallsChange, TypeOK, Owner, NoAttempts, outsideVars
  <1>5. ASSUME NEW o \in Owner, NEW d \in Delivery, AttemptError(o, d) PROVE CallsChange
    BY <1>5, GotoEffect DEF AttemptError, CallsChange, outsideVars
  <1>6. ASSUME Crash PROVE CallsChange
    BY <1>6 DEF Crash, CallsChange, NoAttempts, outsideVars
  <1>7. ASSUME \/ \E e \in Event : Arrive(e)
               \/ \E t \in Task, e \in Event : Receive(t, e)
               \/ \E t \in Task : Reject(t) \/ TaskError(t)
               \/ \E d \in Delivery : Handle(d)
               \/ ConnectionLost
               \/ UNCHANGED vars
        PROVE  UNCHANGED <<row, att, sent, deadLettered>>
    BY <1>7 DEF Arrive, Receive, Reject, TaskError, Handle, ConnectionLost, vars, outsideVars
  <1>8. QED
    BY <1>1, <1>2, <1>3, <1>4, <1>5, <1>6, <1>7
       DEF Next, WorkerNext, ConsumerStep, PollStep, FaultStep

-----------------------------------------------------------------------------
(* Rows only move forward                                                  *)

\* A row that no attempt has claimed has counted none.
RowsFresh ==
    \A d \in Delivery : row[d].status \in {"NONE", "PENDING"} => row[d].attempts = 0

\* A call about to claim its row has read it PENDING or RETRYING.
ClaimsRemember ==
    \A o \in Owner, d \in Delivery :
        At(o, d, "claim") => att[o][d].seen \in {"PENDING", "RETRYING"}

RowInv == TypeOK /\ RowsFresh /\ ClaimsRemember

\* What one step makes of the row of d: nothing new, a fresh row, the next attempt's
\* claim, the outcome of the last one, or another wait for the same number.
Forward(d) ==
    \/ row'[d] = row[d]
    \/ /\ row[d].status = "NONE"
       /\ row'[d].status = "PENDING" /\ row'[d].attempts = 0
    \/ /\ row[d].status \in {"PENDING", "RETRYING"}
       /\ row'[d].status = "PROCESSING" /\ row'[d].attempts = row[d].attempts + 1
    \/ /\ row[d].status = "PROCESSING"
       /\ row'[d].status \notin {"NONE", "PENDING"} /\ row'[d].attempts = row[d].attempts
    \/ /\ row[d].status = "RETRYING"
       /\ row'[d].status \in {"RETRYING", "PROCESSING"} /\ row'[d].attempts = row[d].attempts

LEMMA RowsForward ==
    ASSUME RowInv, [Next]_vars, NEW d \in Delivery
    PROVE  Forward(d)
  <1> USE DEF RowInv
  <1>1. ASSUME UNCHANGED row PROVE Forward(d)
    BY <1>1 DEF Forward
  <1>2. ASSUME NEW t \in Task, CreateDeliveries(t) PROVE Forward(d)
    BY <1>2 DEF CreateDeliveries, Forward, NewRow, RowOf
  <1>3. ASSUME NEW o \in Owner, NEW c \in Delivery, DeliverStep(o, c) PROVE Forward(d)
    <2>1. CASE Claim(o, c)
      <3>1. CASE Claimable(o, c)
        <4>1. /\ row[c].status \in {"PENDING", "RETRYING"}
              /\ att[o][c].number = row[c].attempts + 1
          BY <2>1, <3>1, CallTypes DEF Claim, Claimable, ClaimsRemember
        <4>2. SetRow(c, "PROCESSING", att[o][c].number, FALSE)
          BY <2>1, <3>1 DEF Claim
        <4>3. /\ row'[c].status = "PROCESSING"
              /\ row'[c].attempts = att[o][c].number
              /\ c # d => row'[d] = row[d]
          BY <4>2 DEF TypeOK, SetRow, RowOf
        <4>4. QED
          BY <4>1, <4>3 DEF Forward
      <3>2. CASE ~Claimable(o, c)
        BY <2>1, <3>2, <1>1 DEF Claim
      <3>3. QED
        BY <3>1, <3>2
    <2>2. CASE Send(o, c)
      BY <2>2, <1>1 DEF Send
    <2>3. CASE Succeed(o, c)
      <3>1. CASE Owned(c, att[o][c].number)
        <4>1. SetRow(c, "SUCCEEDED", att[o][c].number, FALSE)
          BY <2>3, <3>1 DEF Succeed
        <4>2. /\ row'[c].status = "SUCCEEDED" /\ row'[c].attempts = att[o][c].number
              /\ c # d => row'[d] = row[d]
          BY <4>1 DEF TypeOK, SetRow, RowOf
        <4>3. QED
          BY <3>1, <4>2 DEF Owned, Forward
      <3>2. CASE ~Owned(c, att[o][c].number)
        BY <2>3, <3>2, <1>1 DEF Succeed
      <3>3. QED
        BY <3>1, <3>2
    <2>4. CASE Fail(o, c)
      <3>1. CASE Owned(c, att[o][c].number)
        <4>1. PICK due : SetRow(c, "RETRYING", att[o][c].number, due)
          BY <2>4, <3>1 DEF Fail
        <4>2. /\ row'[c].status = "RETRYING" /\ row'[c].attempts = att[o][c].number
              /\ c # d => row'[d] = row[d]
          BY <4>1 DEF TypeOK, SetRow, RowOf
        <4>3. QED
          BY <3>1, <4>2 DEF Owned, Forward
      <3>2. CASE ~Owned(c, att[o][c].number)
        BY <2>4, <3>2, <1>1 DEF Fail
      <3>3. QED
        BY <3>1, <3>2
    <2>5. QED
      BY <1>3, <2>1, <2>2, <2>3, <2>4 DEF DeliverStep
  <1>4. ASSUME RecoverOrphans PROVE Forward(d)
    BY <1>4 DEF RecoverOrphans, Orphaned, Forward, RowOf
  <1>5. ASSUME NEW c \in Delivery, DeadLetterStep(c) PROVE Forward(d)
    <2>1. CASE DeadClaim(c)
      <3>1. CASE Due(c) /\ row[c].attempts = att[Poll][c].number
        <4>1. SetRow(c, "PROCESSING", att[Poll][c].number, FALSE)
          BY <2>1, <3>1 DEF DeadClaim
        <4>2. /\ row'[c].status = "PROCESSING" /\ row'[c].attempts = row[c].attempts
              /\ c # d => row'[d] = row[d]
          BY <3>1, <4>1, SetRowEffect
        <4>3. QED
          BY <3>1, <4>2 DEF Due, Forward
      <3>2. CASE ~(Due(c) /\ row[c].attempts = att[Poll][c].number)
        BY <2>1, <3>2, <1>1 DEF DeadClaim
      <3>3. QED
        BY <3>1, <3>2
    <2>2. CASE DeadPublish(c)
      BY <2>2, <1>1 DEF DeadPublish
    <2>3. CASE DeadRecord(c)
      <3>1. CASE Owned(c, att[Poll][c].number)
        <4>1. PICK status \in {"FAILED", "RETRYING"} :
                SetRow(c, status, att[Poll][c].number, FALSE)
          BY <2>3, <3>1 DEF DeadRecord
        <4>2. /\ row'[c].status = status
              /\ row'[c].attempts = att[Poll][c].number
              /\ c # d => row'[d] = row[d]
          BY <4>1 DEF TypeOK, SetRow, RowOf
        <4>3. QED
          BY <3>1, <4>2 DEF Owned, Forward
      <3>2. CASE ~Owned(c, att[Poll][c].number)
        BY <2>3, <3>2, <1>1 DEF DeadRecord
      <3>3. QED
        BY <3>1, <3>2
    <2>4. QED
      BY <1>5, <2>1, <2>2, <2>3 DEF DeadLetterStep
  <1>6. ASSUME NEW c \in Delivery, TimePasses(c) PROVE Forward(d)
    BY <1>6 DEF TimePasses, BackoffElapses, LeaseElapses, Forward, TypeOK, Row
  <1>7. QED
    BY CoreSteps, <1>1, <1>2, <1>3, <1>4, <1>5, <1>6 DEF CallsChange

\* Consequences: numbers never shrink and a row that has started stays started.
LEMMA RowsMonotone ==
    ASSUME RowInv, [Next]_vars, NEW d \in Delivery
    PROVE  /\ row[d].attempts \in Nat /\ row'[d].attempts \in Nat
           /\ row[d].attempts <= row'[d].attempts
           /\ Started(d) => Started(d)'
           /\ row[d].status # "NONE" => row'[d].status # "NONE"
           /\ row[d].status \in Terminal => row'[d] = row[d]
  <1>1. row[d].attempts \in Nat /\ row'[d].attempts \in Nat
    BY TypeStep DEF RowInv, TypeOK, Row
  <1>2. Forward(d)
    BY RowsForward
  <1>3. QED
    BY <1>1, <1>2 DEF Forward, RowInv, RowsFresh, Started, Terminal

LEMMA RowInvInductive == (Init => RowInv) /\ (RowInv /\ [Next]_vars => RowInv')
  <1>1. Init => RowInv
    BY TypeInit DEF Init, RowInv, RowsFresh, ClaimsRemember, At, NoRow, RowOf, NoAttempts,
                    NoAttempt
  <1>2. ASSUME RowInv, [Next]_vars PROVE RowInv'
    <2>1. TypeOK'
      BY <1>2, TypeStep DEF RowInv
    <2>2. RowsFresh'
      BY <1>2, RowsForward DEF Forward, RowInv, RowsFresh
    <2>3. ClaimsRemember'
      <3> SUFFICES ASSUME NEW o \in Owner, NEW d \in Delivery, att'[o][d].pc = "claim"
                   PROVE  att'[o][d].seen \in {"PENDING", "RETRYING"}
        BY DEF ClaimsRemember, At
      <3>0. att[o][d] = att'[o][d] => att'[o][d].seen \in {"PENDING", "RETRYING"}
        BY <1>2 DEF RowInv, ClaimsRemember, At
      <3>1. CASE CallsChange
        <4>1. NoAttempt.pc # "claim" /\ (att'[o][d] = Candidate(d) =>
                 att'[o][d] = Snapshot(d) \/ att'[o][d].pc \in {"none", "deadClaim"})
          BY DEF Candidate, NoAttempt
        <4>2. att'[o][d] \in {att[o][d], Snapshot(d)}
          BY <3>1, <4>1 DEF CallsChange
        <4>3. Snapshot(d).pc = "claim" => Snapshot(d).seen \in {"PENDING", "RETRYING"}
          BY DEF Snapshot
        <4>4. QED
          BY <3>0, <4>2, <4>3
      <3>2. ASSUME NEW p \in Owner, NEW c \in Delivery, DeliverStep(p, c)
            PROVE  att[o][d] = att'[o][d]
        BY <1>2, <3>2, DeliverStepCall DEF RowInv
      <3>3. ASSUME NEW c \in Delivery, DeadLetterStep(c)
            PROVE  att[o][d] = att'[o][d]
        BY <1>2, <3>3, DeadLetterStepCall DEF RowInv, DeadPcs
      <3>4. QED
        BY <1>2, CoreSteps, <3>0, <3>1, <3>2, <3>3
           DEF RowInv, CreateDeliveries, RecoverOrphans, TimePasses, BackoffElapses, LeaseElapses
    <2>4. QED
      BY <2>1, <2>2, <2>3 DEF RowInv
  <1>3. QED
    BY <1>1, <1>2

LEMMA RowInvAlways == Spec => []RowInv
  BY RowInvInductive, PTL DEF Spec

\* A delivery that has succeeded or failed keeps its status for good.
THEOREM TerminalStaysFinal == Spec => TerminalIsFinal
  <1>1. RowInv /\ [Next]_vars =>
          [\A d \in Delivery :
             row[d].status \in Terminal => row'[d].status = row[d].status]_vars
    BY RowsMonotone
  <1>2. QED
    BY <1>1, RowInvAlways, PTL DEF Spec, TerminalIsFinal

-----------------------------------------------------------------------------
(* Attempt numbers                                                         *)

\* A claimed number is one the row has counted.
NumbersClaimed ==
    \A o \in Owner, d \in Delivery : Live(o, d) => att[o][d].number \in 1 .. row[d].attempts

NumberInv == RowInv /\ NumbersClaimed /\ AttemptNumbersAreFresh

\* A step that sends nothing and makes no call live keeps the numbers fresh.
LEMMA NumbersKept ==
    ASSUME NumberInv, [Next]_vars, UNCHANGED sent,
           \A o \in Owner, d \in Delivery :
             Live(o, d)' => Live(o, d) /\ att'[o][d] = att[o][d]
    PROVE  (NumbersClaimed /\ AttemptNumbersAreFresh)'
  <1>1. ASSUME NEW d \in Delivery
        PROVE  /\ row[d].attempts \in Nat /\ row'[d].attempts \in Nat
               /\ row[d].attempts <= row'[d].attempts
    BY RowsMonotone DEF NumberInv
  <1>2. NumbersClaimed'
    BY <1>1 DEF NumberInv, NumbersClaimed
  <1>3. ASSUME NEW d \in Delivery PROVE sent'[d] \subseteq 1 .. row'[d].attempts
    BY <1>1 DEF NumberInv, AttemptNumbersAreFresh
  <1>4. ASSUME NEW d \in Delivery, NEW o \in Owner, At(o, d, "request")'
        PROVE  att'[o][d].number \notin sent'[d]
    BY <1>4 DEF NumberInv, AttemptNumbersAreFresh, At, Live
  <1>5. ASSUME NEW d \in Delivery, NEW o \in Owner, NEW p \in Owner, Live(o, d)', Live(p, d)',
               att'[o][d].number = att'[p][d].number
        PROVE  o = p
    BY <1>5 DEF NumberInv, AttemptNumbersAreFresh
  <1>6. QED
    BY <1>2, <1>3, <1>4, <1>5 DEF AttemptNumbersAreFresh

\* The guard on attemptCount makes the claimed number a new one.
LEMMA NumbersClaim ==
    ASSUME NumberInv, [Next]_vars, NEW o \in Owner, NEW d \in Delivery,
           Claim(o, d), Claimable(o, d)
    PROVE  (NumbersClaimed /\ AttemptNumbersAreFresh)'
  <1>1. /\ att'[o][d].pc = "request"
        /\ att'[o][d].number = row[d].attempts + 1
        /\ \A p \in Owner, c \in Delivery : p # o \/ c # d => att'[p][c] = att[p][c]
    <2>1. TypeOK /\ Goto(o, d, "request") /\ att[o][d].number = row[d].attempts + 1
      BY DEF NumberInv, RowInv, Claim, Claimable
    <2>2. QED
      BY <2>1, GotoEffect
  <1>2. /\ row'[d].attempts = row[d].attempts + 1
        /\ \A c \in Delivery : c # d => row'[c] = row[c]
    <2>1. SetRow(d, "PROCESSING", att[o][d].number, FALSE)
      BY DEF Claim
    <2>2. QED
      BY <2>1, CallTypes DEF NumberInv, RowInv, TypeOK, SetRow, RowOf, Claimable
  <1>3. UNCHANGED sent
    BY DEF Claim, outsideVars
  <1>4. \A c \in Delivery : row[c].attempts \in Nat
    BY DEF NumberInv, RowInv, TypeOK, Row
  <1>5. NumbersClaimed'
    BY <1>1, <1>2, <1>4 DEF NumberInv, NumbersClaimed, Live
  <1>6. ASSUME NEW c \in Delivery PROVE sent'[c] \subseteq 1 .. row'[c].attempts
    BY <1>2, <1>3, <1>4 DEF NumberInv, AttemptNumbersAreFresh
  <1>7. ASSUME NEW c \in Delivery, NEW p \in Owner, At(p, c, "request")'
        PROVE  att'[p][c].number \notin sent'[c]
    BY <1>1, <1>3, <1>4, <1>7 DEF NumberInv, AttemptNumbersAreFresh, At
  <1>8. ASSUME NEW c \in Delivery, NEW p \in Owner, NEW q \in Owner, Live(p, c)', Live(q, c)',
               att'[p][c].number = att'[q][c].number
        PROVE  p = q
    <2>1. \A r \in Owner : r # o /\ Live(r, d)' => att'[r][d].number < row[d].attempts + 1
      BY <1>1, <1>4 DEF NumberInv, NumbersClaimed, Live
    <2>2. CASE c = d
      BY <1>1, <1>4, <1>8, <2>1, <2>2 DEF NumberInv, AttemptNumbersAreFresh, Live
    <2>3. CASE c # d
      BY <1>1, <1>8, <2>3 DEF NumberInv, AttemptNumbersAreFresh, Live
    <2>4. QED
      BY <2>2, <2>3
  <1>9. QED
    BY <1>5, <1>6, <1>7, <1>8 DEF AttemptNumbersAreFresh

\* Sending uses up the number, which no other call holds.
LEMMA NumbersSend ==
    ASSUME NumberInv, NEW o \in Owner, NEW d \in Delivery, Send(o, d)
    PROVE  (NumbersClaimed /\ AttemptNumbersAreFresh)'
  <1>1. /\ At(o, d, "request")
        /\ att'[o][d].pc = "waiting"
        /\ att'[o][d].number = att[o][d].number
        /\ \A p \in Owner, c \in Delivery : p # o \/ c # d => att'[p][c] = att[p][c]
    BY GotoEffect DEF NumberInv, RowInv, Send
  <1>2. /\ UNCHANGED row
        /\ sent'[d] = sent[d] \cup {att[o][d].number}
        /\ \A c \in Delivery : c # d => sent'[c] = sent[c]
    BY DEF NumberInv, RowInv, TypeOK, Send
  <1>3. \A p \in Owner, c \in Delivery :
          Live(p, c)' => Live(p, c) /\ att'[p][c].number = att[p][c].number
    BY <1>1 DEF Live, At
  <1>4. NumbersClaimed'
    BY <1>2, <1>3 DEF NumberInv, NumbersClaimed
  <1>5. ASSUME NEW c \in Delivery PROVE sent'[c] \subseteq 1 .. row'[c].attempts
    BY <1>1, <1>2 DEF NumberInv, NumbersClaimed, AttemptNumbersAreFresh, Live, At
  <1>6. ASSUME NEW c \in Delivery, NEW p \in Owner, At(p, c, "request")'
        PROVE  att'[p][c].number \notin sent'[c]
    BY <1>1, <1>2, <1>6 DEF NumberInv, AttemptNumbersAreFresh, Live, At
  <1>7. ASSUME NEW c \in Delivery, NEW p \in Owner, NEW q \in Owner, Live(p, c)', Live(q, c)',
               att'[p][c].number = att'[q][c].number
        PROVE  p = q
    BY <1>3, <1>7 DEF NumberInv, AttemptNumbersAreFresh
  <1>8. QED
    BY <1>4, <1>5, <1>6, <1>7 DEF AttemptNumbersAreFresh

LEMMA NumberInvInductive == (Init => NumberInv) /\ (NumberInv /\ [Next]_vars => NumberInv')
  <1>1. Init => NumberInv
    BY RowInvInductive DEF Init, NumberInv, NumbersClaimed, AttemptNumbersAreFresh, Live, At,
                           NoAttempts, NoAttempt
  <1>2. ASSUME NumberInv, [Next]_vars PROVE NumberInv'
    <2>1. RowInv'
      BY <1>2, RowInvInductive DEF NumberInv
    <2>2. TypeOK
      BY <1>2 DEF NumberInv, RowInv
    <2>3. ASSUME UNCHANGED <<att, sent>>
          PROVE  (NumbersClaimed /\ AttemptNumbersAreFresh)'
      BY <1>2, <2>3, NumbersKept DEF Live
    <2>4. ASSUME CallsChange PROVE (NumbersClaimed /\ AttemptNumbersAreFresh)'
      <3>1. \A d \in Delivery : /\ Snapshot(d).pc \in {"claim", "done"}
                                /\ Candidate(d).pc \in {"none", "claim", "deadClaim", "done"}
        BY DEF Snapshot, Candidate, NoAttempt
      <3>2. \A o \in Owner, d \in Delivery :
              Live(o, d)' => Live(o, d) /\ att'[o][d] = att[o][d]
        BY <2>4, <3>1 DEF CallsChange, Live, NoAttempt
      <3>3. QED
        BY <1>2, <2>4, <3>2, NumbersKept DEF CallsChange
    <2>5. ASSUME NEW o \in Owner, NEW d \in Delivery, DeliverStep(o, d)
          PROVE  (NumbersClaimed /\ AttemptNumbersAreFresh)'
      <3>1. ASSUME UNCHANGED sent, att'[o][d].pc \notin {"request", "waiting"}
            PROVE  (NumbersClaimed /\ AttemptNumbersAreFresh)'
        <4>1. \A p \in Owner, c \in Delivery :
                Live(p, c)' => Live(p, c) /\ att'[p][c] = att[p][c]
          BY <2>2, <2>5, <3>1, DeliverStepCall DEF Live
        <4>2. QED
          BY <1>2, <3>1, <4>1, NumbersKept
      <3>2. CASE Claim(o, d)
        <4>1. CASE Claimable(o, d)
          BY <1>2, <3>2, <4>1, NumbersClaim
        <4>2. CASE ~Claimable(o, d)
          <5>1. att'[o][d].pc = "done" /\ UNCHANGED sent
            BY <2>2, <3>2, <4>2, GotoEffect DEF Claim, outsideVars
          <5>2. QED
            BY <3>1, <5>1
        <4>3. QED
          BY <4>1, <4>2
      <3>3. CASE Send(o, d)
        BY <1>2, <3>3, NumbersSend
      <3>4. CASE Succeed(o, d) \/ Fail(o, d)
        <4>1. (Goto(o, d, "done") \/ Goto(o, d, "threw")) /\ UNCHANGED sent
          BY <3>4 DEF Succeed, Fail, outsideVars
        <4>2. att'[o][d].pc \in {"done", "threw"}
          BY <2>2, <4>1, GotoEffect
        <4>3. QED
          BY <3>1, <4>1, <4>2
      <3>5. QED
        BY <2>5, <3>2, <3>3, <3>4 DEF DeliverStep
    <2>6. ASSUME NEW d \in Delivery, DeadLetterStep(d)
          PROVE  (NumbersClaimed /\ AttemptNumbersAreFresh)'
      <3>1. UNCHANGED sent
        BY <2>6 DEF DeadLetterStep, DeadClaim, DeadPublish, DeadRecord, outsideVars
      <3>2. \A o \in Owner, c \in Delivery :
              Live(o, c)' => Live(o, c) /\ att'[o][c] = att[o][c]
        BY <2>2, <2>6, DeadLetterStepCall DEF Live, DeadPcs
      <3>3. QED
        BY <1>2, <3>1, <3>2, NumbersKept
    <2>7. QED
      BY <1>2, <2>1, <2>2, <2>3, <2>4, <2>5, <2>6, CoreSteps
         DEF NumberInv, CreateDeliveries, RecoverOrphans, TimePasses, BackoffElapses,
             LeaseElapses, outsideVars
  <1>3. QED
    BY <1>1, <1>2

\* However often a message is redelivered and however many calls attempt the same
\* delivery, each attempt number is claimed and sent once.
THEOREM NumbersStayFresh == Spec => []AttemptNumbersAreFresh
  BY NumberInvInductive, PTL DEF Spec, NumberInv

\* The outcome of an attempt whose row has been claimed again is never written.
THEOREM LateAttemptsAreHarmless == Spec => LateAttemptChangesNothing
  <1>1. ASSUME TypeOK, [Next]_vars, NEW o \in Owner, NEW d \in Delivery,
               Live(o, d), att[o][d].number < row[d].attempts, att'[o][d] # att[o][d]
        PROVE  row'[d] = row[d]
    <2>1. ASSUME NEW p \in Owner, NEW c \in Delivery, DeliverStep(p, c)
          PROVE  row'[d] = row[d]
      <3>1. p = o /\ c = d
        BY <1>1, <2>1, DeliverStepCall
      <3>2. ~Owned(d, att[o][d].number)
        BY <1>1, CallTypes DEF Owned
      <3>3. QED
        BY <1>1, <2>1, <3>1, <3>2 DEF DeliverStep, Claim, Send, Succeed, Fail, Live, At
    <2>2. ASSUME NEW c \in Delivery, DeadLetterStep(c)
          PROVE  row'[d] = row[d]
      <3>1. o = Poll /\ c = d
        BY <1>1, <2>2, DeadLetterStepCall
      <3>2. QED
        BY <1>1, <2>2, <3>1
           DEF DeadLetterStep, DeadClaim, DeadPublish, DeadRecord, Live, At
    <2>3. QED
      BY <1>1, <2>1, <2>2, CoreSteps
         DEF CallsChange, CreateDeliveries, RecoverOrphans, TimePasses, BackoffElapses,
             LeaseElapses
  <1>2. TypeOK /\ [Next]_vars =>
          [\A o \in Owner, d \in Delivery :
             /\ Live(o, d)
             /\ att[o][d].number < row[d].attempts
             /\ att'[o][d] # att[o][d]
             => row'[d] = row[d]]_vars
    BY <1>1
  <1>3. QED
    BY <1>2, TypeCorrect, PTL DEF Spec, LateAttemptChangesNothing

-----------------------------------------------------------------------------
(* Dead letters                                                            *)

\* A dead-letter call is about a number that used up the attempts; while it is
\* in progress the row has not failed, and it is confirmed only with its copy kept.
DeadLetterCalls ==
    \A d \in Delivery :
        /\ att[Poll][d].pc \in DeadPcs \cup {"deadClaim"} =>
             MaxAttempts <= att[Poll][d].number /\ att[Poll][d].number <= row[d].attempts
        /\ att[Poll][d].pc \in DeadPcs => row[d].status # "FAILED"
        /\ At(Poll, d, "deadConfirmed") => d \in deadLettered

DeadLetterInv == RowInv /\ DeadLetterCalls /\ DeadLettersAreJustified

\* A row fails only by the record of a confirmed dead letter.
LEMMA FailedByRecord ==
    ASSUME TypeOK, [Next]_vars, NEW d \in Delivery, row'[d].status = "FAILED"
    PROVE  \/ row[d].status = "FAILED"
           \/ DeadRecord(d) /\ At(Poll, d, "deadConfirmed")
  <1>1. ASSUME NEW o \in Owner, NEW c \in Delivery, DeliverStep(o, c)
        PROVE  row[d].status = "FAILED"
    <2>1. \/ UNCHANGED row
          \/ \E status \in {"PROCESSING", "SUCCEEDED", "RETRYING"} :
               \E n, due : SetRow(c, status, n, due)
      BY <1>1 DEF DeliverStep, Claim, Send, Succeed, Fail
    <2>2. QED
      BY <2>1, SetRowEffect
  <1>2. ASSUME NEW c \in Delivery, DeadLetterStep(c)
        PROVE  \/ row[d].status = "FAILED"
               \/ DeadRecord(d) /\ At(Poll, d, "deadConfirmed")
    <2>1. CASE DeadClaim(c)
      BY <2>1 DEF DeadClaim, TypeOK, SetRow, RowOf
    <2>2. CASE DeadPublish(c)
      BY <2>2 DEF DeadPublish
    <2>3. CASE DeadRecord(c)
      BY <2>3 DEF DeadRecord, TypeOK, SetRow, RowOf
    <2>4. QED
      BY <1>2, <2>1, <2>2, <2>3 DEF DeadLetterStep
  <1>3. ASSUME NEW t \in Task, CreateDeliveries(t) PROVE row[d].status = "FAILED"
    BY <1>3 DEF CreateDeliveries, NewRow, RowOf
  <1>4. ASSUME RecoverOrphans PROVE row[d].status = "FAILED"
    BY <1>4 DEF RecoverOrphans, RowOf
  <1>5. ASSUME NEW c \in Delivery, TimePasses(c) PROVE row[d].status = "FAILED"
    BY <1>5, TimeEffect
  <1>6. QED
    BY CoreSteps, <1>1, <1>2, <1>3, <1>4, <1>5 DEF CallsChange

\* The dead-letter queue gains a copy only by a publish of the retry cycle.
LEMMA DeadLetteredByPublish ==
    ASSUME TypeOK, [Next]_vars
    PROVE  \/ UNCHANGED deadLettered
           \/ \E d \in Delivery : DeadPublish(d) /\ deadLettered' = deadLettered \cup {d}
  <1>1. ASSUME NEW o \in Owner, NEW c \in Delivery, DeliverStep(o, c)
        PROVE  UNCHANGED deadLettered
    BY <1>1 DEF DeliverStep, Claim, Send, Succeed, Fail, outsideVars
  <1>2. ASSUME NEW c \in Delivery, DeadLetterStep(c)
        PROVE  \/ UNCHANGED deadLettered
               \/ DeadPublish(c) /\ deadLettered' = deadLettered \cup {c}
    BY <1>2 DEF DeadLetterStep, DeadClaim, DeadPublish, DeadRecord, outsideVars
  <1>3. QED
    BY CoreSteps, <1>1, <1>2
       DEF CallsChange, CreateDeliveries, RecoverOrphans, TimePasses, BackoffElapses,
           LeaseElapses, outsideVars

\* What a statement of moveToDeadLetter makes of its own call.
LEMMA DeadLetterCallsStep ==
    ASSUME DeadLetterInv, [Next]_vars, NEW d \in Delivery, DeadLetterStep(d)
    PROVE  /\ att'[Poll][d].pc \in DeadPcs =>
                /\ MaxAttempts <= att'[Poll][d].number
                /\ att'[Poll][d].number <= row'[d].attempts
                /\ row'[d].status # "FAILED"
           /\ At(Poll, d, "deadConfirmed")' => d \in deadLettered'
  <1>1. /\ att'[Poll][d].number = att[Poll][d].number
        /\ row[d].attempts <= row'[d].attempts
        /\ row[d].attempts \in Nat /\ row'[d].attempts \in Nat
        /\ att[Poll][d].number \in Nat
        /\ MaxAttempts \in Nat
        /\ TypeOK
    BY RowsMonotone, DeadLetterStepCall, CallTypes, DeliveryAssumption
       DEF DeadLetterInv, RowInv, Owner
  <1>2. CASE DeadClaim(d)
    <2>1. att'[Poll][d].pc \in {"deadPublish", "done"}
      <3>1. Goto(Poll, d, "deadPublish") \/ Goto(Poll, d, "done")
        BY <1>2 DEF DeadClaim
      <3>2. QED
        BY <1>1, <3>1, GotoEffect DEF Owner
    <2>2. row'[d].status # "FAILED" \/ att'[Poll][d].pc = "done"
      BY <1>1, <1>2, GotoEffect DEF DeadClaim, TypeOK, SetRow, RowOf, Owner
    <2>3. QED
      BY <1>1, <1>2, <2>1, <2>2 DEF DeadClaim, DeadLetterInv, DeadLetterCalls, DeadPcs, At
  <1>3. CASE DeadPublish(d)
    <2>1. \/ d \in deadLettered' /\ Goto(Poll, d, "deadConfirmed")
          \/ Goto(Poll, d, "deadUnconfirmed")
      BY <1>3 DEF DeadPublish
    <2>2. \/ d \in deadLettered' /\ att'[Poll][d].pc = "deadConfirmed"
          \/ att'[Poll][d].pc = "deadUnconfirmed"
      BY <1>1, <2>1, GotoEffect DEF Owner
    <2>3. UNCHANGED row
      BY <1>3 DEF DeadPublish
    <2>4. QED
      BY <1>1, <1>3, <2>2, <2>3 DEF DeadPublish, DeadLetterInv, DeadLetterCalls, DeadPcs, At
  <1>4. CASE DeadRecord(d)
    <2>1. att'[Poll][d].pc \in {"done", "threw"}
      <3>1. Goto(Poll, d, "done") \/ Goto(Poll, d, "threw")
        BY <1>4 DEF DeadRecord
      <3>2. QED
        BY <1>1, <3>1, GotoEffect DEF Owner
    <2>2. QED
      BY <2>1 DEF DeadPcs, At
  <1>5. QED
    BY <1>2, <1>3, <1>4 DEF DeadLetterStep

LEMMA DeadLetterInvInductive ==
    (Init => DeadLetterInv) /\ (DeadLetterInv /\ [Next]_vars => DeadLetterInv')
  <1>1. Init => DeadLetterInv
    BY RowInvInductive
       DEF Init, DeadLetterInv, DeadLetterCalls, DeadLettersAreJustified, DeadPcs, At,
           NoAttempts, NoAttempt, Owner, NoRow, RowOf
  <1>2. ASSUME DeadLetterInv, [Next]_vars PROVE DeadLetterInv'
    <2>1. RowInv' /\ TypeOK
      BY <1>2, RowInvInductive DEF DeadLetterInv, RowInv
    <2>2. ASSUME NEW d \in Delivery
          PROVE  /\ row[d].attempts \in Nat /\ row'[d].attempts \in Nat
                 /\ row[d].attempts <= row'[d].attempts
                 /\ att[Poll][d].number \in Nat
                 /\ MaxAttempts \in Nat
      BY <1>2, <2>1, RowsMonotone, CallTypes, DeliveryAssumption DEF DeadLetterInv, Owner
    <2>3. deadLettered \subseteq deadLettered'
      BY <1>2, <2>1, DeadLetteredByPublish
    <2>4. DeadLettersAreJustified'
      <3>1. ASSUME NEW d \in Delivery, d \in deadLettered'
            PROVE  row'[d].attempts >= MaxAttempts
        BY <1>2, <2>1, <2>2, <3>1, DeadLetteredByPublish
           DEF DeadPublish, At, DeadPcs, DeadLetterInv, DeadLetterCalls, DeadLettersAreJustified
      <3>2. ASSUME NEW d \in Delivery, row'[d].status = "FAILED" PROVE d \in deadLettered'
        BY <1>2, <2>1, <2>3, <3>2, FailedByRecord
           DEF DeadLetterInv, DeadLetterCalls, DeadLettersAreJustified
      <3>3. QED
        BY <3>1, <3>2 DEF DeadLettersAreJustified
    <2>5. ASSUME NEW d \in Delivery
          PROVE  /\ att'[Poll][d].pc \in DeadPcs \cup {"deadClaim"} =>
                      /\ MaxAttempts <= att'[Poll][d].number
                      /\ att'[Poll][d].number <= row'[d].attempts
                 /\ att'[Poll][d].pc \in DeadPcs => row'[d].status # "FAILED"
                 /\ At(Poll, d, "deadConfirmed")' => d \in deadLettered'
      <3>1. CASE DeadLetterStep(d)
        <4>1. att'[Poll][d].pc # "deadClaim"
          BY <2>1, <3>1, DeadLetterStepCall DEF DeadPcs
        <4>2. QED
          BY <1>2, <3>1, <4>1, DeadLetterCallsStep
      <3>2. CASE att'[Poll][d] = att[Poll][d] /\ ~DeadLetterStep(d)
        <4>1. row'[d].status = "FAILED" => row[d].status = "FAILED"
          BY <1>2, <2>1, <3>2, FailedByRecord DEF DeadLetterStep
        <4>2. QED
          BY <1>2, <2>2, <2>3, <3>2, <4>1 DEF DeadLetterInv, DeadLetterCalls, At
      <3>3. CASE CallsChange
        <4>1. \/ att'[Poll][d] = att[Poll][d]
              \/ att'[Poll][d].pc \notin DeadPcs \cup {"deadClaim"}
              \/ /\ att'[Poll][d].pc = "deadClaim"
                 /\ att'[Poll][d].number = row[d].attempts
                 /\ row[d].attempts >= MaxAttempts
          <5>1. NoAttempt.pc = "none" /\ Snapshot(d).pc \in {"claim", "done"}
            BY DEF NoAttempt, Snapshot
          <5>2. \/ Candidate(d) \in {NoAttempt, Snapshot(d)}
                \/ /\ row[d].attempts >= MaxAttempts
                   /\ Candidate(d).pc = "deadClaim"
                   /\ Candidate(d).number = row[d].attempts
            BY DEF Candidate
          <5>3. \/ att'[Poll][d] \in {att[Poll][d], NoAttempt, Snapshot(d), Candidate(d)}
                \/ att'[Poll][d].pc = "threw"
            BY <3>3 DEF CallsChange, Owner
          <5>4. QED
            BY <5>1, <5>2, <5>3 DEF DeadPcs
        <4>2. row' = row /\ deadLettered' = deadLettered
          BY <3>3 DEF CallsChange
        <4>3. QED
          BY <1>2, <2>2, <4>1, <4>2 DEF DeadLetterInv, DeadLetterCalls, At, DeadPcs
      <3>4. ASSUME NEW o \in Owner, NEW c \in Delivery, DeliverStep(o, c),
                   att'[Poll][d] # att[Poll][d]
            PROVE  att'[Poll][d].pc \in {"request", "waiting", "done", "threw"}
        BY <2>1, <3>4, DeliverStepCall DEF Owner
      <3>5. ASSUME NEW c \in Delivery, DeadLetterStep(c), ~DeadLetterStep(d)
            PROVE  att'[Poll][d] = att[Poll][d]
        BY <2>1, <3>5, DeadLetterStepCall DEF Owner
      <3>6. QED
        BY <1>2, <2>1, <3>1, <3>2, <3>3, <3>4, <3>5, CoreSteps
           DEF CreateDeliveries, RecoverOrphans, TimePasses, BackoffElapses, LeaseElapses,
               DeadPcs, At
    <2>6. QED
      BY <1>2, <2>1, <2>4, <2>5 DEF DeadLetterInv, DeadLetterCalls
  <1>3. QED
    BY <1>1, <1>2

\* No delivery with attempts left is given up, and none is given up unrecorded.
THEOREM DeadLettersStayJustified == Spec => []DeadLettersAreJustified
  BY DeadLetterInvInductive, PTL DEF Spec, DeadLetterInv

-----------------------------------------------------------------------------
(* The delivery promise                                                    *)

\* A row succeeds only by the guarded update that follows a 2xx answer.
LEMMA SucceededByAnswer ==
    ASSUME TypeOK, [Next]_vars, NEW d \in Delivery, row'[d].status = "SUCCEEDED"
    PROVE  \/ row[d].status = "SUCCEEDED"
           \/ \E o \in Owner : Succeed(o, d)
  <1>1. ASSUME NEW o \in Owner, NEW c \in Delivery, DeliverStep(o, c), ~Succeed(o, d)
        PROVE  row[d].status = "SUCCEEDED"
    <2>1. CASE Succeed(o, c)
      BY <1>1, <2>1 DEF Succeed, TypeOK, SetRow, RowOf
    <2>2. CASE Claim(o, c) \/ Send(o, c) \/ Fail(o, c)
      BY <2>2 DEF Claim, Send, Fail, TypeOK, SetRow, RowOf
    <2>3. QED
      BY <1>1, <2>1, <2>2 DEF DeliverStep
  <1>2. ASSUME NEW c \in Delivery, DeadLetterStep(c) PROVE row[d].status = "SUCCEEDED"
    BY <1>2 DEF DeadLetterStep, DeadClaim, DeadPublish, DeadRecord, TypeOK, SetRow, RowOf
  <1>3. ASSUME NEW t \in Task, CreateDeliveries(t) PROVE row[d].status = "SUCCEEDED"
    BY <1>3 DEF CreateDeliveries, NewRow, RowOf
  <1>4. ASSUME RecoverOrphans PROVE row[d].status = "SUCCEEDED"
    BY <1>4 DEF RecoverOrphans, RowOf
  <1>5. ASSUME NEW c \in Delivery, TimePasses(c) PROVE row[d].status = "SUCCEEDED"
    BY <1>5, TimeEffect
  <1>6. QED
    BY CoreSteps, <1>1, <1>2, <1>3, <1>4, <1>5 DEF CallsChange

\* Applications process events by themselves: no statement of the worker does.
LEMMA HandledByApplication ==
    ASSUME [Next]_vars
    PROVE  UNCHANGED handled \/ \E d \in Delivery : Handle(d)
  <1>1. ASSUME NEW t \in Task, ConsumerStep(t) \/ TaskError(t) PROVE UNCHANGED handled
    BY <1>1 DEF ConsumerStep, Receive, Reject, CreateDeliveries, ReadDeliveries, Settle,
                TaskError, outsideVars
  <1>2. ASSUME NEW o \in Owner, NEW d \in Delivery, DeliverStep(o, d) \/ AttemptError(o, d)
        PROVE  UNCHANGED handled
    BY <1>2 DEF DeliverStep, Claim, Send, Succeed, Fail, AttemptError, outsideVars
  <1>3. ASSUME NEW d \in Delivery, DeadLetterStep(d) \/ TimePasses(d) PROVE UNCHANGED handled
    BY <1>3 DEF DeadLetterStep, DeadClaim, DeadPublish, DeadRecord, TimePasses,
                BackoffElapses, LeaseElapses, outsideVars
  <1>4. ASSUME PollStep \/ ConnectionLost \/ Crash PROVE UNCHANGED handled
    BY <1>4 DEF PollStep, RecoverOrphans, ReadCandidates, EndCycle, ConnectionLost, Crash,
                outsideVars
  <1>5. ASSUME NEW e \in Event, Arrive(e) PROVE UNCHANGED handled
    BY <1>5 DEF Arrive, outsideVars
  <1>6. ASSUME UNCHANGED vars PROVE UNCHANGED handled
    BY <1>6 DEF vars, outsideVars
  <1>7. QED
    BY <1>1, <1>2, <1>3, <1>4, <1>5, <1>6 DEF Next, WorkerNext, FaultStep

\* A step that concludes nothing new and keeps the outside world is a stutter of the
\* promise; the other steps are one of its actions.
LEMMA PromiseStep ==
    ASSUME DeadLetterInv, [Next]_vars
    PROVE  [Promise!Next]_(Promise!promiseVars)
  <1> USE DEF Promise!Next, Promise!promiseVars
  <1>0. /\ TypeOK
        /\ row \in [Delivery -> Row] /\ row' \in [Delivery -> Row]
    BY TypeStep DEF DeadLetterInv, RowInv, TypeOK
  <1>1. ASSUME NEW d \in Delivery, Handle(d) PROVE Promise!Process(d)
    BY <1>1 DEF Handle, Promise!Process
  <1>2. ASSUME NEW d \in Delivery, DeadPublish(d), deadLettered' = deadLettered \cup {d}
        PROVE  Promise!KeepDeadLetter(d)
    <2>1. row[d].status # "FAILED"
      BY <1>2 DEF DeadPublish, At, DeadPcs, DeadLetterInv, DeadLetterCalls
    <2>2. QED
      BY <1>2, <2>1 DEF DeadPublish, Promise!KeepDeadLetter
  <1>3. ASSUME NEW d \in Delivery, NEW o \in Owner, Succeed(o, d),
               row[d].status # "SUCCEEDED", row'[d].status = "SUCCEEDED"
        PROVE  Promise!Conclude(d)
    <2>1. /\ row[d].status = "PROCESSING"
          /\ d \in handled
          /\ UNCHANGED <<handled, deadLettered>>
          /\ \A c \in Delivery : c # d => row'[c] = row[c]
      BY <1>0, <1>3 DEF Succeed, Owned, SetRow, outsideVars
    <2>2. QED
      BY <1>0, <1>3, <2>1 DEF Promise!Conclude
  <1>4. ASSUME NEW d \in Delivery, DeadRecord(d), At(Poll, d, "deadConfirmed"),
               row[d].status # "FAILED", row'[d].status = "FAILED"
        PROVE  Promise!Conclude(d)
    <2>1. /\ row[d].status = "PROCESSING"
          /\ d \in deadLettered
          /\ UNCHANGED <<handled, deadLettered>>
          /\ \A c \in Delivery : c # d => row'[c] = row[c]
      BY <1>0, <1>4
         DEF DeadRecord, Owned, SetRow, outsideVars, DeadLetterInv, DeadLetterCalls
    <2>2. QED
      BY <1>0, <1>4, <2>1 DEF Promise!Conclude
  <1>5. ASSUME UNCHANGED <<handled, deadLettered>>,
               \A d \in Delivery : row[d].status = row'[d].status \/
                 {row[d].status, row'[d].status} \cap Terminal = {}
        PROVE  UNCHANGED Promise!promiseVars
    BY <1>5 DEF Terminal
  <1>6. ASSUME NEW d \in Delivery,
               row[d].status # row'[d].status, {row[d].status, row'[d].status} \cap Terminal # {}
        PROVE  \/ row'[d].status = "SUCCEEDED" /\ \E o \in Owner : Succeed(o, d)
               \/ row'[d].status = "FAILED" /\ DeadRecord(d) /\ At(Poll, d, "deadConfirmed")
    <2>1. row[d].status \notin Terminal
      BY <1>6, RowsMonotone DEF DeadLetterInv
    <2>2. QED
      BY <1>0, <1>6, <2>1, SucceededByAnswer, FailedByRecord DEF Terminal
  <1>7. QED
    BY <1>0, <1>1, <1>2, <1>3, <1>4, <1>5, <1>6, HandledByApplication, DeadLetteredByPublish

\* The worker concludes every delivery at most once and never untruly.
THEOREM PromiseIsKept == Spec => PromiseKept
  <1>1. Init => Promise!Init
    BY DEF Init, Promise!Init, NoRow, RowOf
  <1>2. QED
    BY <1>1, DeadLetterInvInductive, PromiseStep, PTL DEF Spec, PromiseKept, Promise!Spec

-----------------------------------------------------------------------------
(* No message lost                                                         *)

\* What a deliver call of the task t knows of the row it was given.
CallCovers(t, d) ==
    /\ att[t][d].pc # "none"
    /\ att[t][d].pc \notin {"claim", "threw"} => Started(d)
    /\ At(t, d, "claim") =>
         IF att[t][d].seen = "PENDING" THEN att[t][d].number = 1 ELSE Started(d)

\* A task past createMany has a row for every target of its event, and once the
\* deliver calls run, one call for every row.
TaskCovers(t) ==
    /\ task[t].pc # "idle" => task[t].event \in Event
    /\ task[t].held => task[t].pc # "idle"
    /\ task[t].pc \in {"read", "deliver"} =>
         /\ task[t].event \notin Poison
         /\ \A d \in Delivery : d[1] = task[t].event => row[d].status # "NONE"
    /\ task[t].pc = "deliver" =>
         \A d \in Delivery : d[1] = task[t].event => CallCovers(t, d)

MessageSafe(e) ==
    arrived[e] > 0 =>
        \/ MessageKept(e)
        \/ e \in rejected
        \/ e \notin Poison /\ \A d \in Delivery : d[1] = e => Started(d)

CoverInv ==
    /\ RowInv
    /\ \A t \in Task : TaskCovers(t)
    /\ \A e \in Event : MessageSafe(e)

\* A call that is not moved, or only fails, still knows what it knew.
LEMMA CallCoversKept ==
    ASSUME RowInv, [Next]_vars, NEW t \in Task, NEW d \in Delivery, CallCovers(t, d),
           att'[t][d] = att[t][d] \/ att'[t][d].pc = "threw"
    PROVE  CallCovers(t, d)'
  BY RowsMonotone DEF CallCovers, At

\* A task that stays where it is keeps its rows and its calls.
LEMMA TaskCoversKept ==
    ASSUME RowInv, [Next]_vars, NEW t \in Task, TaskCovers(t),
           task'[t].pc = task[t].pc, task'[t].event = task[t].event,
           task'[t].held => task[t].held,
           task[t].pc = "deliver" =>
             \A d \in Delivery : d[1] = task[t].event =>
               \/ att'[t][d] = att[t][d]
               \/ att'[t][d].pc = "threw"
               \/ CallCovers(t, d)'
    PROVE  TaskCovers(t)'
  <1>1. \A d \in Delivery : row[d].status # "NONE" => row'[d].status # "NONE"
    BY RowsMonotone
  <1>2. task'[t].pc = "deliver" =>
          \A d \in Delivery : d[1] = task'[t].event => CallCovers(t, d)'
    BY CallCoversKept DEF TaskCovers
  <1>3. QED
    BY <1>1, <1>2 DEF TaskCovers

\* Whatever a deliver call does, when it ends without throwing its row has started:
\* the claim can fail only because somebody else has claimed the row.
LEMMA DeliverCovers ==
    ASSUME RowInv, [Next]_vars, NEW t \in Task, NEW d \in Delivery, CallCovers(t, d),
           row[d].status # "NONE", DeliverStep(t, d)
    PROVE  CallCovers(t, d)'
  <1>1. /\ TypeOK /\ t \in Owner
        /\ row[d].attempts \in Nat
        /\ Started(d) => Started(d)'
        /\ att'[t][d].pc \in {"request", "waiting", "done", "threw"}
    BY RowsMonotone, DeliverStepCall DEF RowInv, Owner
  <1>2. Started(d)' \/ att'[t][d].pc = "threw"
    <2>1. CASE Claim(t, d)
      <3>1. CASE Claimable(t, d)
        <4>1. SetRow(d, "PROCESSING", att[t][d].number, FALSE)
          BY <2>1, <3>1 DEF Claim
        <4>2. row'[d].status = "PROCESSING"
          BY <1>1, <4>1 DEF TypeOK, SetRow, RowOf
        <4>3. QED
          BY <4>2 DEF Started
      <3>2. CASE ~Claimable(t, d)
        <4>1. UNCHANGED row
          BY <2>1, <3>2 DEF Claim
        <4>2. Started(d)
          BY <1>1, <2>1, <3>2
             DEF Claim, Claimable, CallCovers, RowInv, RowsFresh, Started, At
        <4>3. QED
          BY <1>1, <4>2
      <3>3. QED
        BY <3>1, <3>2
    <2>2. CASE Send(t, d) \/ Succeed(t, d) \/ Fail(t, d)
      <3>1. att[t][d].pc \notin {"claim", "threw"}
        BY <2>2 DEF Send, Succeed, Fail, At
      <3>2. QED
        BY <1>1, <3>1 DEF CallCovers
    <2>3. QED
      BY <2>1, <2>2 DEF DeliverStep
  <1>3. QED
    BY <1>1, <1>2 DEF CallCovers, At

LEMMA TaskCoversStep ==
    ASSUME RowInv, [Next]_vars, NEW t \in Task, TaskCovers(t)
    PROVE  TaskCovers(t)'
  <1>0. /\ TypeOK /\ t \in Owner /\ t # Poll
        /\ task \in [Task -> TaskState] /\ att \in [Owner -> [Delivery -> Attempt]]
    BY DeliveryAssumption DEF RowInv, TypeOK, Owner
  <1>1. ASSUME task'[t] = task[t], \A d \in Delivery : att'[t][d] = att[t][d]
        PROVE  TaskCovers(t)'
    BY <1>1, TaskCoversKept
  <1>2. ASSUME NEW e \in Event, Arrive(e) PROVE TaskCovers(t)'
    BY <1>1, <1>2 DEF Arrive
  <1>3. ASSUME NEW u \in Task, NEW e \in Event, Receive(u, e) PROVE TaskCovers(t)'
    <2>1. CASE u = t
      <3>1. /\ task'[t].pc = "received" /\ task'[t].event = e
        BY <1>0, <1>3, <2>1 DEF Receive
      <3>2. QED
        BY <3>1 DEF TaskCovers
    <2>2. CASE u # t
      BY <1>0, <1>1, <1>3, <2>2 DEF Receive
    <2>3. QED
      BY <2>1, <2>2
  <1>4. ASSUME NEW u \in Task, Reject(u) \/ TaskError(u) \/ Settle(u) PROVE TaskCovers(t)'
    <2>1. CASE u = t
      <3>1. task'[t] = IdleTask
        BY <1>0, <1>4, <2>1 DEF Reject, TaskError, Settle
      <3>2. QED
        BY <3>1 DEF TaskCovers, IdleTask
    <2>2. CASE u # t
      <3>1. task'[t] = task[t] /\ att'[t] = att[t]
        BY <1>0, <1>4, <2>2 DEF Reject, TaskError, Settle
      <3>2. QED
        BY <1>1, <3>1
    <2>3. QED
      BY <2>1, <2>2
  <1>5. ASSUME NEW u \in Task, CreateDeliveries(u) PROVE TaskCovers(t)'
    <2>1. CASE u = t
      <3>1. /\ task'[t].pc = "read" /\ task'[t].event = task[t].event
            /\ task'[t].held = task[t].held
            /\ task[t].event \in Event /\ task[t].event \notin Poison
        BY <1>0, <1>5, <2>1 DEF CreateDeliveries, TaskCovers, TaskState
      <3>2. \A d \in Delivery : d[1] = task[t].event => row'[d].status # "NONE"
        BY <1>5, <2>1 DEF CreateDeliveries, NewRow, RowOf
      <3>3. QED
        BY <3>1, <3>2 DEF TaskCovers
    <2>2. CASE u # t
      BY <1>0, <1>1, <1>5, <2>2 DEF CreateDeliveries
    <2>3. QED
      BY <2>1, <2>2
  <1>6. ASSUME NEW u \in Task, ReadDeliveries(u) PROVE TaskCovers(t)'
    <2>1. CASE u = t
      <3>1. /\ task'[t].pc = "deliver" /\ task'[t].event = task[t].event
            /\ task[t].pc = "read"
            /\ UNCHANGED row
        BY <1>0, <1>6, <2>1 DEF ReadDeliveries, TaskState
      <3>2. ASSUME NEW d \in Delivery, d[1] = task[t].event
            PROVE  att'[t][d] = Snapshot(d)
        BY <1>0, <1>6, <2>1, <3>2 DEF ReadDeliveries
      <3>3. ASSUME NEW d \in Delivery, d[1] = task[t].event
            PROVE  CallCovers(t, d)'
        <4>1. row[d].status # "NONE"
          BY <3>1, <3>3 DEF TaskCovers
        <4>2. row[d].status = "PENDING" => row[d].attempts + 1 = 1
          BY DEF RowInv, RowsFresh
        <4>3. att'[t][d] = Snapshot(d) /\ row'[d] = row[d]
          BY <3>1, <3>2, <3>3
        <4>4. QED
          BY <4>1, <4>2, <4>3 DEF Snapshot, CallCovers, At, Started
      <3>4. QED
        BY <3>1, <3>3 DEF TaskCovers
    <2>2. CASE u # t
      <3>1. task'[t] = task[t] /\ att'[t] = att[t]
        BY <1>0, <1>6, <2>2 DEF ReadDeliveries
      <3>2. QED
        BY <1>1, <3>1
    <2>3. QED
      BY <2>1, <2>2
  <1>7. ASSUME NEW o \in Owner, NEW c \in Delivery, DeliverStep(o, c) PROVE TaskCovers(t)'
    <2>1. task' = task
      BY <1>7 DEF DeliverStep, Claim, Send, Succeed, Fail
    <2>2. ASSUME NEW d \in Delivery, d[1] = task[t].event, task[t].pc = "deliver"
          PROVE  att'[t][d] = att[t][d] \/ CallCovers(t, d)'
      <3>1. CASE o = t /\ c = d
        <4>1. CallCovers(t, d) /\ row[d].status # "NONE"
          BY <2>2 DEF TaskCovers
        <4>2. QED
          BY <1>7, <3>1, <4>1, DeliverCovers
      <3>2. CASE o # t \/ c # d
        BY <1>0, <1>7, <3>2, DeliverStepCall
      <3>3. QED
        BY <3>1, <3>2
    <2>3. QED
      BY <2>1, <2>2, TaskCoversKept
  <1>8. ASSUME PollStep PROVE TaskCovers(t)'
    <2>1. task' = task /\ att'[t] = att[t]
      BY <1>0, <1>8 DEF PollStep, RecoverOrphans, ReadCandidates, EndCycle
    <2>2. QED
      BY <1>1, <2>1
  <1>9. ASSUME NEW c \in Delivery, DeadLetterStep(c) PROVE TaskCovers(t)'
    <2>1. task' = task
      BY <1>9 DEF DeadLetterStep, DeadClaim, DeadPublish, DeadRecord
    <2>2. \A d \in Delivery : att'[t][d] = att[t][d]
      BY <1>0, <1>9, DeadLetterStepCall
    <2>3. QED
      BY <1>1, <2>1, <2>2
  <1>10. ASSUME NEW d \in Delivery, Handle(d) \/ TimePasses(d) PROVE TaskCovers(t)'
    BY <1>1, <1>10 DEF Handle, TimePasses, BackoffElapses, LeaseElapses
  <1>11. ASSUME NEW o \in Owner, NEW c \in Delivery, AttemptError(o, c) PROVE TaskCovers(t)'
    <2>1. task' = task /\ Goto(o, c, "threw")
      BY <1>11 DEF AttemptError
    <2>2. \A d \in Delivery : att'[t][d] = att[t][d] \/ att'[t][d].pc = "threw"
      BY <1>0, <2>1, GotoEffect
    <2>3. QED
      BY <2>1, <2>2, TaskCoversKept
  <1>12. ASSUME ConnectionLost PROVE TaskCovers(t)'
    <2>1. /\ task'[t].pc = task[t].pc /\ task'[t].event = task[t].event
          /\ ~task'[t].held
          /\ UNCHANGED att
      BY <1>0, <1>12 DEF ConnectionLost, TaskState
    <2>2. QED
      BY <2>1, TaskCoversKept
  <1>13. ASSUME Crash PROVE TaskCovers(t)'
    <2>1. task'[t] = IdleTask
      BY <1>13 DEF Crash
    <2>2. QED
      BY <2>1 DEF TaskCovers, IdleTask
  <1>14. ASSUME UNCHANGED vars PROVE TaskCovers(t)'
    BY <1>1, <1>14 DEF vars
  <1>15. QED
    BY <1>2, <1>3, <1>4, <1>5, <1>6, <1>7, <1>8, <1>9, <1>10, <1>11, <1>12, <1>13, <1>14
       DEF Next, WorkerNext, ConsumerStep, FaultStep

\* A copy whose task lets go of it is put back, dead-lettered or fully recorded.
LEMMA MessageKeptBy ==
    ASSUME TypeOK, NEW e \in Event, NEW t \in Task, MessageKept(e),
           \A u \in Task : u # t => task'[u] = task[u],
           ready'[e] >= ready[e], ready'[e] \in Nat,
           task[t].held /\ task[t].event = e => ready'[e] > 0
    PROVE  MessageKept(e)'
  <1>1. CASE ready[e] > 0
    <2>1. ready[e] \in Nat
      BY DEF TypeOK
    <2>2. QED
      BY <1>1, <2>1 DEF MessageKept
  <1>2. CASE t \in Holders(e)
    BY <1>2 DEF Holders, MessageKept
  <1>3. ASSUME NEW u \in Holders(e), u # t PROVE MessageKept(e)'
    <2>1. u \in Holders(e)'
      BY <1>3 DEF Holders
    <2>2. QED
      BY <2>1 DEF MessageKept
  <1>4. QED
    BY <1>1, <1>2, <1>3 DEF MessageKept

\* Copies whose channel is gone are all put back.
LEMMA MessageRequeued ==
    ASSUME TypeOK, NEW e \in Event, RequeueHeld, MessageKept(e)
    PROVE  MessageKept(e)'
  <1>1. ready'[e] = ready[e] + Cardinality(Holders(e)) /\ ready[e] \in Nat
    BY DEF RequeueHeld, TypeOK
  <1>2. ready'[e] > 0
    BY <1>1, HoldersFinite DEF MessageKept
  <1>3. QED
    BY <1>2 DEF MessageKept

LEMMA MessageSafeStep ==
    ASSUME RowInv, [Next]_vars, \A t \in Task : TaskCovers(t), NEW e \in Event, MessageSafe(e)
    PROVE  MessageSafe(e)'
  <1>0. /\ TypeOK
        /\ ready \in [Event -> Nat] /\ arrived \in [Event -> Nat]
        /\ task \in [Task -> TaskState]
        /\ ready' \in [Event -> Nat]
    BY TypeStep DEF RowInv, TypeOK
  <1>1. \A d \in Delivery : Started(d) => Started(d)'
    BY RowsMonotone
  \* Nothing new arrives, no rejection is undone: only a kept copy must stay kept.
  <1>2. ASSUME arrived' = arrived, rejected \subseteq rejected',
               MessageKept(e) => MessageKept(e)'
        PROVE  MessageSafe(e)'
    BY <1>1, <1>2 DEF MessageSafe
  <1>3. ASSUME arrived' = arrived, rejected' = rejected, ready' = ready, task' = task
        PROVE  MessageSafe(e)'
    BY <1>2, <1>3 DEF MessageKept, Holders
  <1>4. ASSUME NEW f \in Event, Arrive(f) PROVE MessageSafe(e)'
    <2>1. CASE f = e
      <3>1. ready'[e] > 0
        BY <1>0, <1>4, <2>1 DEF Arrive
      <3>2. QED
        BY <3>1 DEF MessageSafe, MessageKept
    <2>2. CASE f # e
      <3>1. /\ arrived'[e] = arrived[e] /\ ready'[e] = ready[e]
            /\ rejected' = rejected /\ task' = task
        BY <1>0, <1>4, <2>2 DEF Arrive
      <3>2. QED
        BY <1>1, <3>1 DEF MessageSafe, MessageKept, Holders
    <2>3. QED
      BY <2>1, <2>2
  <1>5. ASSUME NEW t \in Task, NEW f \in Event, Receive(t, f) PROVE MessageSafe(e)'
    <2>1. CASE f = e
      <3>1. t \in Holders(e)'
        BY <1>0, <1>5, <2>1 DEF Receive, Holders
      <3>2. QED
        BY <3>1 DEF MessageSafe, MessageKept
    <2>2. CASE f # e
      <3>1. ready'[e] = ready[e] /\ ~task[t].held
        BY <1>0, <1>5, <2>2 DEF Receive, TaskCovers
      <3>2. \A u \in Task : u # t => task'[u] = task[u]
        BY <1>0, <1>5 DEF Receive
      <3>3. MessageKept(e) => MessageKept(e)'
        BY <1>0, <3>1, <3>2, MessageKeptBy
      <3>4. QED
        BY <1>2, <1>5, <3>3 DEF Receive
    <2>3. QED
      BY <2>1, <2>2
  <1>6. ASSUME NEW t \in Task, Reject(t) PROVE MessageSafe(e)'
    <2>1. CASE task[t].held /\ task[t].event = e
      BY <1>6, <2>1 DEF Reject, MessageSafe
    <2>2. CASE ~(task[t].held /\ task[t].event = e)
      <3>1. ready' = ready /\ \A u \in Task : u # t => task'[u] = task[u]
        BY <1>0, <1>6 DEF Reject
      <3>2. MessageKept(e) => MessageKept(e)'
        BY <1>0, <2>2, <3>1, MessageKeptBy
      <3>3. QED
        BY <1>2, <1>6, <3>2 DEF Reject
    <2>3. QED
      BY <2>1, <2>2
  <1>7. ASSUME NEW t \in Task, TaskError(t) PROVE MessageSafe(e)'
    <2>1. task[t].event \in Event
      BY <1>7 DEF TaskError, TaskCovers
    <2>2. /\ ready'[e] >= ready[e]
          /\ task[t].held /\ task[t].event = e => ready'[e] > 0
          /\ \A u \in Task : u # t => task'[u] = task[u]
      BY <1>0, <1>7, <2>1 DEF TaskError
    <2>3. MessageKept(e) => MessageKept(e)'
      BY <1>0, <2>2, MessageKeptBy
    <2>4. QED
      BY <1>2, <1>7, <2>3 DEF TaskError
  <1>8. ASSUME NEW t \in Task, Settle(t) PROVE MessageSafe(e)'
    <2>1. /\ task[t].event \in Event /\ task[t].event \notin Poison
          /\ \A d \in Delivery : d[1] = task[t].event => CallCovers(t, d)
      BY <1>8 DEF Settle, TaskCovers
    <2>2. /\ ready'[e] >= ready[e]
          /\ \A u \in Task : u # t => task'[u] = task[u]
      BY <1>0, <1>8, <2>1 DEF Settle
    <2>3. CASE SomeThrew(t) \/ ~(task[t].held /\ task[t].event = e)
      <3>1. task[t].held /\ task[t].event = e => ready'[e] > 0
        BY <1>0, <1>8, <2>1, <2>3 DEF Settle
      <3>2. MessageKept(e) => MessageKept(e)'
        BY <1>0, <2>2, <3>1, MessageKeptBy
      <3>3. QED
        BY <1>2, <1>8, <3>2 DEF Settle
    <2>4. CASE ~SomeThrew(t) /\ task[t].held /\ task[t].event = e
      <3>1. ASSUME NEW d \in Delivery, d[1] = e PROVE Started(d)
        BY <1>8, <2>1, <2>4, <3>1
           DEF Settle, AllSettled, SomeThrew, Settled, CallCovers
      <3>2. QED
        BY <1>1, <2>1, <2>4, <3>1 DEF MessageSafe
    <2>5. QED
      BY <2>3, <2>4
  <1>9. ASSUME NEW t \in Task, CreateDeliveries(t) \/ ReadDeliveries(t) PROVE MessageSafe(e)'
    <2>1. arrived' = arrived /\ rejected' = rejected /\ ready' = ready
      BY <1>9 DEF CreateDeliveries, ReadDeliveries, queueVars
    <2>2. \A u \in Task : task'[u].held = task[u].held /\ task'[u].event = task[u].event
      BY <1>0, <1>9 DEF CreateDeliveries, ReadDeliveries, TaskState
    <2>3. Holders(e)' = Holders(e)
      BY <2>2 DEF Holders
    <2>4. QED
      BY <1>2, <2>1, <2>3 DEF MessageKept
  <1>10. ASSUME NEW o \in Owner, NEW d \in Delivery, DeliverStep(o, d) \/ AttemptError(o, d)
         PROVE  MessageSafe(e)'
    BY <1>3, <1>10 DEF DeliverStep, Claim, Send, Succeed, Fail, AttemptError, queueVars
  <1>11. ASSUME NEW d \in Delivery, DeadLetterStep(d) \/ Handle(d) \/ TimePasses(d)
         PROVE  MessageSafe(e)'
    BY <1>3, <1>11
       DEF DeadLetterStep, DeadClaim, DeadPublish, DeadRecord, Handle, TimePasses,
           BackoffElapses, LeaseElapses, queueVars
  <1>12. ASSUME PollStep PROVE MessageSafe(e)'
    BY <1>3, <1>12 DEF PollStep, RecoverOrphans, ReadCandidates, EndCycle, queueVars
  <1>13. ASSUME ConnectionLost \/ Crash PROVE MessageSafe(e)'
    <2>1. arrived' = arrived /\ rejected' = rejected /\ RequeueHeld
      BY <1>13 DEF ConnectionLost, Crash
    <2>2. QED
      BY <1>0, <1>2, <2>1, MessageRequeued
  <1>14. ASSUME UNCHANGED vars PROVE MessageSafe(e)'
    BY <1>3, <1>14 DEF vars, queueVars
  <1>15. QED
    BY <1>4, <1>5, <1>6, <1>7, <1>8, <1>9, <1>10, <1>11, <1>12, <1>13, <1>14
       DEF Next, WorkerNext, ConsumerStep, FaultStep

LEMMA CoverInvInductive == (Init => CoverInv) /\ (CoverInv /\ [Next]_vars => CoverInv')
  <1>1. Init => CoverInv
    BY RowInvInductive DEF Init, CoverInv, TaskCovers, MessageSafe, IdleTask
  <1>2. CoverInv /\ [Next]_vars => CoverInv'
    BY RowInvInductive, TaskCoversStep, MessageSafeStep DEF CoverInv
  <1>3. QED
    BY <1>1, <1>2

\* Through crashes, lost channels and errors, a message that reached the queue is on
\* it, unacknowledged, dead-lettered, or all its deliveries are in the retry cycle's care.
THEOREM MessagesAreNeverLost == Spec => []NoMessageLost
  <1>1. CoverInv => NoMessageLost
    BY DEF CoverInv, MessageSafe, NoMessageLost
  <1>2. QED
    BY <1>1, CoverInvInductive, PTL DEF Spec

=============================================================================
