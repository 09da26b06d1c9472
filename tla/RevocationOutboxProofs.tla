----------------------- MODULE RevocationOutboxProofs -----------------------
(***************************************************************************)
(* What RevocationOutbox guarantees for every set of events and            *)
(* publishers, every batch size and any number of faults.                  *)
(***************************************************************************)
EXTENDS RevocationOutbox, TLAPS

-----------------------------------------------------------------------------
(* Types                                                                   *)

LEMMA IdleType == Idle \in PublisherState /\ Idle.pc = "idle"
  BY DEF Idle, PublisherState, PublisherPc

\* What the loop keeps when it goes on to the next candidate.
LEMMA NextCandidateType ==
    ASSUME TypeOK, NEW p \in Publisher
    PROVE  /\ NextCandidate(p) \in PublisherState
           /\ NextCandidate(p).pc = "claim"
  BY DEF TypeOK, NextCandidate, Idle, PublisherState, PublisherPc

\* An attempt in progress names a row and a number.
LEMMA AttemptType ==
    ASSUME TypeOK, NEW p \in Publisher
    PROVE  /\ pub[p].number \in Nat
           /\ pub[p].batch \subseteq Candidate
           /\ pub[p].pc \in InAttempt =>
                /\ pub[p].id \in Event
                /\ row[pub[p].id] \in Row
                /\ row[pub[p].id].attempts \in Nat
  BY DEF TypeOK, PublisherState, Row

LEMMA PendingType ==
    ASSUME NEW n \in Nat, NEW due \in BOOLEAN
    PROVE  Pending(n, due) \in Row /\ Pending(n, due).status = "PENDING"
  BY DEF Pending, Row

LEMMA TypeInit == Init => TypeOK
  BY IdleType DEF Init, TypeOK, NoRow, Row, InAttempt, Idle

\* The update to PUBLISHED keeps the rows' types.
LEMMA MarkType ==
    ASSUME TypeOK, NEW e \in Event, NEW n, MarkPublished(e, n)
    PROVE  /\ row' \in [Event -> Row]
           /\ \A f \in Event : row'[f].due => row'[f].status = "PENDING"
  BY DEF TypeOK, MarkPublished, Row

LEMMA TypeStep == TypeOK /\ [Next]_vars => TypeOK'
  <1> SUFFICES ASSUME TypeOK, [Next]_vars PROVE TypeOK'
    OBVIOUS
  <1> USE OutboxAssumption
  <1>1. ASSUME NEW S \in SUBSET Event, Commit(S) PROVE TypeOK'
    <2>1. NewRow \in Row /\ NewRow.status = "PENDING"
      BY PendingType DEF NewRow
    <2>2. QED
      BY <1>1, <2>1 DEF TypeOK, Commit
  <1>2. ASSUME NEW p \in Publisher, NEW S \in SUBSET Event, ReadBatch(p, S) PROVE TypeOK'
    <2> DEFINE batch == {[id |-> e, count |-> row[e].attempts] : e \in S}
    <2>1. batch \subseteq Candidate
      BY DEF TypeOK, Row, Candidate
    <2>2. [Idle EXCEPT !.pc = "claim", !.batch = batch] \in PublisherState
      BY <2>1 DEF Idle, PublisherState, PublisherPc
    <2>3. [Idle EXCEPT !.pc = "claim", !.batch = batch].pc = "claim"
      BY DEF Idle
    <2>4. QED
      BY <1>2, <2>2, <2>3 DEF TypeOK, ReadBatch, InAttempt
  <1>3. ASSUME NEW p \in Publisher, NEW c \in pub[p].batch, ClaimNext(p, c) PROVE TypeOK'
    <2>1. c \in Candidate /\ c.id \in Event /\ c.count \in Nat
      BY AttemptType DEF Candidate
    <2>2. CASE Claimable(c)
      <3>1. /\ row' \in [Event -> Row]
            /\ \A f \in Event : row'[f].due => row'[f].status = "PENDING"
        <4>1. row[c.id].attempts + 1 \in Nat
          <5>1. row[c.id] \in Row
            BY <2>1 DEF TypeOK
          <5>2. QED
            BY <5>1 DEF Row
        <4>2. row' = [row EXCEPT ![c.id] = Pending(row[c.id].attempts + 1, FALSE)]
          BY <1>3, <2>2 DEF ClaimNext
        <4>3. QED
          BY <2>1, <4>1, <4>2, PendingType DEF TypeOK
      <3>2. [pc |-> "publish", batch |-> pub[p].batch \ {c}, id |-> c.id,
             number |-> c.count + 1] \in PublisherState
        BY <2>1, AttemptType DEF PublisherState, PublisherPc
      <3>3. QED
        <4>1. pub' = [pub EXCEPT ![p] = [pc |-> "publish", batch |-> pub[p].batch \ {c},
                                         id |-> c.id, number |-> c.count + 1]]
          BY <1>3, <2>2 DEF ClaimNext
        <4>2. /\ pub' \in [Publisher -> PublisherState]
              /\ \A q \in Publisher : pub'[q].pc \in InAttempt => pub'[q].id \in Event
          BY <2>1, <3>2, <4>1 DEF TypeOK
        <4>3. QED
          BY <1>3, <3>1, <4>2 DEF TypeOK, ClaimNext
    <2>3. CASE ~Claimable(c)
      <3>1. /\ [pub[p] EXCEPT !.batch = @ \ {c}] \in PublisherState
            /\ [pub[p] EXCEPT !.batch = @ \ {c}].pc = "claim"
        BY <1>3 DEF TypeOK, ClaimNext, PublisherState
      <3>2. QED
        BY <1>3, <2>3, <3>1 DEF TypeOK, ClaimNext, InAttempt
    <2>4. QED
      BY <2>2, <2>3
  <1>4. ASSUME NEW p \in Publisher, EndCycle(p) \/ Crash(p) PROVE TypeOK'
    BY <1>4, IdleType DEF TypeOK, EndCycle, Crash, Fault, InAttempt
  <1>5. ASSUME NEW p \in Publisher, Confirmed(p) \/ Refused(p) PROVE TypeOK'
    <2>1. pub[p].id \in Event
      BY <1>5, AttemptType DEF Confirmed, Refused, InAttempt
    <2>2. copies' \in [Event -> SUBSET Nat] /\ faults' \in Nat
      BY <1>5, <2>1, AttemptType DEF TypeOK, Confirmed, Refused, CopyAdded, Fault
    <2>3. pub' \in [Publisher -> PublisherState] /\ pub'[p].id \in Event
      BY <1>5, <2>1 DEF TypeOK, Confirmed, Refused, PublisherState, PublisherPc
    <2>4. QED
      BY <1>5, <2>2, <2>3 DEF TypeOK, Confirmed, Refused
  <1>6. ASSUME NEW p \in Publisher, Mark(p) PROVE TypeOK'
    <2>1. /\ row' \in [Event -> Row]
          /\ \A f \in Event : row'[f].due => row'[f].status = "PENDING"
      BY <1>6, AttemptType, MarkType DEF Mark, InAttempt
    <2>2. QED
      BY <1>6, <2>1, NextCandidateType DEF TypeOK, Mark, InAttempt
  <1>7. ASSUME NEW p \in Publisher, MarkError(p) PROVE TypeOK'
    <2>1. /\ row' \in [Event -> Row]
          /\ \A f \in Event : row'[f].due => row'[f].status = "PENDING"
      <3>1. CASE MarkPublished(pub[p].id, pub[p].number)
        BY <1>7, <3>1, AttemptType, MarkType DEF MarkError, InAttempt
      <3>2. CASE UNCHANGED row
        BY <3>2 DEF TypeOK
      <3>3. QED
        BY <1>7, <3>1, <3>2 DEF MarkError
    <2>2. pub' \in [Publisher -> PublisherState] /\ pub'[p].id = pub[p].id
      BY <1>7 DEF TypeOK, MarkError, PublisherState, PublisherPc
    <2>3. QED
      BY <1>7, <2>1, <2>2, AttemptType DEF TypeOK, MarkError, Fault, InAttempt
  <1>8. ASSUME NEW p \in Publisher, Reschedule(p) PROVE TypeOK'
    <2>1. /\ row' \in [Event -> Row]
          /\ \A f \in Event : row'[f].due => row'[f].status = "PENDING"
      BY <1>8 DEF TypeOK, Reschedule, Row
    <2>2. QED
      BY <1>8, <2>1, IdleType, NextCandidateType DEF TypeOK, Reschedule, InAttempt
  <1>9. ASSUME NEW e \in Event, Elapse(e) PROVE TypeOK'
    <2>1. /\ row' \in [Event -> Row]
          /\ \A f \in Event : row'[f].due => row'[f].status = "PENDING"
      BY <1>9 DEF TypeOK, Elapse, Row
    <2>2. faults' \in Nat
      BY <1>9 DEF TypeOK, Elapse, Fault
    <2>3. QED
      BY <1>9, <2>1, <2>2 DEF TypeOK, Elapse
  <1>10. CASE UNCHANGED vars
    BY <1>10 DEF TypeOK, vars
  <1>11. QED
    BY <1>1, <1>2, <1>3, <1>4, <1>5, <1>6, <1>7, <1>8, <1>9, <1>10
       DEF Next, PublisherNext, CycleStep, FaultStep

\* Every variable keeps its type through every interleaving of publishers and faults.
THEOREM OutboxTypes == Spec => []TypeOK
  BY TypeInit, TypeStep, PTL DEF Spec

-----------------------------------------------------------------------------
(* Attempt numbers                                                         *)

\* A row that does not exist yet has counted no attempt.
RowsFresh == \A e \in Event : row[e].status = "NONE" => row[e] = NoRow

\* The number of an attempt in progress is one its row has counted, and an attempt
\* that has its confirm has left a copy.
AttemptsCounted ==
    \A p \in Publisher, e \in Event :
        Working(p, e) =>
            /\ pub[p].number \in 1 .. row[e].attempts
            /\ pub[p].pc = "mark" => pub[p].number \in copies[e]

NumberInv == RowsFresh /\ AttemptsCounted /\ AttemptsAreExclusive /\ PublishedWasEnqueued

OutboxInv == TypeOK /\ NumberInv

\* What a step that claims nothing and adds no copy does: rows keep their numbers,
\* attempts end or go on, and only a row whose message is in the broker is published.
Quiet ==
    /\ UNCHANGED copies
    /\ \A e \in Event :
         /\ row'[e].attempts = row[e].attempts
         /\ row'[e].status = "NONE" => row'[e] = row[e]
         /\ row'[e].status = "PUBLISHED" => row[e].status = "PUBLISHED" \/ copies[e] # {}
    /\ \A p \in Publisher, e \in Event :
         Working(p, e)' =>
            /\ Working(p, e)
            /\ pub'[p].number = pub[p].number
            /\ pub'[p].pc \in {"publish", "mark"} => pub'[p].pc = pub[p].pc

LEMMA QuietKeepsNumbers ==
    ASSUME OutboxInv, Quiet
    PROVE  NumberInv'
  <1>1. RowsFresh' /\ PublishedWasEnqueued'
    BY DEF OutboxInv, NumberInv, RowsFresh, PublishedWasEnqueued, Quiet
  <1>2. AttemptsCounted'
    BY DEF OutboxInv, NumberInv, AttemptsCounted, Quiet
  <1>3. ASSUME NEW e \in Event
        PROVE  copies'[e] \subseteq 1 .. row'[e].attempts
    BY DEF OutboxInv, NumberInv, AttemptsAreExclusive, Quiet
  <1>4. ASSUME NEW e \in Event, NEW p \in Publisher, Working(p, e)', pub'[p].pc = "publish"
        PROVE  pub'[p].number \notin copies'[e]
    BY <1>4 DEF OutboxInv, NumberInv, AttemptsAreExclusive, Quiet
  <1>5. ASSUME NEW e \in Event, NEW p \in Publisher, NEW q \in Publisher,
               Working(p, e)', Working(q, e)', pub'[p].number = pub'[q].number
        PROVE  p = q
    BY <1>5 DEF OutboxInv, NumberInv, AttemptsAreExclusive, Quiet
  <1>6. QED
    BY <1>1, <1>2, <1>3, <1>4, <1>5 DEF NumberInv, AttemptsAreExclusive

\* The guard on publishAttemptCount makes the claimed number a new one.
LEMMA ClaimKeepsNumbers ==
    ASSUME OutboxInv, NEW p \in Publisher, NEW c \in Candidate, ClaimNext(p, c), Claimable(c)
    PROVE  NumberInv'
  <1> DEFINE d == c.id
  <1>1. /\ d \in Event /\ row[d].attempts \in Nat
        /\ c.count = row[d].attempts
        /\ row[d].status = "PENDING"
    BY DEF OutboxInv, TypeOK, Row, Candidate, Claimable, Eligible
  <1>2. /\ row'[d].attempts = row[d].attempts + 1 /\ row'[d].status = "PENDING"
        /\ \A e \in Event : e # d => row'[e] = row[e]
        /\ UNCHANGED copies
    BY <1>1 DEF OutboxInv, TypeOK, ClaimNext, Pending
  <1>3. /\ pub'[p].pc = "publish" /\ pub'[p].id = d
        /\ pub'[p].number = row[d].attempts + 1
        /\ \A q \in Publisher : q # p => pub'[q] = pub[q]
    BY <1>1 DEF OutboxInv, TypeOK, ClaimNext
  <1>4. \A q \in Publisher, e \in Event :
          Working(q, e)' => (q = p /\ e = d) \/ (q # p /\ Working(q, e))
    BY <1>3 DEF Working
  <1>5. ASSUME NEW q \in Publisher, NEW e \in Event, Working(q, e)'
        PROVE  /\ pub'[q].number \in 1 .. row'[e].attempts
               /\ pub'[q].pc = "mark" => pub'[q].number \in copies'[e]
               /\ e = d /\ q # p => pub'[q].number # row[d].attempts + 1
    BY <1>1, <1>2, <1>3, <1>4, <1>5 DEF OutboxInv, NumberInv, AttemptsCounted
  <1>6. ASSUME NEW e \in Event
        PROVE  /\ copies'[e] \subseteq 1 .. row'[e].attempts
               /\ row[d].attempts + 1 \notin copies'[d]
    BY <1>1, <1>2 DEF OutboxInv, NumberInv, AttemptsAreExclusive
  <1>7. ASSUME NEW e \in Event, NEW q \in Publisher, Working(q, e)', pub'[q].pc = "publish"
        PROVE  pub'[q].number \notin copies'[e]
    BY <1>2, <1>3, <1>4, <1>6, <1>7 DEF OutboxInv, NumberInv, AttemptsAreExclusive
  <1>8. ASSUME NEW e \in Event, NEW q \in Publisher, NEW r \in Publisher,
               Working(q, e)', Working(r, e)', pub'[q].number = pub'[r].number
        PROVE  q = r
    BY <1>3, <1>4, <1>5, <1>8 DEF OutboxInv, NumberInv, AttemptsAreExclusive
  <1>9. RowsFresh' /\ PublishedWasEnqueued'
    BY <1>2 DEF OutboxInv, NumberInv, RowsFresh, PublishedWasEnqueued
  <1>10. QED
    BY <1>5, <1>6, <1>7, <1>8, <1>9 DEF NumberInv, AttemptsCounted, AttemptsAreExclusive

\* A copy that reaches the broker uses up the number of its attempt.
LEMMA CopyKeepsNumbers ==
    ASSUME OutboxInv, NEW p \in Publisher, pub[p].pc = "publish", CopyAdded(p), UNCHANGED row,
           NEW pc \in {"mark", "refused"}, pub' = [pub EXCEPT ![p].pc = pc]
    PROVE  NumberInv'
  <1> DEFINE d == pub[p].id
  <1>1. /\ d \in Event /\ Working(p, d)
        /\ copies'[d] = copies[d] \cup {pub[p].number}
        /\ \A e \in Event : e # d => copies'[e] = copies[e]
    BY DEF OutboxInv, TypeOK, CopyAdded, Working, InAttempt
  <1>2. /\ pub'[p].pc = pc /\ pub'[p].id = d /\ pub'[p].number = pub[p].number
        /\ \A q \in Publisher : q # p => pub'[q] = pub[q]
    BY DEF OutboxInv, TypeOK, PublisherState
  <1>3. \A q \in Publisher, e \in Event : Working(q, e)' => Working(q, e)
    BY <1>2 DEF Working, InAttempt
  <1>4. ASSUME NEW q \in Publisher, NEW e \in Event, Working(q, e)'
        PROVE  /\ pub'[q].number \in 1 .. row'[e].attempts
               /\ pub'[q].pc = "mark" => pub'[q].number \in copies'[e]
               /\ e # d => q # p
    BY <1>1, <1>2, <1>3, <1>4 DEF OutboxInv, NumberInv, AttemptsCounted, Working
  <1>5. ASSUME NEW e \in Event PROVE copies'[e] \subseteq 1 .. row'[e].attempts
    BY <1>1, <1>5 DEF OutboxInv, NumberInv, AttemptsAreExclusive, AttemptsCounted
  <1>6. ASSUME NEW e \in Event, NEW q \in Publisher, Working(q, e)', pub'[q].pc = "publish"
        PROVE  pub'[q].number \notin copies'[e]
    BY <1>1, <1>2, <1>3, <1>6 DEF OutboxInv, NumberInv, AttemptsAreExclusive
  <1>7. ASSUME NEW e \in Event, NEW q \in Publisher, NEW r \in Publisher,
               Working(q, e)', Working(r, e)', pub'[q].number = pub'[r].number
        PROVE  q = r
    BY <1>2, <1>3, <1>7 DEF OutboxInv, NumberInv, AttemptsAreExclusive
  <1>8. RowsFresh' /\ PublishedWasEnqueued'
    BY <1>1 DEF OutboxInv, NumberInv, RowsFresh, PublishedWasEnqueued
  <1>9. QED
    BY <1>4, <1>5, <1>6, <1>7, <1>8 DEF NumberInv, AttemptsCounted, AttemptsAreExclusive

\* Every other step is quiet.
LEMMA QuietSteps ==
    ASSUME OutboxInv, [Next]_vars,
           \A p \in Publisher :
             /\ \A c \in pub[p].batch : ~(ClaimNext(p, c) /\ Claimable(c))
             /\ ~Confirmed(p)
             /\ ~(Refused(p) /\ CopyAdded(p))
    PROVE  Quiet
  <1>0. /\ TypeOK
        /\ row \in [Event -> Row] /\ pub \in [Publisher -> PublisherState]
        /\ \A e \in Event : row[e].status = "NONE" => row[e].attempts = 0
    BY DEF OutboxInv, NumberInv, TypeOK, RowsFresh, NoRow
  <1>1. ASSUME UNCHANGED <<row, copies>>, NEW p \in Publisher,
               \A q \in Publisher : q # p => pub'[q] = pub[q],
               pub'[p].pc \notin InAttempt
        PROVE  Quiet
    BY <1>1 DEF Quiet, Working
  <1>2. ASSUME NEW S \in SUBSET Event, Commit(S) PROVE Quiet
    <2>1. NewRow.attempts = 0 /\ NewRow.status = "PENDING"
      BY DEF NewRow, Pending
    <2>2. \A e \in Event :
            /\ row'[e].attempts = row[e].attempts
            /\ row'[e].status = "NONE" => row'[e] = row[e]
            /\ row'[e].status = "PUBLISHED" => row[e].status = "PUBLISHED"
      BY <1>0, <1>2, <2>1 DEF Commit
    <2>3. QED
      BY <1>2, <2>2 DEF Commit, Quiet, Working
  <1>3. ASSUME NEW p \in Publisher, NEW S \in SUBSET Event, ReadBatch(p, S) PROVE Quiet
    <2>1. pub'[p].pc = "claim" /\ \A q \in Publisher : q # p => pub'[q] = pub[q]
      BY <1>0, <1>3 DEF ReadBatch, Idle
    <2>2. QED
      BY <1>1, <1>3, <2>1 DEF ReadBatch, InAttempt
  <1>4. ASSUME NEW p \in Publisher, NEW c \in pub[p].batch, ClaimNext(p, c) PROVE Quiet
    <2>1. /\ pub'[p].pc = "claim"
          /\ UNCHANGED <<row, copies>>
          /\ \A q \in Publisher : q # p => pub'[q] = pub[q]
      BY <1>0, <1>4 DEF ClaimNext, PublisherState
    <2>2. QED
      BY <1>1, <2>1 DEF InAttempt
  <1>5. ASSUME NEW p \in Publisher, EndCycle(p) \/ Crash(p) PROVE Quiet
    <2>1. /\ pub'[p].pc = "idle"
          /\ UNCHANGED <<row, copies>>
          /\ \A q \in Publisher : q # p => pub'[q] = pub[q]
      BY <1>0, <1>5, IdleType DEF EndCycle, Crash
    <2>2. QED
      BY <1>1, <2>1 DEF InAttempt
  <1>6. ASSUME NEW p \in Publisher, Refused(p) PROVE Quiet
    <2>1. /\ UNCHANGED <<row, copies>>
          /\ pub'[p].pc = "refused" /\ pub'[p].id = pub[p].id /\ pub'[p].number = pub[p].number
          /\ pub[p].pc = "publish"
          /\ \A q \in Publisher : q # p => pub'[q] = pub[q]
      BY <1>0, <1>6 DEF Refused, PublisherState
    <2>2. QED
      BY <2>1 DEF Quiet, Working, InAttempt
  <1>7. ASSUME NEW p \in Publisher, pub[p].pc = "mark",
               MarkPublished(pub[p].id, pub[p].number) \/ UNCHANGED row
        PROVE  \A e \in Event :
                 /\ row'[e].attempts = row[e].attempts
                 /\ row'[e].status = "NONE" => row'[e] = row[e]
                 /\ row'[e].status = "PUBLISHED" => row[e].status = "PUBLISHED" \/ copies[e] # {}
    <2>1. copies[pub[p].id] # {} /\ pub[p].id \in Event
      BY <1>0, <1>7, AttemptType
         DEF OutboxInv, NumberInv, AttemptsCounted, Working, InAttempt
    <2>2. QED
      BY <1>0, <1>7, <2>1 DEF MarkPublished, Row
  <1>8. ASSUME NEW p \in Publisher, Mark(p) PROVE Quiet
    <2>1. pub'[p].pc = "claim" /\ \A q \in Publisher : q # p => pub'[q] = pub[q]
      BY <1>0, <1>8, NextCandidateType DEF Mark
    <2>2. QED
      BY <1>7, <1>8, <2>1 DEF Mark, Quiet, Working, InAttempt
  <1>9. ASSUME NEW p \in Publisher, MarkError(p) PROVE Quiet
    <2>1. /\ pub'[p].pc = "unmarked" /\ pub'[p].id = pub[p].id /\ pub'[p].number = pub[p].number
          /\ pub[p].pc = "mark"
          /\ \A q \in Publisher : q # p => pub'[q] = pub[q]
      BY <1>0, <1>9 DEF MarkError, PublisherState
    <2>2. QED
      BY <1>7, <1>9, <2>1 DEF MarkError, Quiet, Working, InAttempt
  <1>10. ASSUME NEW p \in Publisher, Reschedule(p) PROVE Quiet
    <2>1. pub'[p].pc \in {"idle", "claim"} /\ \A q \in Publisher : q # p => pub'[q] = pub[q]
      BY <1>0, <1>10, IdleType, NextCandidateType DEF Reschedule
    <2>2. \A e \in Event :
            /\ row'[e].attempts = row[e].attempts
            /\ row'[e].status = row[e].status
            /\ row'[e].status = "NONE" => row'[e] = row[e]
      BY <1>0, <1>10 DEF Reschedule, Owned, Row
    <2>3. QED
      BY <1>10, <2>1, <2>2 DEF Reschedule, Quiet, Working, InAttempt
  <1>11. ASSUME NEW e \in Event, Elapse(e) PROVE Quiet
    BY <1>0, <1>11 DEF Elapse, Quiet, Working, Row
  <1>12. ASSUME UNCHANGED vars PROVE Quiet
    BY <1>12 DEF vars, Quiet, Working
  <1>13. QED
    BY <1>2, <1>3, <1>4, <1>5, <1>6, <1>8, <1>9, <1>10, <1>11, <1>12
       DEF Next, PublisherNext, CycleStep, FaultStep

LEMMA OutboxInvInductive == (Init => OutboxInv) /\ (OutboxInv /\ [Next]_vars => OutboxInv')
  <1>1. Init => OutboxInv
    BY TypeInit
       DEF Init, OutboxInv, NumberInv, RowsFresh, AttemptsCounted, AttemptsAreExclusive,
           PublishedWasEnqueued, Working, InAttempt, Idle, NoRow
  <1>2. ASSUME OutboxInv, [Next]_vars PROVE OutboxInv'
    <2>1. TypeOK'
      BY <1>2, TypeStep DEF OutboxInv
    <2>2. ASSUME NEW p \in Publisher, NEW c \in pub[p].batch, ClaimNext(p, c), Claimable(c)
          PROVE  NumberInv'
      <3>1. c \in Candidate
        BY <1>2, AttemptType DEF OutboxInv
      <3>2. QED
        BY <1>2, <2>2, <3>1, ClaimKeepsNumbers
    <2>3. ASSUME NEW p \in Publisher, Confirmed(p) \/ (Refused(p) /\ CopyAdded(p))
          PROVE  NumberInv'
      BY <1>2, <2>3, CopyKeepsNumbers DEF Confirmed, Refused
    <2>4. QED
      BY <1>2, <2>1, <2>2, <2>3, QuietSteps, QuietKeepsNumbers DEF OutboxInv
  <1>3. QED
    BY <1>1, <1>2

LEMMA OutboxInvAlways == Spec => []OutboxInv
  BY OutboxInvInductive, PTL DEF Spec

\* A revocation marked as published is in the broker's hands.
THEOREM NothingPublishedUnsent == Spec => []PublishedWasEnqueued
  BY OutboxInvAlways, PTL DEF OutboxInv, NumberInv

\* However publishers overlap, each attempt number is published under at most once.
THEOREM AttemptsStayExclusive == Spec => []AttemptsAreExclusive
  BY OutboxInvAlways, PTL DEF OutboxInv, NumberInv

\* A published row is left alone by every late attempt and every error path.
THEOREM PublishedStaysFinal == Spec => PublishedIsFinal
  <1>1. ASSUME TypeOK, [Next]_vars, NEW e \in Event, row[e].status = "PUBLISHED"
        PROVE  row'[e] = row[e]
    <2>1. ASSUME NEW p \in Publisher, CycleStep(p) \/ FaultStep(p) PROVE row'[e] = row[e]
      BY <1>1, <2>1
         DEF TypeOK, CycleStep, FaultStep, ReadBatch, ClaimNext, EndCycle, Confirmed, Mark,
             Reschedule, Refused, MarkError, Crash, MarkPublished, Owned, Claimable, Eligible
    <2>2. ASSUME NEW S \in SUBSET Event, Commit(S) PROVE row'[e] = row[e]
      BY <1>1, <2>2 DEF Commit
    <2>3. ASSUME NEW f \in Event, Elapse(f) PROVE row'[e] = row[e]
      BY <1>1, <2>3 DEF Elapse, TypeOK
    <2>4. QED
      BY <1>1, <2>1, <2>2, <2>3 DEF Next, PublisherNext, vars
  <1>2. TypeOK /\ [Next]_vars =>
          [\A e \in Event : row[e].status = "PUBLISHED" => row'[e] = row[e]]_vars
    BY <1>1
  <1>3. QED
    BY <1>2, OutboxTypes, PTL DEF Spec, PublishedIsFinal

\* An attempt whose row has been claimed again writes nothing to it.
THEOREM LateAttemptsAreHarmless == Spec => LateAttemptChangesNothing
  <1>1. ASSUME TypeOK, [Next]_vars, NEW p \in Publisher, NEW e \in Event, Working(p, e),
               pub[p].number < row[e].attempts, pub'[p] # pub[p]
        PROVE  row'[e] = row[e]
    <2>1. pub[p].number \in Nat /\ row[e].attempts \in Nat
      BY <1>1, AttemptType DEF Working
    <2>2. ~Owned(e, pub[p].number)
      BY <1>1, <2>1 DEF Owned
    <2>3. ASSUME NEW q \in Publisher, CycleStep(q) \/ FaultStep(q) PROVE row'[e] = row[e]
      <3>1. q = p
        BY <1>1, <2>3
           DEF TypeOK, CycleStep, FaultStep, ReadBatch, ClaimNext, EndCycle, Confirmed, Mark,
               Reschedule, Refused, MarkError, Crash
      <3>2. QED
        BY <1>1, <2>2, <2>3, <3>1
           DEF TypeOK, CycleStep, FaultStep, ReadBatch, ClaimNext, EndCycle, Confirmed, Mark,
               Reschedule, Refused, MarkError, Crash, MarkPublished, Working, InAttempt
    <2>4. QED
      BY <1>1, <2>3 DEF Next, PublisherNext, Commit, Elapse, vars
  <1>2. TypeOK /\ [Next]_vars =>
          [\A p \in Publisher, e \in Event :
             /\ Working(p, e)
             /\ pub[p].number < row[e].attempts
             /\ pub'[p] # pub[p]
             => row'[e] = row[e]]_vars
    BY <1>1
  <1>3. QED
    BY <1>2, OutboxTypes, PTL DEF Spec, LateAttemptChangesNothing

=============================================================================
