------------------------- MODULE LocalSessionsProofs -------------------------
(***************************************************************************)
(* What LocalSessions guarantees for every set of sessions, events and     *)
(* requests, and any number of faults.                                     *)
(***************************************************************************)
EXTENDS LocalSessions, TLAPS

-----------------------------------------------------------------------------
(* Types, and what the control state of a request says about its other     *)
(* fields.                                                                 *)

Visiting == {"page", "logout"}

CallOK(x) ==
    /\ x.kind = "event" => x.event \in emitted /\ x.event \in Event /\ x.write = "REVOKED"
    /\ x.kind \in Visiting => x.event = NoEvent
    /\ x.pc \in {"lookup", "insert", "scan"} => x.kind = "event"
    /\ x.pc = "read" => x.kind \in Visiting
    /\ x.pc \in {"guard", "commit"} => x.kind # "none" /\ x.write # "NONE"
    /\ x.past \subseteq past

TypeInv ==
    /\ TypeOK
    /\ \A r \in Request : CallOK(request[r])
    /\ processed \subseteq emitted

LEMMA NewRequestType == NewRequest \in RequestState
  BY DEF NewRequest, RequestState, Pc, Status

LEMMA RequestType ==
    ASSUME TypeInv, NEW r \in Request
    PROVE  /\ request[r] \in RequestState
           /\ request[r].pc \in Pc
           /\ request[r].rows \subseteq Login
           /\ request[r].past \subseteq Login
           /\ request[r].event \in Event \cup {NoEvent}
           /\ request[r].write \in Status
           /\ CallOK(request[r])
  BY DEF TypeInv, TypeOK, RequestState

LEMMA EndedType ==
    ASSUME TypeInv, NEW r \in Request, NEW pc \in {"reply", "done", "failed"}
    PROVE  /\ Ended(r, pc) \in RequestState
           /\ Ended(r, pc).pc = pc
           /\ Ended(r, pc).kind = "none"
           /\ Ended(r, pc).event = request[r].event
           /\ Ended(r, pc).past = {}
           /\ CallOK(Ended(r, pc))
  <1>1. request[r].event \in Event \cup {NoEvent}
    BY RequestType
  <1>2. /\ Ended(r, pc) \in RequestState
        /\ Ended(r, pc).pc = pc
        /\ Ended(r, pc).kind = "none"
        /\ Ended(r, pc).event = request[r].event
        /\ Ended(r, pc).past = {}
    BY <1>1 DEF Ended, NewRequest, RequestState, Pc, Status
  <1>3. QED
    BY <1>2 DEF CallOK, Visiting

\* A step of one request keeps the invariant if its new state satisfies it.
LEMMA OneRequest ==
    ASSUME TypeInv, NEW r \in Request, NEW x \in RequestState, CallOK(x),
           request' = [request EXCEPT ![r] = x],
           UNCHANGED <<provider, profile, past>>,
           session' \in [Login -> Session],
           \A l \in Login : session'[l].by # NoEvent => session'[l].status = "REVOKED",
           processed' \subseteq emitted, faults' \in Nat
    PROVE  TypeInv'
  <1>1. emitted' = emitted /\ past' = past /\ central' = central /\ covered' = covered
    BY DEF provider
  <1>2. request' \in [Request -> RequestState]
    BY DEF TypeInv, TypeOK
  <1>3. \A q \in Request : request'[q] = IF q = r THEN x ELSE request[q]
    BY DEF TypeInv, TypeOK
  <1>4. \A q \in Request : CallOK(request[q])'
    BY <1>1, <1>3 DEF TypeInv, CallOK
  <1>5. processed' \subseteq Event
    BY DEF TypeInv, TypeOK
  <1>6. QED
    BY <1>1, <1>2, <1>4, <1>5 DEF TypeInv, TypeOK, provider

LEMMA TypeInit == Init => TypeInv
  <1> SUFFICES ASSUME Init PROVE TypeInv
    OBVIOUS
  <1> USE LocalAssumption
  <1>1. TypeOK
    BY NewRequestType DEF Init, TypeOK, Session, Status
  <1>2. \A r \in Request : CallOK(request[r])
    BY DEF Init, NewRequest, CallOK, Visiting
  <1>3. QED
    BY <1>1, <1>2 DEF Init, TypeInv

\* The environment's steps.
LEMMA TypeEnvironment ==
    ASSUME TypeInv,
           \/ \E c \in CentralSession : SignIn(c)
           \/ \E e \in Event : Emit(e)
           \/ \E l \in Login : LoginStep(l)
    PROVE  TypeInv'
  <1> USE LocalAssumption
  <1>1. CASE \E c \in CentralSession : SignIn(c)
    BY <1>1 DEF SignIn, TypeInv, TypeOK, CallOK
  <1>2. ASSUME NEW e \in Event, Emit(e) PROVE TypeInv'
    BY <1>2 DEF Emit, TypeInv, TypeOK, CallOK
  <1>3. ASSUME NEW l \in Login, NEW c \in CentralSession, FetchProfile(l, c) PROVE TypeInv'
    BY <1>3 DEF FetchProfile, TypeInv, TypeOK, CallOK, provider
  <1>4. ASSUME NEW l \in Login, Issue(l) PROVE TypeInv'
    <2>1. /\ session' \in [Login -> Session]
          /\ \A k \in Login : session'[k].by # NoEvent => session'[k].status = "REVOKED"
      BY <1>4 DEF Issue, TypeInv, TypeOK, Session, Status
    <2>2. QED
      BY <1>4, <2>1 DEF Issue, TypeInv, TypeOK, CallOK, provider
  <1>5. ASSUME NEW l \in Login, Elapse(l) PROVE TypeInv'
    BY <1>5 DEF Elapse, TypeInv, TypeOK, CallOK, provider
  <1>6. QED
    BY <1>1, <1>2, <1>3, <1>4, <1>5 DEF LoginStep

\* The steps of a request that leave the sessions and the keys alone.
Quiet(r) == EventStep(r) \/ VisitStep(r) \/ Guard(r) \/ Reply(r) \/ Fail(r)

GoodStep(r) ==
    /\ \E x \in RequestState : CallOK(x) /\ request' = [request EXCEPT ![r] = x]
    /\ UNCHANGED <<provider, profile, session, past, processed>>
    /\ faults' \in Nat

LEMMA QuietIsGood == ASSUME TypeInv, NEW r \in Request, Quiet(r) PROVE GoodStep(r)
  <1> USE LocalAssumption
  <1>0. /\ request[r] \in RequestState /\ CallOK(request[r])
        /\ faults \in Nat /\ past \subseteq Login
    BY RequestType DEF TypeInv, TypeOK
  <1>1. ASSUME NEW e \in Event, Receive(r, e) PROVE GoodStep(r)
    <2> DEFINE x == [NewRequest EXCEPT !.pc = "lookup", !.kind = "event", !.event = e,
                       !.write = "REVOKED", !.past = past]
    <2>1. x \in RequestState /\ CallOK(x)
      BY <1>0, <1>1 DEF Receive, NewRequest, RequestState, Pc, Status, CallOK, Visiting
    <2>2. request' = [request EXCEPT ![r] = x]
      BY <1>1 DEF Receive
    <2>3. QED
      BY <1>0, <1>1, <2>1, <2>2 DEF Receive, GoodStep
  <1>2. ASSUME Lookup(r) \/ Insert(r) PROVE GoodStep(r)
    <2> DEFINE x(pc) == [request[r] EXCEPT !.pc = pc]
    <2>1. ASSUME NEW pc \in {"insert", "scan"} PROVE x(pc) \in RequestState /\ CallOK(x(pc))
      BY <1>0, <1>2 DEF Lookup, Insert, RequestState, Pc, CallOK, Visiting
    <2>2. request' = [request EXCEPT ![r] = x("insert")] \/ request' = [request EXCEPT ![r] = x("scan")]
      BY <1>2 DEF Lookup, Insert
    <2>3. QED
      BY <1>0, <1>2, <2>1, <2>2 DEF Lookup, Insert, GoodStep
  <1>3. ASSUME Replayed(r) PROVE GoodStep(r)
    BY <1>0, <1>3, EndedType DEF Replayed, GoodStep
  <1>4. ASSUME Scan(r) PROVE GoodStep(r)
    <2> DEFINE rows == {l \in Login : /\ Matches(request[r].event, l)
                                      /\ Writable("REVOKED", request[r].past, l)}
               x == [request[r] EXCEPT !.pc = "guard", !.rows = rows]
    <2>1. x \in RequestState /\ CallOK(x)
      <3>1. rows \in SUBSET Login
        OBVIOUS
      <3>2. QED
        BY <1>0, <1>4, <3>1 DEF Scan, RequestState, Pc, CallOK, Visiting
    <2>2. request' = [request EXCEPT ![r] = x]
      BY <1>4 DEF Scan
    <2>3. QED
      BY <1>0, <1>4, <2>1, <2>2 DEF Scan, GoodStep
  <1>5. ASSUME NEW l \in Login, NEW kind \in Visiting, Visit(r, l, kind) PROVE GoodStep(r)
    <2> DEFINE x == [NewRequest EXCEPT !.pc = "read", !.kind = kind, !.rows = {l}, !.past = past]
    <2>1. x \in RequestState /\ CallOK(x)
      BY <1>0 DEF NewRequest, RequestState, Pc, Status, CallOK, Visiting
    <2>2. request' = [request EXCEPT ![r] = x]
      BY <1>5 DEF Visit
    <2>3. QED
      BY <1>0, <1>5, <2>1, <2>2 DEF Visit, GoodStep
  <1>6. ASSUME Read(r) PROVE GoodStep(r)
    <2>1. PICK l \in request[r].rows :
            LET plan == Plan(request[r].kind, Classify(request[r].past, l))
            IN  request' = [request EXCEPT ![r] = IF plan = "NONE" THEN Ended(r, "done")
                              ELSE [request[r] EXCEPT !.pc = "guard", !.write = plan]]
      BY <1>6 DEF Read
    <2> DEFINE plan == Plan(request[r].kind, Classify(request[r].past, l))
               x == [request[r] EXCEPT !.pc = "guard", !.write = plan]
    <2>2. plan \in Status
      BY DEF Plan, Status
    <2>3. CASE plan = "NONE"
      <3>1. request' = [request EXCEPT ![r] = Ended(r, "done")]
        BY <2>1, <2>3
      <3>2. QED
        BY <1>0, <1>6, <3>1, EndedType DEF Read, GoodStep
    <2>4. CASE plan # "NONE"
      <3>1. x \in RequestState /\ CallOK(x)
        BY <1>0, <1>6, <2>2, <2>4 DEF Read, RequestState, Pc, CallOK, Visiting
      <3>2. request' = [request EXCEPT ![r] = x]
        BY <2>1, <2>4
      <3>3. QED
        BY <1>0, <1>6, <3>1, <3>2 DEF Read, GoodStep
    <2>5. QED
      BY <2>3, <2>4
  <1>7. ASSUME Guard(r) PROVE GoodStep(r)
    <2> DEFINE rows == {l \in request[r].rows : Writable(request[r].write, request[r].past, l)}
               x == [request[r] EXCEPT !.pc = "commit", !.rows = rows]
    <2>1. x \in RequestState /\ CallOK(x)
      <3>1. rows \in SUBSET Login
        BY <1>0 DEF RequestState
      <3>2. QED
        BY <1>0, <1>7, <3>1 DEF Guard, RequestState, Pc, CallOK, Visiting
    <2>2. \/ request' = [request EXCEPT ![r] = Ended(r, "done")]
          \/ request' = [request EXCEPT ![r] = x]
      BY <1>7 DEF Guard
    <2>3. QED
      BY <1>0, <1>7, <2>1, <2>2, EndedType DEF Guard, GoodStep
  <1>8. ASSUME Reply(r) PROVE GoodStep(r)
    BY <1>0, <1>8, EndedType DEF Reply, GoodStep
  <1>9. ASSUME Fail(r) PROVE GoodStep(r)
    <2>1. faults' \in Nat
      BY <1>0, <1>9 DEF Fail
    <2>2. Ended(r, "failed") \in RequestState /\ CallOK(Ended(r, "failed"))
      BY EndedType
    <2>3. QED
      BY <1>9, <2>1, <2>2 DEF Fail, GoodStep
  <1>10. QED
    BY <1>1, <1>2, <1>3, <1>4, <1>5, <1>6, <1>7, <1>8, <1>9
       DEF Quiet, EventStep, VisitStep, Visiting

\* A commit writes the rows it holds and, for an event, its key.
LEMMA TypeCommit == ASSUME TypeInv, NEW r \in Request, Commit(r) PROVE TypeInv'
  <1> USE LocalAssumption
  <1>1. CallOK(request[r]) /\ request[r] \in RequestState
    BY RequestType
  <1>2. \A l \in Login : /\ Written(r, l) \in Session
                         /\ Written(r, l).by # NoEvent => Written(r, l).status = "REVOKED"
    <2> SUFFICES ASSUME NEW l \in Login
                 PROVE  /\ Written(r, l) \in Session
                        /\ Written(r, l).by # NoEvent => Written(r, l).status = "REVOKED"
      OBVIOUS
    <2>1. CASE request[r].write = "ACTIVE"
      BY <2>1 DEF Written, TypeInv, TypeOK
    <2>2. CASE request[r].write # "ACTIVE"
      <3>1. Written(r, l) = [status |-> request[r].write, by |-> request[r].event]
        BY <2>2 DEF Written
      <3>2. request[r].event # NoEvent => request[r].write = "REVOKED"
        BY <1>1 DEF Commit, CallOK, Visiting, RequestState
      <3>3. QED
        BY <1>1, <3>1, <3>2 DEF RequestState, Session
    <2>3. QED
      BY <2>1, <2>2
  <1>3. /\ session' \in [Login -> Session]
        /\ \A l \in Login : session'[l].by # NoEvent => session'[l].status = "REVOKED"
    BY <1>2 DEF Commit, TypeInv, TypeOK
  <1>4. processed' \subseteq emitted /\ faults' \in Nat
    BY <1>1 DEF Commit, TypeInv, TypeOK, CallOK
  <1>5. PICK pc \in {"reply", "done"} : request' = [request EXCEPT ![r] = Ended(r, pc)]
    BY DEF Commit
  <1>6. UNCHANGED <<provider, profile, past>>
    BY DEF Commit
  <1>7. QED
    BY <1>3, <1>4, <1>5, <1>6, EndedType, OneRequest

LEMMA TypeStep == TypeInv /\ [Next]_vars => TypeInv'
  <1> SUFFICES ASSUME TypeInv, [Next]_vars PROVE TypeInv'
    OBVIOUS
  <1>1. ASSUME NEW r \in Request, Quiet(r) PROVE TypeInv'
    <2>1. GoodStep(r)
      BY <1>1, QuietIsGood
    <2>2. PICK x \in RequestState : CallOK(x) /\ request' = [request EXCEPT ![r] = x]
      BY <2>1 DEF GoodStep
    <2>3. /\ UNCHANGED <<provider, profile, past>> /\ session' = session
          /\ processed' = processed /\ faults' \in Nat
      BY <2>1 DEF GoodStep
    <2>4. /\ session' \in [Login -> Session] /\ processed' \subseteq emitted
          /\ \A l \in Login : session'[l].by # NoEvent => session'[l].status = "REVOKED"
      BY <2>3 DEF TypeInv, TypeOK
    <2>5. QED
      BY <2>2, <2>3, <2>4, OneRequest
  <1>2. CASE UNCHANGED vars
    BY <1>2 DEF vars, TypeInv, TypeOK, CallOK
  <1>3. QED
    BY <1>1, <1>2, TypeCommit, TypeEnvironment DEF Next, RequestStep, Quiet

\* Every reachable state is well typed.
THEOREM SessionTypes == Spec => []TypeOK
  <1>1. Spec => []TypeInv
    BY TypeInit, TypeStep, PTL DEF Spec
  <1>2. TypeInv => TypeOK
    BY DEF TypeInv
  <1>3. QED
    BY <1>1, <1>2, PTL

-----------------------------------------------------------------------------
(* What the steps do                                                       *)

\* A request's step is about that request only.
LEMMA OtherRequests ==
    ASSUME TypeInv, NEW r \in Request, Quiet(r) \/ Commit(r)
    PROVE  /\ \A q \in Request : q # r => request'[q] = request[q]
           /\ UNCHANGED <<provider, profile, past>>
           /\ Quiet(r) => UNCHANGED <<session, processed>>
  <1>1. request \in [Request -> RequestState]
    BY DEF TypeInv, TypeOK
  <1>2. CASE Quiet(r)
    <2>1. GoodStep(r)
      BY <1>2, QuietIsGood
    <2>2. PICK x \in RequestState : request' = [request EXCEPT ![r] = x]
      BY <2>1 DEF GoodStep
    <2>3. QED
      BY <1>1, <2>1, <2>2 DEF GoodStep
  <1>3. CASE Commit(r) /\ ~Quiet(r)
    BY <1>1, <1>3 DEF Commit
  <1>4. QED
    BY <1>2, <1>3

\* How far each step takes its request.
LEMMA Progress ==
    ASSUME TypeInv, NEW r \in Request
    PROVE  /\ \A e \in Event : Receive(r, e) => request'[r].pc = "lookup"
           /\ Lookup(r) => request'[r].pc = "insert"
           /\ Insert(r) => /\ request'[r].pc = "scan"
                           /\ request'[r].kind = request[r].kind
                           /\ request'[r].event = request[r].event
           /\ Scan(r) => /\ request'[r].pc = "guard"
                         /\ request'[r].kind = request[r].kind
                         /\ request'[r].event = request[r].event
                         /\ request'[r].past = request[r].past
                         /\ request'[r].rows =
                              {l \in Login : /\ Matches(request[r].event, l)
                                             /\ Writable("REVOKED", request[r].past, l)}
           /\ \A l \in Login, kind \in Visiting : Visit(r, l, kind) =>
                request'[r].pc = "read" /\ request'[r].kind = kind
           /\ Replayed(r) => request'[r] = Ended(r, "reply")
           /\ Reply(r) => request'[r] = Ended(r, "done")
           /\ Fail(r) => request'[r] = Ended(r, "failed")
           /\ Commit(r) => \/ request'[r] = Ended(r, "done") /\ request[r].kind # "event"
                           \/ request'[r] = Ended(r, "reply") /\ request[r].kind = "event"
  <1>1. request \in [Request -> RequestState] /\ request[r] \in RequestState
    BY DEF TypeInv, TypeOK
  <1>2. /\ \A e \in Event : Receive(r, e) => request'[r].pc = "lookup"
        /\ \A l \in Login, kind \in Visiting : Visit(r, l, kind) =>
             request'[r].pc = "read" /\ request'[r].kind = kind
    <2>1. ASSUME NEW e \in Event, Receive(r, e) PROVE request'[r].pc = "lookup"
      BY <1>1, <2>1 DEF Receive, NewRequest
    <2>2. ASSUME NEW l \in Login, NEW kind \in Visiting, Visit(r, l, kind)
          PROVE  request'[r].pc = "read" /\ request'[r].kind = kind
      BY <1>1, <2>2 DEF Visit, NewRequest
    <2>3. QED
      BY <2>1, <2>2
  <1>3. /\ Lookup(r) => request'[r].pc = "insert"
        /\ Insert(r) => /\ request'[r].pc = "scan"
                        /\ request'[r].kind = request[r].kind
                        /\ request'[r].event = request[r].event
    BY <1>1 DEF Lookup, Insert, RequestState
  <1>4. ASSUME Scan(r)
        PROVE  /\ request'[r].pc = "guard"
               /\ request'[r].kind = request[r].kind
               /\ request'[r].event = request[r].event
               /\ request'[r].past = request[r].past
               /\ request'[r].rows =
                    {l \in Login : /\ Matches(request[r].event, l)
                                   /\ Writable("REVOKED", request[r].past, l)}
    BY <1>1, <1>4 DEF Scan, RequestState
  <1>5. /\ Replayed(r) => request'[r] = Ended(r, "reply")
        /\ Reply(r) => request'[r] = Ended(r, "done")
        /\ Fail(r) => request'[r] = Ended(r, "failed")
    BY <1>1 DEF Replayed, Reply, Fail
  <1>6. Commit(r) => request'[r] = Ended(r, IF request[r].kind = "event"
                                              THEN "reply" ELSE "done")
    BY <1>1 DEF Commit
  <1>7. QED
    BY <1>2, <1>3, <1>4, <1>5, <1>6

LEMMA ReadProgress ==
    ASSUME TypeInv, NEW r \in Request, Read(r)
    PROVE  \/ request'[r] = Ended(r, "done")
           \/ request'[r].pc = "guard" /\ request'[r].kind = request[r].kind
  <1>1. request \in [Request -> RequestState] /\ request[r] \in RequestState
    BY DEF TypeInv, TypeOK
  <1>2. PICK plan : request' = [request EXCEPT ![r] =
                      IF plan = "NONE" THEN Ended(r, "done")
                      ELSE [request[r] EXCEPT !.pc = "guard", !.write = plan]]
    BY DEF Read
  <1>3. QED
    BY <1>1, <1>2 DEF RequestState

LEMMA GuardProgress ==
    ASSUME TypeInv, NEW r \in Request, Guard(r)
    PROVE  \/ request'[r] = Ended(r, "done") /\ request[r].kind # "event"
           \/ /\ request'[r].pc = "commit"
              /\ request'[r].kind = request[r].kind
              /\ request'[r].event = request[r].event
              /\ request'[r].past = request[r].past
              /\ request'[r].write = request[r].write
              /\ request'[r].rows = {l \in request[r].rows :
                                       Writable(request[r].write, request[r].past, l)}
  <1>1. request \in [Request -> RequestState] /\ request[r] \in RequestState
    BY DEF TypeInv, TypeOK
  <1> DEFINE rows == {l \in request[r].rows : Writable(request[r].write, request[r].past, l)}
             x == [request[r] EXCEPT !.pc = "commit", !.rows = rows]
  <1>2. request' = [request EXCEPT ![r] = IF rows = {} /\ request[r].kind # "event"
                                            THEN Ended(r, "done") ELSE x]
    BY DEF Guard
  <1>3. /\ x.pc = "commit" /\ x.kind = request[r].kind /\ x.event = request[r].event
        /\ x.past = request[r].past /\ x.write = request[r].write /\ x.rows = rows
    BY <1>1 DEF RequestState
  <1>4. request'[r] = IF rows = {} /\ request[r].kind # "event" THEN Ended(r, "done") ELSE x
    BY <1>1, <1>2
  <1>5. QED
    BY <1>3, <1>4

-----------------------------------------------------------------------------
(* Row locks                                                               *)

\* A transaction that is about to commit holds ACTIVE sessions, and holds them alone.
LocksOK ==
    \A r \in Request : request[r].pc = "commit" =>
        \A l \in request[r].rows :
            /\ session[l].status = "ACTIVE"
            /\ \A q \in Request : request[q].pc = "commit" /\ l \in request[q].rows => q = r

LEMMA LocksInit == Init => LocksOK
  BY DEF Init, LocksOK, NewRequest

\* A request that does not come to hold locks.
LEMMA LocksKept ==
    ASSUME LocksOK, NEW r \in Request, request'[r].pc # "commit",
           \A q \in Request : q # r => request'[q] = request[q],
           \A q \in Request, l \in Login :
               q # r /\ request[q].pc = "commit" /\ l \in request[q].rows =>
                   session'[l] = session[l],
           \A q \in Request : request[q].rows \subseteq Login
    PROVE  LocksOK'
  BY DEF LocksOK

LEMMA LocksStep == TypeInv /\ LocksOK /\ [Next]_vars => LocksOK'
  <1> SUFFICES ASSUME TypeInv, LocksOK, [Next]_vars PROVE LocksOK'
    OBVIOUS
  <1>0. /\ \A q \in Request : request[q].rows \subseteq Login
        /\ session \in [Login -> Session]
    BY RequestType DEF TypeInv, TypeOK
  <1>1. ASSUME NEW r \in Request, Quiet(r), request'[r].pc # "commit" PROVE LocksOK'
    BY <1>0, <1>1, OtherRequests, LocksKept
  <1>2. ASSUME NEW r \in Request, Guard(r), request'[r].pc = "commit" PROVE LocksOK'
    <2>1. request'[r].rows = {l \in request[r].rows :
                                Writable(request[r].write, request[r].past, l)}
      BY <1>2, GuardProgress, EndedType
    <2>2. \A q \in Request : q # r => request'[q] = request[q]
      BY <1>2, OtherRequests DEF Quiet
    <2>3. session' = session
      BY <1>2 DEF Guard
    <2>4. \A l \in request'[r].rows : session[l].status = "ACTIVE"
      BY <2>1 DEF Writable
    <2>5. \A l \in request'[r].rows, q \in Request :
            q # r => ~(request[q].pc = "commit" /\ l \in request[q].rows)
      BY <1>2, <2>1 DEF Guard, Locked
    <2>6. QED
      BY <2>2, <2>3, <2>4, <2>5 DEF LocksOK
  <1>3. ASSUME NEW r \in Request, Commit(r) PROVE LocksOK'
    <2>1. request'[r].pc # "commit"
      BY <1>3, Progress, EndedType
    <2>2. \A q \in Request, l \in Login :
            q # r /\ request[q].pc = "commit" /\ l \in request[q].rows =>
                session'[l] = session[l]
      <3>1. request[r].pc = "commit"
        BY <1>3 DEF Commit
      <3>2. \A l \in Login : l \notin request[r].rows => session'[l] = session[l]
        BY <1>3 DEF Commit
      <3>3. QED
        BY <3>1, <3>2 DEF LocksOK
    <2>3. QED
      BY <1>0, <1>3, <2>1, <2>2, OtherRequests, LocksKept
  <1>4. ASSUME NEW l \in Login, Issue(l) PROVE LocksOK'
    <2>1. /\ request' = request
          /\ \A k \in Login : session[k].status = "ACTIVE" => session'[k].status = "ACTIVE"
      BY <1>0, <1>4 DEF Issue, Session
    <2>2. QED
      BY <1>0, <2>1 DEF LocksOK
  <1>5. ASSUME UNCHANGED <<request, session>> PROVE LocksOK'
    BY <1>5 DEF LocksOK
  <1>6. ASSUME NEW r \in Request, Quiet(r), ~Guard(r) PROVE request'[r].pc # "commit"
    BY <1>6, Progress, ReadProgress, EndedType DEF Quiet, EventStep, VisitStep, Visiting
  <1>7. QED
    <2>1. CASE \E r \in Request : RequestStep(r)
      <3>1. PICK r \in Request : RequestStep(r)
        BY <2>1
      <3>2. Quiet(r) \/ Commit(r)
        BY <3>1 DEF RequestStep, Quiet
      <3>3. QED
        BY <1>1, <1>2, <1>3, <1>6, <3>2
    <2>2. CASE ~\E r \in Request : RequestStep(r)
      BY <1>4, <1>5, <2>2 DEF Next, SignIn, Emit, LoginStep, FetchProfile, Elapse, vars
    <2>3. QED
      BY <2>1, <2>2

-----------------------------------------------------------------------------
(* Keys of processed_events                                                *)

Answered(r) == request[r].pc \in {"reply", "done"} /\ request[r].event # NoEvent

\* One transaction at most has inserted the key of an event and not committed, none
\* once the key is committed, and no answer is on its way before that.
KeysOK ==
    \A r \in Request :
        /\ Answered(r) => request[r].event \in processed
        /\ HoldsKey(r) =>
             /\ request[r].event \notin processed
             /\ \A q \in Request :
                  HoldsKey(q) /\ request[q].event = request[r].event => q = r

LEMMA KeysInit == Init => KeysOK
  BY DEF Init, KeysOK, Answered, HoldsKey, NewRequest

\* A step that takes no key, and answers only what is processed.
LEMMA KeysKept ==
    ASSUME KeysOK, NEW r \in Request,
           \A q \in Request : q # r => request'[q] = request[q],
           processed' = processed,
           HoldsKey(r)' => HoldsKey(r) /\ request'[r].event = request[r].event,
           Answered(r)' => request'[r].event \in processed
    PROVE  KeysOK'
  <1>1. \A q \in Request : q # r => (HoldsKey(q)' <=> HoldsKey(q))
                                    /\ (Answered(q)' <=> Answered(q))
    BY DEF HoldsKey, Answered
  <1>2. QED
    BY <1>1 DEF KeysOK

LEMMA KeysQuiet == ASSUME TypeInv, KeysOK, NEW r \in Request, Quiet(r) PROVE KeysOK'
  <1>0. /\ \A q \in Request : q # r => request'[q] = request[q]
        /\ processed' = processed
    BY OtherRequests
  <1>1. CASE Insert(r)
    <2>1. /\ request'[r].pc = "scan" /\ request'[r].event = request[r].event
          /\ request[r].event \notin processed
          /\ \A q \in Request : HoldsKey(q) => request[q].event # request[r].event
      BY <1>1, Progress DEF Insert, KeyHeld
    <2>2. \A q \in Request : q # r => (HoldsKey(q)' <=> HoldsKey(q))
                                      /\ (Answered(q)' <=> Answered(q))
      BY <1>0 DEF HoldsKey, Answered
    <2>3. ~Answered(r)'
      BY <2>1 DEF Answered
    <2>4. QED
      BY <1>0, <2>1, <2>2, <2>3 DEF KeysOK
  <1>2. CASE Scan(r)
    <2>1. /\ request[r].kind = "event" /\ request[r].pc = "scan"
          /\ request'[r].pc = "guard" /\ request'[r].event = request[r].event
      BY <1>2, Progress, RequestType DEF Scan, CallOK
    <2>2. HoldsKey(r) /\ ~Answered(r)'
      BY <2>1 DEF HoldsKey, Answered
    <2>3. QED
      BY <1>0, <2>1, <2>2, KeysKept
  <1>3. CASE Guard(r)
    <2>1. request[r].pc = "guard" /\ request[r].kind # "none"
      BY <1>3, RequestType DEF Guard, CallOK
    <2>2. CASE request'[r] = Ended(r, "done") /\ request[r].kind # "event"
      <3>1. request[r].event = NoEvent
        BY <2>1, <2>2, RequestType DEF CallOK, RequestState, Visiting
      <3>2. ~Answered(r)' /\ ~HoldsKey(r)'
        BY <2>2, <3>1, EndedType DEF Answered, HoldsKey
      <3>3. QED
        BY <1>0, <3>2, KeysKept
    <2>3. CASE /\ request'[r].pc = "commit" /\ request'[r].kind = request[r].kind
               /\ request'[r].event = request[r].event
      <3>1. ~Answered(r)' /\ (HoldsKey(r)' => HoldsKey(r))
        BY <2>1, <2>3 DEF Answered, HoldsKey
      <3>2. QED
        BY <1>0, <2>3, <3>1, KeysKept
    <2>4. QED
      BY <1>3, <2>2, <2>3, GuardProgress
  <1>4. CASE Read(r)
    <2>1. request[r].kind \in Visiting /\ request[r].event = NoEvent
      BY <1>4, RequestType DEF Read, CallOK
    <2>2. ~Answered(r)' /\ ~HoldsKey(r)'
      BY <1>4, <2>1, ReadProgress, EndedType DEF Answered, HoldsKey, Visiting
    <2>3. QED
      BY <1>0, <2>2, KeysKept
  <1>5. CASE Replayed(r) \/ Reply(r)
    <2>1. /\ request'[r].kind = "none" /\ request'[r].event = request[r].event
          /\ request[r].event # NoEvent => request[r].event \in processed
      BY <1>5, Progress, EndedType DEF Replayed, Reply, KeysOK, Answered
    <2>2. QED
      BY <1>0, <2>1, KeysKept DEF Answered, HoldsKey
  <1>6. CASE Lookup(r) \/ Fail(r) \/ (\E e \in Event : Receive(r, e)) \/
             (\E l \in Login, kind \in Visiting : Visit(r, l, kind))
    <2>1. request'[r].pc \in {"lookup", "insert", "read", "failed"}
      BY <1>6, Progress, EndedType
    <2>2. QED
      BY <1>0, <2>1, KeysKept DEF Answered, HoldsKey
  <1>7. QED
    BY <1>1, <1>2, <1>3, <1>4, <1>5, <1>6 DEF Quiet, EventStep, VisitStep, Visiting

LEMMA KeysCommit == ASSUME TypeInv, KeysOK, NEW r \in Request, Commit(r) PROVE KeysOK'
  <1>0. /\ \A q \in Request : q # r => request'[q] = request[q]
        /\ request[r].pc = "commit" /\ CallOK(request[r]) /\ request[r] \in RequestState
    BY OtherRequests, RequestType DEF Commit
  <1>1. CASE request[r].kind = "event"
    <2>1. /\ request'[r].pc = "reply" /\ request'[r].kind = "none"
          /\ request'[r].event = request[r].event
      BY <1>1, Progress, EndedType
    <2>2. processed' = processed \cup {request[r].event}
      BY <1>1 DEF Commit
    <2>3. HoldsKey(r)
      BY <1>0, <1>1 DEF HoldsKey
    <2>4. \A q \in Request : q # r => (HoldsKey(q)' <=> HoldsKey(q))
                                      /\ (Answered(q)' <=> Answered(q))
      BY <1>0 DEF HoldsKey, Answered
    <2>5. ~HoldsKey(r)'
      BY <2>1 DEF HoldsKey
    <2>6. QED
      BY <1>0, <2>1, <2>2, <2>3, <2>4, <2>5 DEF KeysOK
  <1>2. CASE request[r].kind # "event"
    <2>1. request[r].event = NoEvent
      BY <1>0, <1>2 DEF CallOK, Visiting, RequestState
    <2>2. /\ request'[r].pc = "done" /\ request'[r].kind = "none"
          /\ request'[r].event = NoEvent /\ processed' = processed
      <3>1. request'[r] = Ended(r, "done")
        BY <1>2, Progress
      <3>2. processed' = processed
        BY <1>2 DEF Commit
      <3>3. QED
        BY <2>1, <3>1, <3>2, EndedType
    <2>3. QED
      BY <1>0, <2>2, KeysKept DEF HoldsKey, Answered
  <1>3. QED
    BY <1>1, <1>2

LEMMA KeysStep == TypeInv /\ KeysOK /\ [Next]_vars => KeysOK'
  <1> SUFFICES ASSUME TypeInv, KeysOK, [Next]_vars PROVE KeysOK'
    OBVIOUS
  <1>1. CASE \E r \in Request : RequestStep(r)
    BY <1>1, KeysQuiet, KeysCommit DEF RequestStep, Quiet
  <1>2. CASE UNCHANGED <<request, processed>>
    BY <1>2 DEF KeysOK, HoldsKey, Answered
  <1>3. QED
    BY <1>1, <1>2 DEF Next, SignIn, Emit, LoginStep, FetchProfile, Issue, Elapse, vars

-----------------------------------------------------------------------------
(* Coverage                                                                *)

\* An event call that has taken its snapshot considers every usable session that the
\* event covers.
Considers(r) ==
    request[r].kind = "event" /\ request[r].pc \in {"guard", "commit"} =>
        \A l \in covered[request[r].event] :
            session[l].status = "ACTIVE" /\ l \notin request[r].past => l \in request[r].rows

CoverOK ==
    /\ \A e \in emitted : \A l \in covered[e] : session[l].status # "NONE" /\ Matches(e, l)
    /\ \A r \in Request : Considers(r)
    /\ ProcessedMeansRevoked

LEMMA CoverInit == Init => CoverOK
  BY DEF Init, CoverOK, Considers, ProcessedMeansRevoked, NewRequest

\* Sessions appear once, and leave ACTIVE for good.
LEMMA SessionMoves ==
    ASSUME TypeInv, LocksOK, [Next]_vars, NEW l \in Login
    PROVE  /\ session[l].status \in {"EXPIRED", "REVOKED"} => session'[l] = session[l]
           /\ session[l].status # "NONE" => session'[l].status # "NONE"
           /\ session'[l].status = "ACTIVE" => session[l].status \in {"NONE", "ACTIVE"}
  <1>0. session \in [Login -> Session]
    BY DEF TypeInv, TypeOK
  <1>1. ASSUME NEW r \in Request, Commit(r)
        PROVE  /\ session[l].status \in {"EXPIRED", "REVOKED"} => session'[l] = session[l]
               /\ session[l].status # "NONE" => session'[l].status # "NONE"
               /\ session'[l].status = "ACTIVE" => session[l].status \in {"NONE", "ACTIVE"}
    <2>1. CASE l \in request[r].rows
      <3>1. session[l].status = "ACTIVE" /\ session'[l] = Written(r, l)
        BY <1>1, <2>1 DEF Commit, LocksOK
      <3>2. request[r].write # "NONE"
        BY <1>1, RequestType DEF Commit, CallOK
      <3>3. QED
        BY <3>1, <3>2 DEF Written
    <2>2. CASE l \notin request[r].rows
      <3>1. session'[l] = session[l]
        BY <1>1, <2>2 DEF Commit
      <3>2. QED
        BY <1>0, <3>1 DEF Session, Status
    <2>3. QED
      BY <2>1, <2>2
  <1>2. ASSUME NEW k \in Login, Issue(k)
        PROVE  /\ session[l].status \in {"EXPIRED", "REVOKED"} => session'[l] = session[l]
               /\ session[l].status # "NONE" => session'[l].status # "NONE"
               /\ session'[l].status = "ACTIVE" => session[l].status \in {"NONE", "ACTIVE"}
    BY <1>0, <1>2 DEF Issue, Session, Status
  <1>3. CASE session' = session
    BY <1>0, <1>3 DEF Session, Status
  <1>4. ASSUME NEW r \in Request, Quiet(r) PROVE session' = session
    BY <1>4, OtherRequests
  <1>5. QED
    BY <1>1, <1>2, <1>3, <1>4
       DEF Next, RequestStep, Quiet, SignIn, Emit, LoginStep, FetchProfile, Elapse, vars

\* What a session was covered by stays put once it has a profile.
LEMMA CoveredStay ==
    ASSUME TypeInv, LocksOK, CoverOK, [Next]_vars
    PROVE  /\ \A e \in emitted : e \in emitted' /\ covered'[e] = covered[e]
           /\ \A e \in emitted' : \A l \in covered'[e] :
                session'[l].status # "NONE" /\ Matches(e, l)'
  <1> USE LocalAssumption
  <1>0. covered \in [Event -> SUBSET Login] /\ emitted \subseteq Event
    BY DEF TypeInv, TypeOK
  <1>1. /\ \A e \in emitted : e \in emitted' /\ covered'[e] = covered[e]
        /\ \A e \in emitted', l \in Login : e \notin emitted /\ l \in covered'[e] =>
             /\ session[l].status # "NONE" /\ Matches(e, l)
             /\ UNCHANGED <<session, profile>>
        /\ \A e \in emitted' : covered'[e] \subseteq Login /\ e \in Event
    <2>1. ASSUME NEW f \in Event, Emit(f) PROVE <1>1!1 /\ <1>1!2 /\ <1>1!3
      BY <1>0, <2>1 DEF Emit
    <2>2. ASSUME UNCHANGED <<emitted, covered>> PROVE <1>1!1 /\ <1>1!2 /\ <1>1!3
      BY <1>0, <2>2
    <2>3. ASSUME NEW r \in Request, RequestStep(r) PROVE UNCHANGED <<emitted, covered>>
      BY <2>3, OtherRequests DEF RequestStep, Quiet, provider
    <2>4. QED
      BY <2>1, <2>2, <2>3 DEF Next, SignIn, LoginStep, FetchProfile, Issue, Elapse, vars, provider
  <1>2. \A e \in Event, l \in Login : Matches(e, l) => Matches(e, l)'
    <2>1. \A e \in Event, l \in Login : Matches(e, l) => profile[l] # NoCentral
      BY DEF Matches
    <2>2. \A l \in Login : profile[l] # NoCentral => profile'[l] = profile[l]
      <3>1. ASSUME NEW k \in Login, NEW c \in CentralSession, FetchProfile(k, c)
            PROVE  \A l \in Login : profile[l] # NoCentral => profile'[l] = profile[l]
        BY <3>1 DEF FetchProfile, TypeInv, TypeOK
      <3>2. ASSUME NEW r \in Request, RequestStep(r) PROVE profile' = profile
        BY <3>2, OtherRequests DEF RequestStep, Quiet
      <3>3. QED
        BY <3>1, <3>2 DEF Next, SignIn, Emit, LoginStep, Issue, Elapse, vars
    <2>3. QED
      BY <2>1, <2>2 DEF Matches
  <1>3. \A l \in Login : session[l].status # "NONE" => session'[l].status # "NONE"
    BY SessionMoves
  <1>4. QED
    BY <1>0, <1>1, <1>2, <1>3 DEF CoverOK

LEMMA ConsidersStep ==
    ASSUME TypeInv, LocksOK, CoverOK, [Next]_vars, NEW r \in Request
    PROVE  Considers(r)'
  <1>0. /\ CallOK(request[r])
        /\ covered \in [Event -> SUBSET Login]
        /\ Considers(r)
    BY RequestType DEF TypeInv, TypeOK, CoverOK
  <1>1. CASE request'[r] = request[r]
    <2> SUFFICES ASSUME request[r].kind = "event", request[r].pc \in {"guard", "commit"},
                        NEW l \in covered[request[r].event],
                        session'[l].status = "ACTIVE", l \notin request[r].past
                 PROVE  l \in request[r].rows
      BY <1>0, <1>1, CoveredStay DEF Considers, CallOK
    <2>1. l \in Login /\ session[l].status # "NONE"
      BY <1>0 DEF CallOK, CoverOK
    <2>2. session[l].status = "ACTIVE"
      BY <2>1, SessionMoves
    <2>3. QED
      BY <1>0, <2>2 DEF Considers
  <1>2. ASSUME Scan(r) PROVE Considers(r)'
    <2>1. /\ request[r].kind = "event"
          /\ request[r].event \in emitted
          /\ UNCHANGED <<session, covered>>
      BY <1>0, <1>2 DEF Scan, CallOK, provider
    <2>2. /\ request'[r].event = request[r].event
          /\ request'[r].past = request[r].past
          /\ request'[r].rows = {l \in Login : /\ Matches(request[r].event, l)
                                               /\ Writable("REVOKED", request[r].past, l)}
      BY <1>2, Progress
    <2>3. \A l \in covered[request[r].event] : l \in Login /\ Matches(request[r].event, l)
      BY <1>0, <2>1 DEF CallOK, CoverOK
    <2>4. QED
      BY <2>1, <2>2, <2>3 DEF Considers, Writable
  <1>3. ASSUME Guard(r) PROVE Considers(r)'
    <2>1. CASE request'[r] = Ended(r, "done")
      BY <2>1, EndedType DEF Considers
    <2>2. CASE /\ request'[r].pc = "commit"
               /\ request'[r].kind = request[r].kind
               /\ request'[r].event = request[r].event
               /\ request'[r].past = request[r].past
               /\ request'[r].rows = {l \in request[r].rows :
                                        Writable(request[r].write, request[r].past, l)}
      <3>1. request[r].pc = "guard" /\ UNCHANGED <<session, covered>>
        BY <1>3 DEF Guard, provider
      <3>2. request[r].kind = "event" => request[r].write = "REVOKED"
        BY <1>0 DEF CallOK
      <3>3. QED
        BY <1>0, <2>2, <3>1, <3>2 DEF Considers, Writable
    <2>3. QED
      BY <1>3, <2>1, <2>2, GuardProgress
  <1>4. ASSUME Quiet(r), ~Scan(r), ~Guard(r) PROVE Considers(r)'
    <2> DEFINE Elsewhere == request'[r].kind # "event" \/ request'[r].pc \notin {"guard", "commit"}
    <2>1. CASE EventStep(r)
      BY <1>4, <2>1, Progress, EndedType DEF EventStep, Considers
    <2>2. CASE VisitStep(r)
      <3>1. ASSUME Read(r) PROVE Elsewhere
        <4>1. request[r].kind # "event"
          BY <1>0, <3>1 DEF Read, CallOK, Visiting
        <4>2. QED
          BY <1>0, <3>1, <4>1, ReadProgress, EndedType
      <3>2. ASSUME NEW l \in Login, NEW kind \in Visiting, Visit(r, l, kind) PROVE Elsewhere
        BY <3>2, Progress
      <3>3. QED
        BY <2>2, <3>1, <3>2 DEF VisitStep, Visiting, Considers
    <2>3. CASE Reply(r) \/ Fail(r)
      BY <2>3, Progress, EndedType DEF Considers
    <2>4. QED
      BY <1>4, <2>1, <2>2, <2>3 DEF Quiet
  <1>5. ASSUME Commit(r) PROVE Considers(r)'
    BY <1>5, Progress, EndedType DEF Considers
  <1>6. QED
    <2>1. CASE \E q \in Request : q # r /\ RequestStep(q)
      BY <1>1, <2>1, OtherRequests DEF RequestStep, Quiet
    <2>2. CASE RequestStep(r)
      BY <1>2, <1>3, <1>4, <1>5, <2>2 DEF RequestStep, Quiet
    <2>3. CASE UNCHANGED request
      BY <1>1, <2>3
    <2>4. QED
      BY <2>1, <2>2, <2>3
         DEF Next, SignIn, Emit, LoginStep, FetchProfile, Issue, Elapse, vars

LEMMA ProcessedStep ==
    ASSUME TypeInv, LocksOK, CoverOK, [Next]_vars
    PROVE  ProcessedMeansRevoked'
  <1>0. /\ covered \in [Event -> SUBSET Login] /\ processed \subseteq Event
        /\ processed \subseteq emitted
    BY DEF TypeInv, TypeOK
  <1>1. past \subseteq past'
    <2>1. ASSUME NEW r \in Request, RequestStep(r) PROVE past' = past
      BY <2>1, OtherRequests DEF RequestStep, Quiet
    <2>2. QED
      BY <2>1 DEF Next, SignIn, Emit, LoginStep, FetchProfile, Issue, Elapse, vars
  <1>2. \A e \in processed : \A l \in covered'[e] : ~Live(l)'
    <2> SUFFICES ASSUME NEW e \in processed, NEW l \in covered[e], Live(l)'
                 PROVE  FALSE
      BY <1>0, CoveredStay
    <2>1. l \in Login /\ session[l].status # "NONE" /\ ~Live(l)
      BY <1>0 DEF CoverOK, ProcessedMeansRevoked
    <2>2. session'[l].status = "ACTIVE" /\ l \notin past
      BY <1>1 DEF Live
    <2>3. QED
      BY <2>1, <2>2, SessionMoves DEF Live
  <1>3. ASSUME NEW r \in Request, Commit(r), request[r].kind = "event"
        PROVE  \A l \in covered'[request[r].event] : ~Live(l)'
    <2>1. CallOK(request[r]) /\ Considers(r) /\ request[r].pc = "commit"
      BY <1>3, RequestType DEF CoverOK, Commit
    <2> SUFFICES ASSUME NEW l \in covered[request[r].event], Live(l)' PROVE FALSE
      BY <1>3, <2>1, CoveredStay DEF CallOK
    <2>2. l \in Login /\ session[l].status # "NONE"
      BY <1>0, <1>3, <2>1 DEF CallOK, CoverOK
    <2>3. session[l].status = "ACTIVE" /\ l \notin past
      BY <1>1, <2>2, SessionMoves DEF Live
    <2>4. l \in request[r].rows
      BY <1>3, <2>1, <2>3 DEF Considers, CallOK
    <2>5. session'[l] = Written(r, l) /\ request[r].write = "REVOKED"
      BY <1>3, <2>1, <2>2, <2>4 DEF Commit, CallOK
    <2>6. QED
      BY <2>5 DEF Written, Live
  <1>4. ASSUME NEW r \in Request, Commit(r) PROVE ProcessedMeansRevoked'
    BY <1>2, <1>3, <1>4 DEF Commit, ProcessedMeansRevoked
  <1>5. CASE processed' = processed
    BY <1>2, <1>5 DEF ProcessedMeansRevoked
  <1>6. QED
    <2>1. ASSUME NEW r \in Request, Quiet(r) PROVE processed' = processed
      BY <2>1, OtherRequests
    <2>2. QED
      BY <1>4, <1>5, <2>1 DEF Next, RequestStep, Quiet, SignIn, Emit, LoginStep, FetchProfile,
                               Issue, Elapse, vars

LEMMA CoverStep == TypeInv /\ LocksOK /\ CoverOK /\ [Next]_vars => CoverOK'
  BY CoveredStay, ConsidersStep, ProcessedStep DEF CoverOK

-----------------------------------------------------------------------------
(* Theorems                                                                *)

SafeInv == TypeInv /\ LocksOK /\ KeysOK /\ CoverOK

LEMMA Safe == Spec => []SafeInv
  <1>1. Init => SafeInv
    BY TypeInit, LocksInit, KeysInit, CoverInit DEF SafeInv
  <1>2. SafeInv /\ [Next]_vars => SafeInv'
    BY TypeStep, LocksStep, KeysStep, CoverStep DEF SafeInv
  <1>3. QED
    BY <1>1, <1>2, PTL DEF Spec

\* Once the application has recorded an event, every session that the event matched
\* when it was emitted has ended.
THEOREM ProcessedEventsHaveRevoked == Spec => []ProcessedMeansRevoked
  <1>1. SafeInv => ProcessedMeansRevoked
    BY DEF SafeInv, CoverOK
  <1>2. QED
    BY <1>1, Safe, PTL

\* The Sync Worker gets a 200 for an event only after the event is durable.
THEOREM AnswersStayTruthful == Spec => []AnswersAreTruthful
  <1>1. SafeInv => AnswersAreTruthful
    BY DEF SafeInv, KeysOK, Answered, AnswersAreTruthful
  <1>2. QED
    BY <1>1, Safe, PTL

\* A duplicate of a processed event changes no session.
THEOREM DuplicatesAreInert == Spec => DuplicatesRevokeNothing
  <1> USE LocalAssumption
  <1>1. ASSUME SafeInv, [Next]_vars, NEW e \in processed, NEW l \in Login,
               session'[l] # session[l]
        PROVE  session'[l].by # e
    <2>0. /\ e \in Event /\ session \in [Login -> Session]
          /\ session[l].by # NoEvent => session[l].status = "REVOKED"
      BY <1>1 DEF SafeInv, TypeInv, TypeOK
    <2>1. ASSUME NEW r \in Request, Commit(r) PROVE session'[l].by # e
      <3>1. session'[l] = Written(r, l) /\ request[r].write # "ACTIVE"
        BY <1>1, <2>1 DEF Commit, Written
      <3>2. session'[l].by = request[r].event
        BY <3>1 DEF Written
      <3>3. request[r].kind \in Visiting => request[r].event = NoEvent
        BY <1>1, RequestType DEF SafeInv, CallOK
      <3>4. request[r].kind = "event" => request[r].event \notin processed
        BY <1>1, <2>1 DEF SafeInv, KeysOK, HoldsKey, Commit
      <3>5. request[r].kind = "event" \/ request[r].kind \in Visiting
        <4>1. CallOK(request[r]) /\ request[r] \in RequestState
          BY <1>1, RequestType DEF SafeInv
        <4>2. QED
          BY <2>1, <4>1 DEF Commit, CallOK, RequestState, Visiting
      <3>6. QED
        BY <1>1, <2>0, <3>2, <3>3, <3>4, <3>5
    <2>2. ASSUME NEW k \in Login, Issue(k) PROVE session'[l].by # e
      <3>1. session'[l].by = session[l].by /\ session[l].status = "NONE"
        BY <1>1, <2>0, <2>2 DEF Issue, Session
      <3>2. QED
        BY <2>0, <3>1
    <2>3. ASSUME NEW r \in Request, Quiet(r) PROVE session' = session
      BY <1>1, <2>3, OtherRequests DEF SafeInv
    <2>4. QED
      BY <1>1, <2>1, <2>2, <2>3
         DEF Next, RequestStep, Quiet, SignIn, Emit, LoginStep, FetchProfile, Elapse, vars
  <1>2. SafeInv /\ [Next]_vars =>
          \A e \in processed, l \in Login : session'[l] # session[l] => session'[l].by # e
    BY <1>1
  <1>3. QED
    BY <1>2, Safe, PTL DEF Spec, DuplicatesRevokeNothing

\* No page is granted on a session that a processed event has ended.
THEOREM GrantsStaySafe == Spec => GrantsRespectRevocation
  <1>1. ASSUME SafeInv, NEW r \in Request, NEW l \in Login, Commit(r),
               request[r].write = "ACTIVE", l \in request[r].rows
        PROVE  /\ session[l].status = "ACTIVE"
               /\ l \notin past => \A e \in processed : l \notin covered[e]
    <2>1. session[l].status = "ACTIVE"
      BY <1>1 DEF SafeInv, LocksOK, Commit
    <2>2. QED
      BY <1>1, <2>1 DEF SafeInv, CoverOK, ProcessedMeansRevoked, Live
  <1>2. SafeInv /\ [Next]_vars =>
          \A r \in Request, l \in Login :
            /\ Commit(r)
            /\ request[r].write = "ACTIVE"
            /\ l \in request[r].rows
            => /\ session[l].status = "ACTIVE"
               /\ l \notin past => \A e \in processed : l \notin covered[e]
    BY <1>1
  <1>3. QED
    BY <1>2, Safe, PTL DEF Spec, GrantsRespectRevocation

\* An ended session keeps its status and its reason.
THEOREM EndedSessionsAreFinal == Spec => EndedSessionsStay
  <1>1. SafeInv /\ [Next]_vars =>
          \A l \in Login :
            session[l].status \in {"EXPIRED", "REVOKED"} => session'[l] = session[l]
    BY SessionMoves DEF SafeInv
  <1>2. QED
    BY <1>1, Safe, PTL DEF Spec, EndedSessionsStay

==============================================================================
