---------------------------- MODULE LocalSessions ----------------------------
(***************************************************************************)
(* The local sessions of one relying application and its internal logout   *)
(* endpoint.  Logins create sessions, pages and local logouts read a       *)
(* session and then update it, revocation events revoke every session they *)
(* match; all of them are transactions of a READ COMMITTED database, whose *)
(* statements wait for the uncommitted writes they meet.  A statement is a *)
(* step, and its effect is visible to the others when its transaction      *)
(* commits.                                                                *)
(*                                                                         *)
(* Every request takes its own now when it starts; clock times are         *)
(* abstracted to the sessions whose expiresAt has passed by then.          *)
(***************************************************************************)
EXTENDS Naturals, FiniteSets

CONSTANTS
    Login,           \* OAuth callbacks; each makes at most one local session
    CentralSession,  \* sessions of the Auth Provider
    Event,           \* revocation events
    Target,          \* the central sessions that the WHERE clause of an event matches
    UserWide,        \* events that name a user and no central session
    Request,         \* HTTP requests to the application
    NoEvent, NoCentral,
    MaxFaults        \* bound: requests whose transaction or answer fails

ASSUME LocalAssumption ==
    /\ Target \in [Event -> SUBSET CentralSession]
    /\ UserWide \subseteq Event
    /\ NoEvent \notin Event
    /\ NoCentral \notin CentralSession
    /\ MaxFaults \in Nat

Status == {"NONE", "ACTIVE", "EXPIRED", "REVOKED"}

\* by: the event in whose name the session was revoked, if it was one.
Session == [status : Status, by : Event \cup {NoEvent}]

Pc == {"new", "lookup", "insert", "scan", "read", "guard", "commit", "reply", "done", "failed"}

\* kind: the handler, while it runs; event: what a logout event call carries; rows: the
\* sessions the next update considers, or those whose locks it holds; write: the status
\* it gives them; past: the sessions expired at the now of the request.
RequestState ==
    [pc : Pc, kind : {"none", "event", "page", "logout"}, event : Event \cup {NoEvent},
     rows : SUBSET Login, write : Status, past : SUBSET Login]

VARIABLES
    central,    \* central sessions at the Auth Provider: none, active, revoked
    emitted,    \* events whose transaction committed there
    covered,    \* history: the sessions an event matched when it was emitted
    profile,    \* the central session that a callback's userinfo named
    session,    \* local_sessions
    past,       \* sessions whose expiresAt is not after the clock
    processed,  \* processed_events
    request,    \* the requests' progress
    faults      \* faults so far

vars == <<central, emitted, covered, profile, session, past, processed, request, faults>>
provider == <<central, emitted, covered>>

NewRequest == [pc |-> "new", kind |-> "none", event |-> NoEvent,
               rows |-> {}, write |-> "NONE", past |-> {}]

Init ==
    /\ central = [c \in CentralSession |-> "none"]
    /\ emitted = {}
    /\ covered = [e \in Event |-> {}]
    /\ profile = [l \in Login |-> NoCentral]
    /\ session = [l \in Login |-> [status |-> "NONE", by |-> NoEvent]]
    /\ past = {}
    /\ processed = {}
    /\ request = [r \in Request |-> NewRequest]
    /\ faults = 0

\* The request has left its handler; what is left of it is the event it was about.
Ended(r, pc) == [NewRequest EXCEPT !.pc = pc, !.event = request[r].event]

-----------------------------------------------------------------------------
(* The Auth Provider, as far as the application sees it                    *)

SignIn(c) ==
    /\ central[c] = "none"
    /\ central' = [central EXCEPT ![c] = "active"]
    /\ UNCHANGED <<emitted, covered, profile, session, past, processed, request, faults>>

Matches(e, l) == profile[l] \in Target[e]

\* A revoking transaction: the active central sessions it targets go with the event
\* it enqueues.  Only user-wide events need no active session.
Emit(e) ==
    /\ e \notin emitted
    /\ e \in UserWide \/ \E c \in Target[e] : central[c] = "active"
    /\ central' = [c \in CentralSession |->
                     IF c \in Target[e] /\ central[c] = "active" THEN "revoked" ELSE central[c]]
    /\ emitted' = emitted \cup {e}
    /\ covered' = [covered EXCEPT ![e] =
                     {l \in Login : session[l].status # "NONE" /\ Matches(e, l)}]
    /\ UNCHANGED <<profile, session, past, processed, request, faults>>

-----------------------------------------------------------------------------
(* The OAuth callback: GET /auth/callback                                  *)

\* exchangeAuthorizationCode() and fetchUserInfo(): the provider answers only for a
\* central session that is active.
FetchProfile(l, c) ==
    /\ profile[l] = NoCentral
    /\ central[c] = "active"
    /\ profile' = [profile EXCEPT ![l] = c]
    /\ UNCHANGED <<provider, session, past, processed, request, faults>>

\* issueLocalSession(): nothing is checked again.
Issue(l) ==
    /\ profile[l] # NoCentral
    /\ session[l].status = "NONE"
    /\ session' = [session EXCEPT ![l].status = "ACTIVE"]
    /\ UNCHANGED <<provider, profile, past, processed, request, faults>>

Elapse(l) ==
    /\ session[l].status # "NONE"
    /\ l \notin past
    /\ past' = past \cup {l}
    /\ UNCHANGED <<provider, profile, session, processed, request, faults>>

-----------------------------------------------------------------------------
(* Logout events: processInternalLogoutEvent()                             *)

Receive(r, e) ==
    /\ request[r].pc = "new"
    /\ e \in emitted
    /\ request' = [request EXCEPT ![r] = [NewRequest EXCEPT
                     !.pc = "lookup", !.kind = "event", !.event = e,
                     !.write = "REVOKED", !.past = past]]
    /\ UNCHANGED <<provider, profile, session, past, processed, faults>>

Lookup(r) ==
    /\ request[r].pc = "lookup"
    /\ request[r].event \notin processed
    /\ request' = [request EXCEPT ![r].pc = "insert"]
    /\ UNCHANGED <<provider, profile, session, past, processed, faults>>

\* The transaction has inserted the key of its event and not committed.
HoldsKey(r) == request[r].kind = "event" /\ request[r].pc \in {"scan", "guard", "commit"}

KeyHeld(e) == \E r \in Request : HoldsKey(r) /\ request[r].event = e

\* Mutant: a duplicate of a call in progress is answered as a replay.
ReplayedWhileHeld(r) ==
    /\ request[r].pc \in {"lookup", "insert"}
    /\ request[r].event \in processed \/ KeyHeld(request[r].event)
    /\ request' = [request EXCEPT ![r] = Ended(r, "reply")]
    /\ UNCHANGED <<provider, profile, session, past, processed, faults>>

\* The lookup finds the committed key, or the insert fails on it (P2002).
Replayed(r) ==
    /\ request[r].pc \in {"lookup", "insert"}
    /\ request[r].event \in processed
    /\ request' = [request EXCEPT ![r] = Ended(r, "reply")]
    /\ UNCHANGED <<provider, profile, session, past, processed, faults>>

\* Mutants: the key is committed before the sessions are revoked; the key is upserted.
InsertCommitted(r) ==
    /\ request[r].pc = "insert"
    /\ request[r].event \notin processed
    /\ processed' = processed \cup {request[r].event}
    /\ request' = [request EXCEPT ![r].pc = "scan"]
    /\ UNCHANGED <<provider, profile, session, past, faults>>

Upsert(r) ==
    /\ request[r].pc = "insert"
    /\ ~KeyHeld(request[r].event)
    /\ request' = [request EXCEPT ![r].pc = "scan"]
    /\ UNCHANGED <<provider, profile, session, past, processed, faults>>

\* The insert waits for another transaction that holds the key.
Insert(r) ==
    /\ request[r].pc = "insert"
    /\ request[r].event \notin processed
    /\ ~KeyHeld(request[r].event)
    /\ request' = [request EXCEPT ![r].pc = "scan"]
    /\ UNCHANGED <<provider, profile, session, past, processed, faults>>

\* Mutants: WHERE clauses with a conjunct missing.
TouchableById(w, p, l) == session[l].status = "ACTIVE" \/ w = "ACTIVE"
RevocableById(w, p, l) == session[l].status = "ACTIVE" \/ w = "REVOKED"

\* The WHERE clause of every update: status, revokedAt and expiresAt.
Writable(w, p, l) ==
    /\ session[l].status = "ACTIVE"
    /\ (l \in p) = (w = "EXPIRED")

\* updateManyAndReturn starts: its snapshot decides which sessions it considers.
Scan(r) ==
    /\ request[r].pc = "scan"
    /\ request' = [request EXCEPT
                     ![r].pc = "guard",
                     ![r].rows = {l \in Login : /\ Matches(request[r].event, l)
                                                /\ Writable("REVOKED", request[r].past, l)}]
    /\ UNCHANGED <<provider, profile, session, past, processed, faults>>

-----------------------------------------------------------------------------
(* Pages and local logouts: resolveLocalSession(), revokeLocalSession()    *)

Visit(r, l, kind) ==
    /\ request[r].pc = "new"
    /\ session[l].status # "NONE"
    /\ request' = [request EXCEPT ![r] = [NewRequest EXCEPT
                     !.pc = "read", !.kind = kind, !.rows = {l}, !.past = past]]
    /\ UNCHANGED <<provider, profile, session, past, processed, faults>>

\* classifyLocalSession()
Classify(p, l) ==
    IF session[l].status = "ACTIVE" /\ l \in p THEN "EXPIRED" ELSE session[l].status

\* What the handler writes after reading an ACTIVE or an EXPIRED session.
Plan(kind, state) ==
    IF state = "ACTIVE" THEN IF kind = "page" THEN "ACTIVE" ELSE "REVOKED"
    ELSE IF state = "EXPIRED" /\ kind = "page" THEN "EXPIRED" ELSE "NONE"

\* The session is read and classified: the handler goes on to an update, or answers.
Read(r) ==
    /\ request[r].pc = "read"
    /\ \E l \in request[r].rows :
         LET plan == Plan(request[r].kind, Classify(request[r].past, l))
         IN  request' = [request EXCEPT
               ![r] = IF plan = "NONE" THEN Ended(r, "done")
                      ELSE [@ EXCEPT !.pc = "guard", !.write = plan]]
    /\ UNCHANGED <<provider, profile, session, past, processed, faults>>

-----------------------------------------------------------------------------
(* Updates of local_sessions, and commits                                  *)

Locked(l) == \E r \in Request : request[r].pc = "commit" /\ l \in request[r].rows

\* The update waits for the rows that other transactions hold, tests them again and
\* locks those that still match.  A page or a logout that updated nothing answers.
Guard(r) ==
    /\ request[r].pc = "guard"
    /\ \A l \in request[r].rows : ~Locked(l)
    /\ LET rows == {l \in request[r].rows : Writable(request[r].write, request[r].past, l)}
       IN  request' = [request EXCEPT
             ![r] = IF rows = {} /\ request[r].kind # "event" THEN Ended(r, "done")
                    ELSE [@ EXCEPT !.pc = "commit", !.rows = rows]]
    /\ UNCHANGED <<provider, profile, session, past, processed, faults>>

\* Mutant: revoke_reason without revoked status.
WrittenReason(r, l) == [session[l] EXCEPT !.by = request[r].event]

\* Touching a session writes lastActivityAt only, which is not modelled.
Written(r, l) ==
    IF request[r].write = "ACTIVE" THEN session[l]
    ELSE [status |-> request[r].write, by |-> request[r].event]

Commit(r) ==
    /\ request[r].pc = "commit"
    /\ session' = [l \in Login |-> IF l \in request[r].rows THEN Written(r, l) ELSE session[l]]
    /\ processed' = IF request[r].kind = "event"
                      THEN processed \cup {request[r].event} ELSE processed
    /\ request' = [request EXCEPT ![r] =
                     Ended(r, IF request[r].kind = "event" THEN "reply" ELSE "done")]
    /\ UNCHANGED <<provider, profile, past, faults>>

Reply(r) ==
    /\ request[r].pc = "reply"
    /\ request' = [request EXCEPT ![r] = Ended(r, "done")]
    /\ UNCHANGED <<provider, profile, session, past, processed, faults>>

\* A statement or the commit fails, the transaction times out or is a deadlock
\* victim, the process dies, or the answer is lost: 503, or nothing at all.
Fail(r) ==
    /\ request[r].pc \notin {"new", "done", "failed"}
    /\ faults < MaxFaults
    /\ faults' = faults + 1
    /\ request' = [request EXCEPT ![r] = Ended(r, "failed")]
    /\ UNCHANGED <<provider, profile, session, past, processed>>

-----------------------------------------------------------------------------

EventStep(r) ==
    \/ \E e \in Event : Receive(r, e)
    \/ Lookup(r) \/ Replayed(r) \/ Insert(r) \/ Scan(r)

VisitStep(r) ==
    \/ \E l \in Login, kind \in {"page", "logout"} : Visit(r, l, kind)
    \/ Read(r)

RequestStep(r) == EventStep(r) \/ VisitStep(r) \/ Guard(r) \/ Commit(r) \/ Reply(r) \/ Fail(r)

LoginStep(l) ==
    \/ \E c \in CentralSession : FetchProfile(l, c)
    \/ Issue(l)
    \/ Elapse(l)

Next ==
    \/ \E c \in CentralSession : SignIn(c)
    \/ \E e \in Event : Emit(e)
    \/ \E l \in Login : LoginStep(l)
    \/ \E r \in Request : RequestStep(r)

Spec == Init /\ [][Next]_vars

-----------------------------------------------------------------------------
(* Properties                                                              *)

\* Every variable has its type; only a revoked session names an event.
TypeOK ==
    /\ central \in [CentralSession -> {"none", "active", "revoked"}]
    /\ emitted \subseteq Event
    /\ covered \in [Event -> SUBSET Login]
    /\ profile \in [Login -> CentralSession \cup {NoCentral}]
    /\ session \in [Login -> Session]
    /\ \A l \in Login : session[l].by # NoEvent => session[l].status = "REVOKED"
    /\ past \subseteq Login
    /\ processed \subseteq Event
    /\ request \in [Request -> RequestState]
    /\ faults \in Nat

\* A session that a user can still use.
Live(l) == session[l].status = "ACTIVE" /\ l \notin past

\* Once an event is in processed_events, none of the sessions it matched when it was
\* emitted is usable: whatever pages, local logouts, duplicates and failed attempts
\* the application was busy with.
ProcessedMeansRevoked ==
    \A e \in processed : \A l \in covered[e] : ~Live(l)

\* A 200 tells the Sync Worker that the event is durably processed: the answer to a
\* duplicate does not run ahead of the transaction it duplicates.
AnswersAreTruthful ==
    \A r \in Request :
        request[r].pc = "done" /\ request[r].event # NoEvent => request[r].event \in processed

\* A redelivered event revokes nothing: it cannot end the sessions of a user who has
\* logged in again since the event was processed.
DuplicatesRevokeNothing ==
    [][\A e \in processed, l \in Login :
          session'[l] # session[l] => session'[l].by # e]_vars

\* A page is granted on an ACTIVE session only, and never on a session, unexpired,
\* that a processed event has revoked since the page read it.
GrantsRespectRevocation ==
    [][\A r \in Request, l \in Login :
          /\ Commit(r)
          /\ request[r].write = "ACTIVE"
          /\ l \in request[r].rows
          => /\ session[l].status = "ACTIVE"
             /\ l \notin past => \A e \in processed : l \notin covered[e]]_vars

\* A session that has ended stays as it ended, for the reason it was given.
EndedSessionsStay ==
    [][\A l \in Login :
          session[l].status \in {"EXPIRED", "REVOKED"} => session'[l] = session[l]]_vars

\* README, screenshots of the revocation: a revoked central session revokes the local
\* sessions.  So no usable session is left of a central session that was revoked by
\* an event the application has processed.
NoSessionSurvivesItsCentral ==
    \A e \in processed, l \in Login :
        Matches(e, l) /\ central[profile[l]] = "revoked" => ~Live(l)

=============================================================================
