---------------------------- MODULE CentralAccess ----------------------------
(***************************************************************************)
(* Central sessions, authorization codes and access tokens of the Auth     *)
(* Provider, and everything that revokes them.  Requests run concurrently  *)
(* in READ COMMITTED transactions: a statement is a step, it waits for the *)
(* row locks it meets, tests its WHERE clause again when it gets them, and *)
(* its writes appear when the transaction commits.                         *)
(*                                                                         *)
(* One group gives every user access to the applications in policy.  Users *)
(* without a second factor, active applications and registered redirect    *)
(* URIs are taken for granted here.                                        *)
(***************************************************************************)
EXTENDS Naturals, FiniteSets

CONSTANTS
    User, App, Session, Code, Token,
    UserOf,      \* the user whose login creates a session row
    Proc,        \* requests that the server handles at the same time
    None,
    Expiring,    \* bound: the rows whose expiresAt passes in a behaviour
    MaxChanges   \* bound: password changes of a user

Rows == Session \cup Code \cup Token

ASSUME AccessAssumption ==
    /\ UserOf \in [Session -> User]
    /\ None \notin Session \cup Code \cup App
    /\ Expiring \subseteq Rows
    /\ MaxChanges \in Nat

\* The requests that revoke; as a reason they stand for revokeReason.
Revoking == {"logout", "deactivate", "password", "policy"}
Kind == Revoking \cup {"none", "login", "current", "authorize", "exchange", "userinfo"}

Status == {"NONE", "ACTIVE", "EXPIRED", "REVOKED"}

\* secret: the version of the password that the login verified.
SessionRow == [status : Status, by : Revoking \cup {"none"}, secret : Nat]
CodeRow == [status : {"NONE", "ISSUED", "USED"},
            session : Session \cup {None}, app : App \cup {None}]
\* A token has the user, the session and the application of its code.
TokenRow == [status : Status, code : Code \cup {None}]

Pc == {"idle", "issue", "read", "expire", "touch", "allowed", "code", "claim", "token",
       "guard", "lock", "scan", "sessions", "scanTokens", "tokens", "commit"}

\* sessions and tokens: the rows the next update considers, or has locked; past: the
\* rows that are expired at the now of the request.
RequestState ==
    [kind : Kind, pc : Pc, users : SUBSET User, app : App \cup {None},
     code : Code \cup {None}, sessions : SUBSET Session, tokens : SUBSET Token,
     secret : Nat, past : SUBSET Rows]

VARIABLES
    active,     \* users whose status is ACTIVE
    password,   \* the version of each user's password
    policy,     \* applications with an ALLOW policy for the group
    session,    \* sso_sessions
    code,       \* authorization_codes
    token,      \* access_tokens
    events,     \* SessionRevoked events in the outbox, for each session
    notices,    \* PasswordChanged and AccessPolicyChanged events in the outbox
    past,       \* rows whose expiresAt has passed
    request     \* the requests in progress

accounts == <<active, password, policy>>
outbox == <<events, notices>>
tables == <<accounts, session, code, token, outbox>>
vars == <<tables, past, request>>

Idle == [kind |-> "none", pc |-> "idle", users |-> {}, app |-> None, code |-> None,
         sessions |-> {}, tokens |-> {}, secret |-> 0, past |-> {}]

Init ==
    /\ active = User
    /\ password = [u \in User |-> 0]
    /\ policy = App
    /\ session = [s \in Session |-> [status |-> "NONE", by |-> "none", secret |-> 0]]
    /\ code = [k \in Code |-> [status |-> "NONE", session |-> None, app |-> None]]
    /\ token = [t \in Token |-> [status |-> "NONE", code |-> None]]
    /\ events = [s \in Session |-> 0]
    /\ notices = {}
    /\ past = {}
    /\ request = [p \in Proc |-> Idle]

SessionOf(t) == code[token[t].code].session

\* A new request, and one that compares its now with expiresAt; End answers it, or
\* rolls it back.
Call(kind, pc) == [Idle EXCEPT !.kind = kind, !.pc = pc]
Present(kind) == [Idle EXCEPT !.kind = kind, !.pc = "read", !.past = past]
Goto(p, pc) == request' = [request EXCEPT ![p].pc = pc]
End(p) == request' = [request EXCEPT ![p] = Idle]

-----------------------------------------------------------------------------
(* Row locks                                                               *)

HeldSessions(q) ==
    IF request[q].pc \in {"claim", "token", "guard", "scanTokens", "tokens", "commit"}
      THEN request[q].sessions ELSE {}

HeldTokens(q) == IF request[q].pc = "commit" THEN request[q].tokens ELSE {}

HoldsCode(q, k) ==
    request[q].kind = "exchange" /\ request[q].pc \in {"token", "commit"} /\ request[q].code = k

PastLock(q) == request[q].pc \in {"scan", "sessions", "scanTokens", "tokens", "commit"}

\* update of the user, before anything is revoked.
HoldsUser(q, u) ==
    request[q].kind \in {"deactivate", "password"} /\ PastLock(q) /\ u \in request[q].users

\* Mutant: removePolicy without its SELECT ... FOR UPDATE.
HoldsNoApp(q, a) == FALSE

\* SELECT ... FOR UPDATE of removePolicy.
HoldsApp(q, a) == request[q].kind = "policy" /\ PastLock(q) /\ request[q].app = a

\* FOR KEY SHARE, which the foreign key of an inserted token takes.
SharesApp(q, a) ==
    request[q].kind = "exchange" /\ request[q].pc = "commit" /\ request[q].app = a

AppFree(p, a) == \A q \in Proc \ {p} : ~HoldsApp(q, a) /\ ~SharesApp(q, a)
UserFree(p, u) == \A q \in Proc \ {p} : ~HoldsUser(q, u)
SessionsFree(p) == \A q \in Proc \ {p} : HeldSessions(q) \cap request[p].sessions = {}
TokensFree(p) == \A q \in Proc \ {p} : HeldTokens(q) \cap request[p].tokens = {}

-----------------------------------------------------------------------------
(* Login: login() and CentralSessionService.issue()                        *)

\* The account is read and the password verified, before the transaction.
CheckPassword(p, u) ==
    /\ request[p].pc = "idle"
    /\ u \in active
    /\ request' = [request EXCEPT ![p] =
                     [Call("login", "issue") EXCEPT !.users = {u}, !.secret = password[u]]]
    /\ UNCHANGED <<tables, past>>

IssueSession(p, s) ==
    /\ request[p].pc = "issue"
    /\ UserOf[s] \in request[p].users
    /\ session[s].status = "NONE"
    /\ session' = [session EXCEPT
                     ![s] = [status |-> "ACTIVE", by |-> "none", secret |-> request[p].secret]]
    /\ End(p)
    /\ UNCHANGED <<accounts, code, token, outbox, past>>

-----------------------------------------------------------------------------
(* getCurrentSession() and authorize()                                     *)

PresentSession(p, s, kind, a) ==
    /\ request[p].pc = "idle"
    /\ session[s].status # "NONE"
    /\ (kind = "authorize") = (a # None)
    /\ request' = [request EXCEPT ![p] =
                     [Present(kind) EXCEPT !.sessions = {s}, !.app = a]]
    /\ UNCHANGED <<tables, past>>

Live(p, s) == session[s].status = "ACTIVE" /\ s \notin request[p].past
Lapsed(p, row, x) == row.status = "ACTIVE" /\ x \in request[p].past

ReadSession(p) ==
    /\ request[p].pc = "read"
    /\ request[p].kind \in {"current", "authorize"}
    /\ \E s \in request[p].sessions :
         IF Lapsed(p, session[s], s) THEN Goto(p, "expire")
         ELSE IF Live(p, s) /\ UserOf[s] \in active THEN Goto(p, "touch")
         ELSE End(p)
    /\ UNCHANGED <<tables, past>>

ExpireSession(p) ==
    /\ request[p].pc = "expire"
    /\ request[p].kind # "userinfo"
    /\ SessionsFree(p)
    /\ session' = [s \in Session |->
                     IF s \in request[p].sessions /\ session[s].status = "ACTIVE"
                       THEN [session[s] EXCEPT !.status = "EXPIRED"] ELSE session[s]]
    /\ End(p)
    /\ UNCHANGED <<accounts, code, token, outbox, past>>

\* Where a request goes once lastActivityAt of its session is written.
AfterTouch(kind) ==
    CASE kind = "current" -> "idle"
      [] kind = "authorize" -> "allowed"
      [] kind = "exchange" -> "claim"
      [] kind = "userinfo" -> "guard"

\* Mutant: the session is touched by its id alone.
TouchById(p) ==
    /\ request[p].pc = "touch"
    /\ SessionsFree(p)
    /\ IF request[p].kind # "current" THEN Goto(p, AfterTouch(request[p].kind)) ELSE End(p)
    /\ UNCHANGED <<tables, past>>

\* updateMany on the session, which must be live still; exchange and userinfo do it
\* inside their transactions and keep the lock.
TouchSession(p) ==
    /\ request[p].pc = "touch"
    /\ SessionsFree(p)
    /\ IF request[p].kind # "current" /\ \A s \in request[p].sessions : Live(p, s)
         THEN Goto(p, AfterTouch(request[p].kind))
         ELSE End(p)
    /\ UNCHANGED <<tables, past>>

ReadPolicy(p) ==
    /\ request[p].pc = "allowed"
    /\ IF request[p].app \in policy
         THEN Goto(p, IF request[p].kind = "authorize" THEN "code" ELSE "touch")
         ELSE End(p)
    /\ UNCHANGED <<tables, past>>

\* The new code refers to its application: the insert waits for a FOR UPDATE on it.
IssueCode(p, k) ==
    /\ request[p].pc = "code"
    /\ code[k].status = "NONE"
    /\ \A q \in Proc : ~HoldsApp(q, request[p].app)
    /\ \E s \in request[p].sessions :
         code' = [code EXCEPT ![k] = [status |-> "ISSUED", session |-> s, app |-> request[p].app]]
    /\ End(p)
    /\ UNCHANGED <<accounts, session, token, outbox, past>>

-----------------------------------------------------------------------------
(* Token exchange: exchange()                                              *)

PresentCode(p, k) ==
    /\ request[p].pc = "idle"
    /\ code[k].status # "NONE"
    /\ request' = [request EXCEPT ![p] =
                     [Present("exchange") EXCEPT !.code = k, !.app = code[k].app,
                                                          !.sessions = {code[k].session}]]
    /\ UNCHANGED <<tables, past>>

ReadCode(p) ==
    /\ request[p].pc = "read"
    /\ request[p].kind = "exchange"
    /\ IF /\ code[request[p].code].status = "ISSUED"
          /\ request[p].code \notin request[p].past
          /\ \A s \in request[p].sessions : Live(p, s) /\ UserOf[s] \in active
         THEN Goto(p, "touch")
         ELSE End(p)
    /\ UNCHANGED <<tables, past>>

\* Mutant: the code is marked without a look at usedAt.
ClaimById(p) ==
    /\ request[p].pc = "claim"
    /\ \A q \in Proc \ {p} : ~HoldsCode(q, request[p].code)
    /\ Goto(p, "token")
    /\ UNCHANGED <<tables, past>>

ClaimCode(p) ==
    /\ request[p].pc = "claim"
    /\ \A q \in Proc \ {p} : ~HoldsCode(q, request[p].code)
    /\ IF code[request[p].code].status = "ISSUED" THEN Goto(p, "token") ELSE End(p)
    /\ UNCHANGED <<tables, past>>

\* The insert takes its share of the application's row and keeps it.
InsertToken(p) ==
    /\ request[p].pc = "token"
    /\ \A q \in Proc : ~HoldsApp(q, request[p].app)
    /\ Goto(p, "commit")
    /\ UNCHANGED <<tables, past>>

\* Mutant: the token is created and the code left as it was.
CommitTokenOnly(p, t) ==
    /\ request[p].pc = "commit"
    /\ request[p].kind = "exchange"
    /\ token[t].status = "NONE"
    /\ token' = [token EXCEPT ![t] = [status |-> "ACTIVE", code |-> request[p].code]]
    /\ End(p)
    /\ UNCHANGED <<accounts, session, code, outbox, past>>

CommitExchange(p, t) ==
    /\ request[p].pc = "commit"
    /\ request[p].kind = "exchange"
    /\ token[t].status = "NONE"
    /\ token' = [token EXCEPT ![t] = [status |-> "ACTIVE", code |-> request[p].code]]
    /\ code' = [code EXCEPT ![request[p].code].status = "USED"]
    /\ End(p)
    /\ UNCHANGED <<accounts, session, outbox, past>>

-----------------------------------------------------------------------------
(* userinfo: getProfile()                                                  *)

PresentToken(p, t) ==
    /\ request[p].pc = "idle"
    /\ token[t].status # "NONE"
    /\ request' = [request EXCEPT ![p] =
                     [Present("userinfo") EXCEPT !.tokens = {t},
                        !.app = code[token[t].code].app, !.sessions = {SessionOf(t)}]]
    /\ UNCHANGED <<tables, past>>

ReadToken(p) ==
    /\ request[p].pc = "read"
    /\ request[p].kind = "userinfo"
    /\ \E t \in request[p].tokens :
         IF Lapsed(p, token[t], t) THEN Goto(p, "expire")
         ELSE IF /\ token[t].status = "ACTIVE"
                 /\ Live(p, SessionOf(t))
                 /\ UserOf[SessionOf(t)] \in active
           THEN Goto(p, "allowed")
         ELSE End(p)
    /\ UNCHANGED <<tables, past>>

ExpireToken(p) ==
    /\ request[p].pc = "expire"
    /\ request[p].kind = "userinfo"
    /\ TokensFree(p)
    /\ token' = [t \in Token |->
                   IF t \in request[p].tokens /\ token[t].status = "ACTIVE"
                     THEN [token[t] EXCEPT !.status = "EXPIRED"] ELSE token[t]]
    /\ End(p)
    /\ UNCHANGED <<accounts, session, code, outbox, past>>

\* Mutant: the token is written without a look at its status.
GuardById(p) ==
    /\ request[p].pc = "guard"
    /\ TokensFree(p)
    /\ Goto(p, "commit")
    /\ UNCHANGED <<tables, past>>

\* The update that sets ACTIVE on a token which is ACTIVE, to hold its row.
GuardToken(p) ==
    /\ request[p].pc = "guard"
    /\ TokensFree(p)
    /\ IF \A t \in request[p].tokens : token[t].status = "ACTIVE" /\ t \notin request[p].past
         THEN Goto(p, "commit")
         ELSE End(p)
    /\ UNCHANGED <<tables, past>>

\* The transaction commits its writes and the profile is returned.
Answer(p) ==
    /\ request[p].pc = "commit"
    /\ request[p].kind = "userinfo"
    /\ token' = [t \in Token |->
                   IF t \in request[p].tokens THEN [token[t] EXCEPT !.status = "ACTIVE"]
                   ELSE token[t]]
    /\ End(p)
    /\ UNCHANGED <<accounts, session, code, outbox, past>>

-----------------------------------------------------------------------------
(* Revocation: logout(), updateStatus(), updatePassword(), removePolicy()  *)

Logout(p, s) ==
    /\ request[p].pc = "idle"
    /\ session[s].status # "NONE"
    /\ request' = [request EXCEPT ![p] = [Call("logout", "sessions") EXCEPT !.sessions = {s}]]
    /\ UNCHANGED <<tables, past>>

Change(p, u, kind) ==
    /\ request[p].pc = "idle"
    /\ IF kind = "deactivate" THEN u \in active ELSE password[u] < MaxChanges
    /\ request' = [request EXCEPT ![p] = [Call(kind, "lock") EXCEPT !.users = {u}]]
    /\ UNCHANGED <<tables, past>>

RemovePolicy(p, a) ==
    /\ request[p].pc = "idle"
    /\ request' = [request EXCEPT ![p] = [Call("policy", "lock") EXCEPT !.app = a]]
    /\ UNCHANGED <<tables, past>>

\* The transaction's first statements: it locks the user, or the application and the
\* policy, which must still exist; the members of the group lose their access.
Lock(p) ==
    /\ request[p].pc = "lock"
    /\ IF request[p].kind = "policy"
         THEN /\ AppFree(p, request[p].app)
              /\ request' = [request EXCEPT
                   ![p] = IF request[p].app \in policy
                            THEN [@ EXCEPT !.pc = "scan", !.users = User] ELSE Idle]
         ELSE /\ \A u \in request[p].users : UserFree(p, u)
              /\ Goto(p, "scan")
    /\ UNCHANGED <<tables, past>>

\* revokeSecurityState: the snapshot of the first update decides which sessions it
\* considers.
Scan(p) ==
    /\ request[p].pc = "scan"
    /\ request' = [request EXCEPT
                     ![p].pc = "sessions",
                     ![p].sessions = {s \in Session : /\ UserOf[s] \in request[p].users
                                                      /\ session[s].status = "ACTIVE"}]
    /\ UNCHANGED <<tables, past>>

\* Mutant: logout does not look at the count of its update.
UpdateSessionsById(p) ==
    /\ request[p].pc = "sessions"
    /\ SessionsFree(p)
    /\ Goto(p, "scanTokens")
    /\ UNCHANGED <<tables, past>>

\* The update locks the sessions that are still ACTIVE; a logout that finds none ends.
UpdateSessions(p) ==
    /\ request[p].pc = "sessions"
    /\ SessionsFree(p)
    /\ LET rows == {s \in request[p].sessions : session[s].status = "ACTIVE"}
       IN  request' = [request EXCEPT
             ![p] = IF rows = {} /\ request[p].kind = "logout" THEN Idle
                    ELSE [@ EXCEPT !.pc = "scanTokens", !.sessions = rows]]
    /\ UNCHANGED <<tables, past>>

\* logout revokes by session, the administration by user.
Concerns(p, t) ==
    IF request[p].kind = "logout" THEN SessionOf(t) \in request[p].sessions
    ELSE UserOf[SessionOf(t)] \in request[p].users

ScanTokens(p) ==
    /\ request[p].pc = "scanTokens"
    /\ request' = [request EXCEPT
                     ![p].pc = "tokens",
                     ![p].tokens = {t \in Token : token[t].status = "ACTIVE" /\ Concerns(p, t)}]
    /\ UNCHANGED <<tables, past>>

UpdateTokens(p) ==
    /\ request[p].pc = "tokens"
    /\ TokensFree(p)
    /\ request' = [request EXCEPT
                     ![p].pc = "commit",
                     ![p].tokens = {t \in @ : token[t].status = "ACTIVE"}]
    /\ UNCHANGED <<tables, past>>

\* The revocation, its cause and its outbox events commit together.
CommitRevocation(p) ==
    LET r == request[p] IN
    /\ r.pc = "commit"
    /\ r.kind \in Revoking
    /\ session' = [s \in Session |->
                     IF s \in r.sessions
                       THEN [session[s] EXCEPT !.status = "REVOKED", !.by = r.kind]
                       ELSE session[s]]
    /\ token' = [t \in Token |->
                   IF t \in r.tokens THEN [token[t] EXCEPT !.status = "REVOKED"] ELSE token[t]]
    /\ active' = IF r.kind = "deactivate" THEN active \ r.users ELSE active
    /\ password' = [u \in User |->
                      IF r.kind = "password" /\ u \in r.users THEN password[u] + 1
                      ELSE password[u]]
    /\ policy' = IF r.kind = "policy" THEN policy \ {r.app} ELSE policy
    /\ events' = [s \in Session |->
                    IF r.kind \in {"logout", "deactivate"} /\ s \in r.sessions
                      THEN events[s] + 1 ELSE events[s]]
    /\ notices' = IF r.kind \in {"password", "policy"}
                    THEN notices \cup (r.users \X {r.kind}) ELSE notices
    /\ End(p)
    /\ UNCHANGED <<code, past>>

-----------------------------------------------------------------------------

\* updateStatus to ACTIVE and addPolicy, each once it gets the row it locks.
Reactivate(u) ==
    /\ u \notin active
    /\ \A q \in Proc : ~HoldsUser(q, u)
    /\ active' = active \cup {u}
    /\ UNCHANGED <<password, policy, session, code, token, outbox, past, request>>

AddPolicy(a) ==
    /\ a \notin policy
    /\ \A q \in Proc : ~HoldsApp(q, a) /\ ~SharesApp(q, a)
    /\ policy' = policy \cup {a}
    /\ UNCHANGED <<active, password, session, code, token, outbox, past, request>>

\* removeRedirectUri() marks the codes used that were issued for the URI, once it has the
\* application and their rows: an exchange that has claimed one goes first.
RemoveRedirectUri(a) ==
    /\ \A q \in Proc : ~HoldsApp(q, a) /\ ~SharesApp(q, a)
    /\ \E ks \in SUBSET {k \in Code : code[k].status = "ISSUED" /\ code[k].app = a} :
         /\ \A k \in ks, q \in Proc : ~HoldsCode(q, k)
         /\ code' = [k \in Code |-> IF k \in ks THEN [code[k] EXCEPT !.status = "USED"]
                                   ELSE code[k]]
    /\ UNCHANGED <<accounts, session, token, outbox, past, request>>

Elapse(x) ==
    /\ x \in Expiring \ past
    /\ \/ x \in Session /\ session[x].status # "NONE"
       \/ x \in Code /\ code[x].status # "NONE"
       \/ x \in Token /\ token[x].status # "NONE"
    /\ past' = past \cup {x}
    /\ UNCHANGED <<tables, request>>

\* A statement or the commit fails, the process dies, or PostgreSQL makes the
\* transaction the victim of a deadlock: nothing of it remains.
Fail(p) ==
    /\ request[p].pc # "idle"
    /\ End(p)
    /\ UNCHANGED <<tables, past>>

LoginStep(p) ==
    \/ \E u \in User : CheckPassword(p, u)
    \/ \E s \in Session : IssueSession(p, s)

SessionStep(p) ==
    \/ \E s \in Session, kind \in {"current", "authorize"}, a \in App \cup {None} :
         PresentSession(p, s, kind, a)
    \/ ReadSession(p) \/ ExpireSession(p) \/ TouchSession(p) \/ ReadPolicy(p)
    \/ \E k \in Code : IssueCode(p, k)

ExchangeStep(p) ==
    \/ \E k \in Code : PresentCode(p, k)
    \/ ReadCode(p) \/ ClaimCode(p) \/ InsertToken(p)
    \/ \E t \in Token : CommitExchange(p, t)

UserinfoStep(p) ==
    \/ \E t \in Token : PresentToken(p, t)
    \/ ReadToken(p) \/ ExpireToken(p) \/ GuardToken(p) \/ Answer(p)

RevocationStep(p) ==
    \/ \E s \in Session : Logout(p, s)
    \/ \E u \in User, kind \in {"deactivate", "password"} : Change(p, u, kind)
    \/ \E a \in App : RemovePolicy(p, a)
    \/ Lock(p) \/ Scan(p) \/ UpdateSessions(p) \/ ScanTokens(p) \/ UpdateTokens(p)
    \/ CommitRevocation(p)

RequestStep(p) ==
    \/ LoginStep(p) \/ SessionStep(p) \/ ExchangeStep(p) \/ UserinfoStep(p)
    \/ RevocationStep(p) \/ Fail(p)

Next ==
    \/ \E p \in Proc : RequestStep(p)
    \/ \E u \in User : Reactivate(u)
    \/ \E a \in App : AddPolicy(a) \/ RemoveRedirectUri(a)
    \/ \E x \in Rows : Elapse(x)

Spec == Init /\ [][Next]_vars

-----------------------------------------------------------------------------
(* Properties                                                              *)

\* Every variable has its type; codes and tokens that exist name where they come from.
TypeOK ==
    /\ active \subseteq User
    /\ password \in [User -> Nat]
    /\ policy \subseteq App
    /\ session \in [Session -> SessionRow]
    /\ code \in [Code -> CodeRow]
    /\ \A k \in Code : code[k].status # "NONE" => code[k].session \in Session /\ code[k].app \in App
    /\ token \in [Token -> TokenRow]
    /\ \A t \in Token : token[t].status # "NONE" =>
         token[t].code \in Code /\ code[token[t].code].status = "USED"
    /\ events \in [Session -> Nat]
    /\ notices \subseteq User \X {"password", "policy"}
    /\ past \subseteq Rows
    /\ request \in [Proc -> RequestState]

\* No access token is ACTIVE under a session that was revoked: an exchange that races
\* a logout or an administrator's change either fails or has its token revoked too.
NoTokenOutlivesRevocation ==
    \A t \in Token : token[t].status = "ACTIVE" => session[SessionOf(t)].status # "REVOKED"

\* A code becomes one token, however many exchanges present it at the same time.
CodesAreExchangedOnce ==
    \A t, v \in Token :
        token[t].status # "NONE" /\ token[v].status # "NONE" /\ token[t].code = token[v].code
        => t = v

\* The session ends by one of the logouts and changes that compete for it, and the
\* applications are told so once: by name, or through the notice about its user.
RevocationsAreAnnouncedOnce ==
    \A s \in Session :
        /\ events[s] = IF session[s].by \in {"logout", "deactivate"} THEN 1 ELSE 0
        /\ session[s].by \in {"password", "policy"} => <<UserOf[s], session[s].by>> \in notices

\* A profile is returned only under a session and a token that nobody has revoked since
\* they were read, and while the policy still allows the application.
AnswersAreLive ==
    [][\A p \in Proc : Answer(p) =>
          \A t \in request[p].tokens :
              /\ token[t].status = "ACTIVE"
              /\ session[SessionOf(t)].status = "ACTIVE"
              /\ request[p].app \in policy]_vars

\* A session or a token that has ended stays as it ended: neither the touch of a
\* session nor the update that writes ACTIVE brings one back.
EndedStaysEnded ==
    [][/\ \A s \in Session :
            session[s].status \in {"EXPIRED", "REVOKED"} => session'[s] = session[s]
       /\ \A t \in Token :
            token[t].status \in {"EXPIRED", "REVOKED"} => token'[t] = token[t]]_vars

\* README, revocation, step 1: changing a password revokes the access obtained with the
\* old one.  So no session is ACTIVE whose login verified a password since replaced.
NoSessionOutlivesItsPassword ==
    \A s \in Session :
        session[s].status = "ACTIVE" => session[s].secret = password[UserOf[s]]

=============================================================================
