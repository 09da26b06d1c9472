------------------------- MODULE CentralAccessProofs -------------------------
(***************************************************************************)
(* What CentralAccess guarantees for every set of users, applications,     *)
(* sessions, codes, tokens and requests.                                   *)
(***************************************************************************)
EXTENDS CentralAccess, TLAPS

-----------------------------------------------------------------------------
(* What is true of a request, from where it stands                         *)

Checking == {"current", "authorize", "exchange", "userinfo"}
ByUser == {"deactivate", "password", "policy"}

\* The kinds of request that get to a statement.
Serves(x) ==
    /\ x.pc = "issue" => x.kind = "login"
    /\ x.pc \in {"read", "touch"} => x.kind \in Checking
    /\ x.pc = "expire" => x.kind \in Checking \ {"exchange"}
    /\ x.pc = "allowed" => x.kind \in {"authorize", "userinfo"}
    /\ x.pc = "code" => x.kind = "authorize"
    /\ x.pc \in {"claim", "token"} => x.kind = "exchange"
    /\ x.pc = "guard" => x.kind = "userinfo"
    /\ x.pc \in {"lock", "scan"} => x.kind \in ByUser
    /\ x.pc \in {"sessions", "scanTokens", "tokens"} => x.kind \in Revoking
    /\ x.pc = "commit" => x.kind \in Revoking \cup {"exchange", "userinfo"}

Revokes(x) == x.pc \in {"sessions", "scanTokens", "tokens", "commit"}

\* The rows that a request names, which existed when it named them.
Names(x) ==
    /\ x.kind = "authorize" =>
         x.app \in App /\ \A s \in x.sessions : session[s].status # "NONE"
    /\ x.kind = "exchange" =>
         /\ x.code \in Code /\ code[x.code].status # "NONE"
         /\ x.app = code[x.code].app /\ x.sessions = {code[x.code].session}
         /\ x.tokens = {}
    /\ x.kind = "userinfo" =>
         \E t \in Token :
           /\ x.tokens = {t} /\ token[t].status # "NONE"
           /\ x.app = code[token[t].code].app /\ x.sessions = {SessionOf(t)}
    /\ x.kind = "policy" => x.app \in App /\ (Revokes(x) \/ x.pc = "scan" => x.users = User)
    /\ x.kind \in ByUser /\ Revokes(x) => \A s \in x.sessions : UserOf[s] \in x.users

\* Codes belong to sessions that were issued, and only a revoked session has a reason.
RowsOK ==
    /\ \A k \in Code : code[k].status # "NONE" => session[code[k].session].status # "NONE"
    /\ \A s \in Session : session[s].status # "REVOKED" => session[s].by = "none"

TypeInv ==
    /\ TypeOK /\ RowsOK
    /\ \A p \in Proc : Serves(request[p]) /\ Names(request[p])

-----------------------------------------------------------------------------
(* Locks                                                                   *)

\* The rows that a request has locked, as HeldSessions, HeldTokens and HoldsCode have them.
SessionLocks(x) ==
    IF x.pc \in {"claim", "token", "guard", "scanTokens", "tokens", "commit"}
      THEN x.sessions ELSE {}
TokenLocks(x) == IF x.pc = "commit" THEN x.tokens ELSE {}
CodeLocks(x) == IF x.kind = "exchange" /\ x.pc \in {"token", "commit"} THEN {x.code} ELSE {}

\* A locked row is still what the statement that locked it has found.
HoldsOK(x) ==
    /\ \A s \in SessionLocks(x) : session[s].status = "ACTIVE"
    /\ \A t \in TokenLocks(x) : token[t].status = "ACTIVE"
    /\ \A k \in CodeLocks(x) : code[k].status = "ISSUED"

Apart(x, y) ==
    /\ SessionLocks(x) \cap SessionLocks(y) = {}
    /\ TokenLocks(x) \cap TokenLocks(y) = {}
    /\ CodeLocks(x) \cap CodeLocks(y) = {}

\* A revocation considers every token of the sessions it has locked; a policy removal
\* every usable session that has a code for the application; and a profile is asked for
\* under the policy, unless the session has ended.
CoversTokens(x) ==
    x.kind \in Revoking /\ x.pc \in {"tokens", "commit"} =>
        \A t \in Token :
            token[t].status = "ACTIVE" /\ SessionOf(t) \in x.sessions => t \in x.tokens
CoversSessions(x) ==
    x.kind = "policy" /\ Revokes(x) =>
        \A k \in Code :
            /\ code[k].status # "NONE" /\ code[k].app = x.app
            /\ session[code[k].session].status = "ACTIVE"
            => code[k].session \in x.sessions
StaysAllowed(x) ==
    x.kind = "userinfo" /\ x.pc \in {"touch", "guard", "commit"} =>
        x.app \in policy \/ \A s \in x.sessions : session[s].status # "ACTIVE"

RequestOK(x) == HoldsOK(x) /\ CoversTokens(x) /\ CoversSessions(x) /\ StaysAllowed(x)

SafeInv ==
    /\ TypeInv
    /\ \A p \in Proc : RequestOK(request[p])
    /\ \A p, q \in Proc : p # q => Apart(request[p], request[q])
    /\ NoTokenOutlivesRevocation
    /\ RevocationsAreAnnouncedOnce

-----------------------------------------------------------------------------
(* A step of one request that leaves the tables alone                      *)

Locking == {"claim", "token", "guard", "scanTokens", "tokens", "commit"}

GoodRequest(x) == Serves(x) /\ Names(x) /\ RequestOK(x)

GoodStep(p) ==
    /\ \E x \in RequestState :
         /\ GoodRequest(x)
         /\ \A q \in Proc \ {p} : Apart(request[q], x)
         /\ request' = [request EXCEPT ![p] = x]
    /\ UNCHANGED <<tables, past>>

LEMMA RequestFacts ==
    ASSUME SafeInv, NEW p \in Proc
    PROVE  /\ request[p] \in RequestState /\ GoodRequest(request[p])
           /\ \A q \in Proc \ {p} : Apart(request[q], request[p])
  BY DEF SafeInv, TypeInv, TypeOK, GoodRequest

LEMMA IdleType == Idle \in RequestState /\ Idle.kind = "none" /\ Idle.pc = "idle"
  BY AccessAssumption DEF Idle, RequestState, Kind, Pc

LEMMA Unlocked ==
    ASSUME NEW x, x.pc \notin Locking
    PROVE  HoldsOK(x) /\ CoversTokens(x) /\ \A y : Apart(y, x)
  BY DEF Locking, HoldsOK, CoversTokens, Apart, SessionLocks, TokenLocks, CodeLocks

LEMMA IdleGood == GoodRequest(Idle) /\ \A y : Apart(y, Idle)
  <1>1. Idle.pc \notin Locking
    BY IdleType DEF Locking
  <1>2. Serves(Idle)
    BY IdleType DEF Serves
  <1>3. Names(Idle)
    BY IdleType DEF Names, ByUser
  <1>4. CoversSessions(Idle) /\ StaysAllowed(Idle)
    BY IdleType DEF CoversSessions, StaysAllowed
  <1>5. QED
    BY <1>1, <1>2, <1>3, <1>4, Unlocked DEF GoodRequest, RequestOK

LEMMA EndIsGood ==
    ASSUME NEW p \in Proc, End(p), UNCHANGED <<tables, past>>
    PROVE  GoodStep(p)
  BY IdleType, IdleGood DEF End, GoodStep

LEMMA MoveIsGood ==
    ASSUME NEW p \in Proc, NEW x \in RequestState, x.pc \notin Locking,
           Serves(x), Names(x), CoversSessions(x), StaysAllowed(x),
           request' = [request EXCEPT ![p] = x], UNCHANGED <<tables, past>>
    PROVE  GoodStep(p)
  BY Unlocked DEF GoodStep, GoodRequest, RequestOK

\* The tables of a request that has not moved mean what they meant.
LEMMA SameRequest ==
    ASSUME NEW q, NEW y, request'[q] = y
    PROVE  /\ Serves(y) => Serves(request[q])'
           /\ Names(y)' => Names(request[q])'
           /\ RequestOK(y)' => RequestOK(request[q])'
  <1>1. Serves(y) => Serves(request[q])'
    BY DEF Serves
  <1>2. Names(y)' => Names(request[q])'
    BY DEF Names, Revokes
  <1>3. HoldsOK(y)' => HoldsOK(request[q])'
    BY DEF HoldsOK, SessionLocks, TokenLocks, CodeLocks
  <1>4. CoversTokens(y)' => CoversTokens(request[q])'
    BY DEF CoversTokens
  <1>5. CoversSessions(y)' => CoversSessions(request[q])'
    BY DEF CoversSessions, Revokes
  <1>6. StaysAllowed(y)' => StaysAllowed(request[q])'
    BY DEF StaysAllowed
  <1>7. QED
    BY <1>1, <1>2, <1>3, <1>4, <1>5, <1>6 DEF RequestOK

LEMMA SameTables ==
    ASSUME UNCHANGED <<tables, past>>, NEW y
    PROVE  Names(y)' = Names(y) /\ RequestOK(y)' = RequestOK(y)
  <1>1. Names(y)' = Names(y)
    BY DEF Names, tables, SessionOf
  <1>2. RequestOK(y)' = RequestOK(y)
    BY DEF RequestOK, HoldsOK, CoversTokens, CoversSessions, StaysAllowed, tables, accounts,
           SessionOf
  <1>3. QED
    BY <1>1, <1>2

LEMMA ApartIsSymmetric == ASSUME NEW x, NEW y PROVE Apart(x, y) => Apart(y, x)
  BY DEF Apart

LEMMA GoodStepKeepsSafeInv ==
    ASSUME SafeInv, NEW p \in Proc, GoodStep(p)
    PROVE  SafeInv'
  <1>1. PICK x \in RequestState :
          /\ GoodRequest(x)
          /\ \A q \in Proc \ {p} : Apart(request[q], x)
          /\ request' = [request EXCEPT ![p] = x]
    BY DEF GoodStep
  <1>2. UNCHANGED <<tables, past>>
    BY DEF GoodStep
  <1>3. /\ request' \in [Proc -> RequestState]
        /\ \A q \in Proc : request'[q] = IF q = p THEN x ELSE request[q]
    BY <1>1 DEF SafeInv, TypeInv, TypeOK
  <1>4. TypeOK' /\ RowsOK'
    BY <1>2, <1>3 DEF SafeInv, TypeInv, TypeOK, RowsOK, tables, accounts, outbox
  <1>5. ASSUME NEW q \in Proc
        PROVE  Serves(request[q])' /\ Names(request[q])' /\ RequestOK(request[q])'
    <2>1. PICK y : y = request'[q]
      OBVIOUS
    <2>2. y = x \/ y = request[q]
      BY <1>3, <2>1
    <2>3. Serves(y) /\ Names(y) /\ RequestOK(y)
      BY <1>1, <2>2, RequestFacts DEF GoodRequest
    <2>4. Names(y)' /\ RequestOK(y)'
      BY <1>2, <2>3, SameTables
    <2>5. QED
      BY <2>1, <2>3, <2>4, SameRequest
  <1>6. ASSUME NEW q \in Proc, NEW r \in Proc, q # r
        PROVE  Apart(request'[q], request'[r])
    BY <1>1, <1>3, <1>6, ApartIsSymmetric DEF SafeInv
  <1>7. NoTokenOutlivesRevocation' /\ RevocationsAreAnnouncedOnce'
    BY <1>2 DEF SafeInv, NoTokenOutlivesRevocation, RevocationsAreAnnouncedOnce, SessionOf,
                tables, outbox
  <1>8. \A q, r \in Proc : q # r => Apart(request[q], request[r])'
    BY <1>6 DEF Apart, SessionLocks, TokenLocks, CodeLocks
  <1>9. QED
    BY <1>4, <1>5, <1>7, <1>8 DEF SafeInv, TypeInv

-----------------------------------------------------------------------------
(* Steps that lock nothing                                                 *)

\* What a new request, or one that has moved on, has for its fields.
LEMMA CallType ==
    ASSUME NEW kind \in Kind, NEW pc \in Pc
    PROVE  /\ Call(kind, pc) \in RequestState
           /\ Call(kind, pc).kind = kind /\ Call(kind, pc).pc = pc
           /\ Call(kind, pc).sessions = {} /\ Call(kind, pc).tokens = {}
  BY AccessAssumption DEF Call, Idle, RequestState

LEMMA PresentType ==
    ASSUME SafeInv, NEW kind \in Kind
    PROVE  /\ Present(kind) \in RequestState
           /\ Present(kind).kind = kind /\ Present(kind).pc = "read"
           /\ Present(kind).sessions = {} /\ Present(kind).tokens = {}
  BY AccessAssumption DEF Present, Idle, RequestState, Pc, SafeInv, TypeInv, TypeOK

LEMMA LoginIsGood ==
    ASSUME SafeInv, NEW p \in Proc, NEW u \in User, CheckPassword(p, u)
    PROVE  GoodStep(p)
  <1> DEFINE x == [Call("login", "issue") EXCEPT !.users = {u}, !.secret = password[u]]
  <1>1. PICK y \in RequestState : y = Call("login", "issue") /\ y.kind = "login" /\ y.pc = "issue"
    BY CallType DEF Kind, Pc
  <1>2. x \in RequestState /\ x.kind = "login" /\ x.pc = "issue"
    BY <1>1 DEF RequestState, SafeInv, TypeInv, TypeOK
  <1>3. x.pc \notin Locking /\ Serves(x) /\ Names(x) /\ CoversSessions(x) /\ StaysAllowed(x)
    BY <1>2 DEF Locking, Serves, Names, ByUser, CoversSessions, StaysAllowed
  <1>4. request' = [request EXCEPT ![p] = x] /\ UNCHANGED <<tables, past>>
    BY DEF CheckPassword
  <1> HIDE DEF x
  <1>5. QED
    BY <1>2, <1>3, <1>4, MoveIsGood

LEMMA PresentSessionIsGood ==
    ASSUME SafeInv, NEW p \in Proc, NEW s \in Session, NEW kind \in {"current", "authorize"},
           NEW a \in App \cup {None}, PresentSession(p, s, kind, a)
    PROVE  GoodStep(p)
  <1> DEFINE x == [Present(kind) EXCEPT !.sessions = {s}, !.app = a]
  <1>0. PICK y \in RequestState : y = Present(kind) /\ y.kind = kind /\ y.pc = "read"
    BY PresentType DEF Kind
  <1>1. x \in RequestState /\ x.kind = kind /\ x.pc = "read" /\ x.sessions = {s} /\ x.app = a
    BY <1>0 DEF RequestState
  <1>2. x.pc \notin Locking /\ Serves(x) /\ CoversSessions(x) /\ StaysAllowed(x)
    BY <1>1 DEF Locking, Serves, Checking, CoversSessions, StaysAllowed
  <1>3. Names(x)
    BY <1>1, AccessAssumption DEF Names, ByUser, PresentSession
  <1>4. request' = [request EXCEPT ![p] = x] /\ UNCHANGED <<tables, past>>
    BY DEF PresentSession
  <1> HIDE DEF x
  <1>5. QED
    BY <1>1, <1>2, <1>3, <1>4, MoveIsGood

LEMMA PresentCodeIsGood ==
    ASSUME SafeInv, NEW p \in Proc, NEW k \in Code, PresentCode(p, k)
    PROVE  GoodStep(p)
  <1> DEFINE x == [Present("exchange") EXCEPT !.code = k, !.app = code[k].app,
                                               !.sessions = {code[k].session}]
  <1>1. code[k].app \in App /\ code[k].session \in Session
    BY DEF PresentCode, SafeInv, TypeInv, TypeOK
  <1>2. PICK y \in RequestState :
          y = Present("exchange") /\ y.kind = "exchange" /\ y.pc = "read" /\ y.tokens = {}
    BY PresentType DEF Kind
  <1>3. /\ x \in RequestState /\ x.kind = "exchange" /\ x.pc = "read" /\ x.code = k
        /\ x.app = code[k].app /\ x.sessions = {code[k].session} /\ x.tokens = {}
    BY <1>1, <1>2 DEF RequestState
  <1>4. x.pc \notin Locking /\ Serves(x) /\ CoversSessions(x) /\ StaysAllowed(x)
    BY <1>3 DEF Locking, Serves, Checking, CoversSessions, StaysAllowed
  <1>5. Names(x)
    BY <1>3 DEF Names, ByUser, PresentCode
  <1>6. request' = [request EXCEPT ![p] = x] /\ UNCHANGED <<tables, past>>
    BY DEF PresentCode
  <1> HIDE DEF x
  <1>7. QED
    BY <1>3, <1>4, <1>5, <1>6, MoveIsGood

\* The code of a token that exists has been used, so it names a session and an application.
LEMMA TokenCode ==
    ASSUME SafeInv, NEW t \in Token, token[t].status # "NONE"
    PROVE  /\ token[t].code \in Code /\ code[token[t].code].status = "USED"
           /\ code[token[t].code].app \in App /\ SessionOf(t) \in Session
  BY DEF SafeInv, TypeInv, TypeOK, SessionOf

LEMMA PresentTokenIsGood ==
    ASSUME SafeInv, NEW p \in Proc, NEW t \in Token, PresentToken(p, t)
    PROVE  GoodStep(p)
  <1> DEFINE x == [Present("userinfo") EXCEPT
                     !.tokens = {t}, !.app = code[token[t].code].app, !.sessions = {SessionOf(t)}]
  <1>1. token[t].status # "NONE"
    BY DEF PresentToken
  <1>2. PICK y \in RequestState :
          y = Present("userinfo") /\ y.kind = "userinfo" /\ y.pc = "read"
    BY PresentType DEF Kind
  <1>3. /\ x \in RequestState /\ x.kind = "userinfo" /\ x.pc = "read" /\ x.tokens = {t}
        /\ x.app = code[token[t].code].app /\ x.sessions = {SessionOf(t)}
    BY <1>1, <1>2, TokenCode DEF RequestState
  <1>4. x.pc \notin Locking /\ Serves(x) /\ CoversSessions(x) /\ StaysAllowed(x)
    BY <1>3 DEF Locking, Serves, Checking, CoversSessions, StaysAllowed
  <1>5. Names(x)
    BY <1>1, <1>3 DEF Names, ByUser
  <1>6. request' = [request EXCEPT ![p] = x] /\ UNCHANGED <<tables, past>>
    BY DEF PresentToken
  <1> HIDE DEF x
  <1>7. QED
    BY <1>3, <1>4, <1>5, <1>6, MoveIsGood

\* A request that only reads goes on as itself.
LEMMA GotoIsGood ==
    ASSUME SafeInv, NEW p \in Proc, NEW pc \in {"expire", "touch", "allowed", "code"},
           request[p].kind \in Checking,
           pc = "expire" => request[p].kind # "exchange",
           pc = "allowed" => request[p].kind \in {"authorize", "userinfo"},
           pc = "code" => request[p].kind = "authorize",
           request[p].kind = "userinfo" /\ pc = "touch" => request[p].app \in policy,
           Goto(p, pc), UNCHANGED <<tables, past>>
    PROVE  GoodStep(p)
  <1> DEFINE r == request[p]
             x == [request[p] EXCEPT !.pc = pc]
  <1>1. r \in RequestState /\ Names(r)
    BY RequestFacts DEF GoodRequest
  <1>2. /\ x \in RequestState /\ x.pc = pc /\ x.kind = r.kind /\ x.code = r.code
        /\ x.app = r.app /\ x.sessions = r.sessions /\ x.tokens = r.tokens
    BY <1>1 DEF RequestState, Pc
  <1>3. x.pc \notin Locking /\ CoversSessions(x) /\ StaysAllowed(x)
    BY <1>2 DEF Locking, CoversSessions, StaysAllowed, Checking
  <1>4. Names(x)
    BY <1>1, <1>2 DEF Names, ByUser, Checking
  <1>5. request' = [request EXCEPT ![p] = x]
    BY DEF Goto
  <1>6. Serves(x)
    BY <1>2 DEF Serves, Checking
  <1> HIDE DEF x
  <1>7. QED
    BY <1>2, <1>3, <1>4, <1>5, <1>6, MoveIsGood

LEMMA ReadsAreGood ==
    ASSUME SafeInv, NEW p \in Proc,
           ReadSession(p) \/ ReadCode(p) \/ ReadToken(p) \/ ReadPolicy(p)
    PROVE  GoodStep(p)
  <1>1. UNCHANGED <<tables, past>>
    BY DEF ReadSession, ReadCode, ReadToken, ReadPolicy
  <1>2. CASE End(p)
    BY <1>1, <1>2, EndIsGood
  <1>3. CASE ReadSession(p) /\ ~End(p)
    <2>1. request[p].kind \in {"current", "authorize"} /\ (Goto(p, "expire") \/ Goto(p, "touch"))
      BY <1>3 DEF ReadSession
    <2>2. QED
      BY <1>1, <2>1, GotoIsGood DEF Checking
  <1>4. CASE ReadCode(p) /\ ~End(p)
    <2>1. request[p].kind = "exchange" /\ Goto(p, "touch")
      BY <1>4 DEF ReadCode
    <2>2. QED
      BY <1>1, <2>1, GotoIsGood DEF Checking
  <1>5. CASE ReadToken(p) /\ ~End(p)
    <2>1. request[p].kind = "userinfo" /\ (Goto(p, "expire") \/ Goto(p, "allowed"))
      BY <1>5 DEF ReadToken
    <2>2. QED
      BY <1>1, <2>1, GotoIsGood DEF Checking
  <1>6. CASE ReadPolicy(p) /\ ~End(p)
    <2>1. request[p].kind \in {"authorize", "userinfo"}
      BY <1>6, RequestFacts DEF ReadPolicy, GoodRequest, Serves
    <2>2. /\ request[p].app \in policy
          /\ Goto(p, IF request[p].kind = "authorize" THEN "code" ELSE "touch")
      BY <1>6 DEF ReadPolicy
    <2>3. CASE request[p].kind = "authorize"
      BY <1>1, <2>1, <2>2, <2>3, GotoIsGood DEF Checking
    <2>4. CASE request[p].kind = "userinfo"
      BY <1>1, <2>1, <2>2, <2>4, GotoIsGood DEF Checking
    <2>5. QED
      BY <2>1, <2>3, <2>4
  <1>7. QED
    BY <1>2, <1>3, <1>4, <1>5, <1>6

LEMMA CallsToRevokeAreGood ==
    ASSUME SafeInv, NEW p \in Proc,
           \/ \E s \in Session : Logout(p, s)
           \/ \E u \in User, kind \in {"deactivate", "password"} : Change(p, u, kind)
           \/ \E a \in App : RemovePolicy(p, a)
    PROVE  GoodStep(p)
  <1>1. ASSUME NEW s \in Session, Logout(p, s) PROVE GoodStep(p)
    <2> DEFINE x == [Call("logout", "sessions") EXCEPT !.sessions = {s}]
    <2>1. PICK y \in RequestState :
            y = Call("logout", "sessions") /\ y.kind = "logout" /\ y.pc = "sessions"
      BY CallType DEF Kind, Revoking, Pc
    <2>2. x \in RequestState /\ x.kind = "logout" /\ x.pc = "sessions"
      BY <2>1 DEF RequestState
    <2>3. /\ x.pc \notin Locking /\ Serves(x) /\ Names(x)
          /\ CoversSessions(x) /\ StaysAllowed(x)
      BY <2>2 DEF Locking, Serves, Revoking, Names, ByUser, CoversSessions, StaysAllowed
    <2>4. request' = [request EXCEPT ![p] = x] /\ UNCHANGED <<tables, past>>
      BY <1>1 DEF Logout
    <2> HIDE DEF x
    <2>5. QED
      BY <2>2, <2>3, <2>4, MoveIsGood
  <1>2. ASSUME NEW u \in User, NEW kind \in {"deactivate", "password"}, Change(p, u, kind)
        PROVE  GoodStep(p)
    <2> DEFINE x == [Call(kind, "lock") EXCEPT !.users = {u}]
    <2>1. PICK y \in RequestState : y = Call(kind, "lock") /\ y.kind = kind /\ y.pc = "lock"
      BY CallType DEF Kind, Revoking, Pc
    <2>2. x \in RequestState /\ x.kind = kind /\ x.pc = "lock"
      BY <2>1 DEF RequestState
    <2>3. /\ x.pc \notin Locking /\ Serves(x) /\ Names(x)
          /\ CoversSessions(x) /\ StaysAllowed(x)
      BY <2>2 DEF Locking, Serves, ByUser, Names, Revokes, CoversSessions, StaysAllowed
    <2>4. request' = [request EXCEPT ![p] = x] /\ UNCHANGED <<tables, past>>
      BY <1>2 DEF Change
    <2> HIDE DEF x
    <2>5. QED
      BY <2>2, <2>3, <2>4, MoveIsGood
  <1>3. ASSUME NEW a \in App, RemovePolicy(p, a) PROVE GoodStep(p)
    <2> DEFINE x == [Call("policy", "lock") EXCEPT !.app = a]
    <2>1. PICK y \in RequestState :
            y = Call("policy", "lock") /\ y.kind = "policy" /\ y.pc = "lock"
      BY CallType DEF Kind, Revoking, Pc
    <2>2. x \in RequestState /\ x.kind = "policy" /\ x.pc = "lock" /\ x.app = a
      BY <2>1 DEF RequestState
    <2>3. /\ x.pc \notin Locking /\ Serves(x) /\ Names(x)
          /\ CoversSessions(x) /\ StaysAllowed(x)
      BY <2>2 DEF Locking, Serves, ByUser, Names, Revokes, CoversSessions, StaysAllowed
    <2>4. request' = [request EXCEPT ![p] = x] /\ UNCHANGED <<tables, past>>
      BY <1>3 DEF RemovePolicy
    <2> HIDE DEF x
    <2>5. QED
      BY <2>2, <2>3, <2>4, MoveIsGood
  <1>4. QED
    BY <1>1, <1>2, <1>3

LEMMA LockIsGood ==
    ASSUME SafeInv, NEW p \in Proc, Lock(p)
    PROVE  GoodStep(p)
  <1> DEFINE r == request[p]
             x == IF r.kind = "policy" THEN [r EXCEPT !.pc = "scan", !.users = User]
                  ELSE [r EXCEPT !.pc = "scan"]
  <1>1. r \in RequestState /\ Names(r) /\ r.kind \in ByUser
    BY RequestFacts DEF GoodRequest, Serves, Lock
  <1>2. /\ x \in RequestState /\ x.pc = "scan" /\ x.kind = r.kind /\ x.app = r.app
        /\ x.kind = "policy" => x.users = User
    BY <1>1 DEF RequestState, Pc
  <1>3. x.pc \notin Locking /\ Serves(x) /\ Names(x) /\ CoversSessions(x) /\ StaysAllowed(x)
    BY <1>1, <1>2 DEF Locking, Serves, Names, ByUser, Revokes, CoversSessions, StaysAllowed
  <1>4. UNCHANGED <<tables, past>>
    BY DEF Lock
  <1>5. CASE request' = [request EXCEPT ![p] = Idle]
    BY <1>4, <1>5, EndIsGood DEF End
  <1>6. CASE request' # [request EXCEPT ![p] = Idle]
    <2>1. request' = [request EXCEPT ![p] = x]
      BY <1>6 DEF Lock, Goto
    <2> HIDE DEF x
    <2>2. QED
      BY <1>2, <1>3, <1>4, <2>1, MoveIsGood
  <1>7. QED
    BY <1>5, <1>6

\* The first update of a policy removal considers every usable session, and so every
\* usable session that has a code for the application.
LEMMA ScanIsGood ==
    ASSUME SafeInv, NEW p \in Proc, Scan(p)
    PROVE  GoodStep(p)
  <1> DEFINE r == request[p]
             rows == {s \in Session : UserOf[s] \in r.users /\ session[s].status = "ACTIVE"}
             x == [r EXCEPT !.pc = "sessions", !.sessions = rows]
  <1>1. r \in RequestState /\ Names(r) /\ r.kind \in ByUser /\ r.pc = "scan"
    BY RequestFacts DEF GoodRequest, Serves, Scan
  <1>2. rows \in SUBSET Session
    OBVIOUS
  <1>3. /\ x \in RequestState /\ x.pc = "sessions" /\ x.kind = r.kind /\ x.app = r.app
        /\ x.users = r.users /\ x.sessions = rows
    BY <1>1, <1>2 DEF RequestState, Pc
  <1>4. x.pc \notin Locking /\ Serves(x) /\ StaysAllowed(x)
    BY <1>1, <1>3 DEF Locking, Serves, ByUser, Revoking, StaysAllowed
  <1>5. Names(x)
    BY <1>1, <1>3 DEF Names, ByUser, Revokes
  <1>6. CoversSessions(x)
    <2>1. ASSUME x.kind = "policy", NEW k \in Code, code[k].status # "NONE",
                 session[code[k].session].status = "ACTIVE"
          PROVE  code[k].session \in rows
      <3>1. code[k].session \in Session
        BY <2>1 DEF SafeInv, TypeInv, TypeOK
      <3>2. UserOf[code[k].session] \in r.users
        BY <1>1, <1>3, <2>1, <3>1, AccessAssumption DEF Names
      <3>3. QED
        BY <2>1, <3>1, <3>2
    <2>2. QED
      BY <1>3, <2>1 DEF CoversSessions
  <1>7. request' = [request EXCEPT ![p] = x] /\ UNCHANGED <<tables, past>>
    BY DEF Scan
  <1> HIDE DEF x
  <1>8. QED
    BY <1>3, <1>4, <1>5, <1>6, <1>7, MoveIsGood

-----------------------------------------------------------------------------
(* Steps that lock rows                                                    *)

LEMMA Locks ==
    ASSUME NEW q
    PROVE  /\ HeldSessions(q) = SessionLocks(request[q])
           /\ HeldTokens(q) = TokenLocks(request[q])
           /\ \A k : HoldsCode(q, k) <=> k \in CodeLocks(request[q])
  BY DEF HeldSessions, SessionLocks, HeldTokens, TokenLocks, HoldsCode, CodeLocks

\* updateMany on the session, in the transactions that keep its lock.
LEMMA TouchIsGood ==
    ASSUME SafeInv, NEW p \in Proc, TouchSession(p)
    PROVE  GoodStep(p)
  <1> DEFINE r == request[p]
             x(pc) == [r EXCEPT !.pc = pc]
  <1>1. r \in RequestState /\ GoodRequest(r) /\ r.kind \in Checking /\ r.pc = "touch"
    BY RequestFacts DEF GoodRequest, Serves, TouchSession
  <1>2. UNCHANGED <<tables, past>>
    BY DEF TouchSession
  <1>3. CASE End(p)
    BY <1>2, <1>3, EndIsGood
  <1>4. CASE r.kind = "authorize" /\ ~End(p)
    <2>1. Goto(p, "allowed")
      BY <1>4 DEF TouchSession, AfterTouch
    <2>2. QED
      BY <1>1, <1>2, <1>4, <2>1, GotoIsGood
  <1>5. ASSUME r.kind \in {"exchange", "userinfo"}, ~End(p) PROVE GoodStep(p)
    <2> DEFINE y == x(IF r.kind = "exchange" THEN "claim" ELSE "guard")
    <2>1. request' = [request EXCEPT ![p] = y]
      BY <1>5 DEF TouchSession, AfterTouch, Goto
    <2>2. \A s \in r.sessions : session[s].status = "ACTIVE"
      BY <1>5 DEF TouchSession, Live
    <2>3. /\ y \in RequestState /\ y.kind = r.kind /\ y.code = r.code /\ y.app = r.app
          /\ y.sessions = r.sessions /\ y.tokens = r.tokens
          /\ y.pc = IF r.kind = "exchange" THEN "claim" ELSE "guard"
      BY <1>1 DEF RequestState, Pc
    <2>4. SessionLocks(y) = r.sessions /\ TokenLocks(y) = {} /\ CodeLocks(y) = {}
      BY <1>5, <2>3 DEF SessionLocks, TokenLocks, CodeLocks
    <2>5. Serves(y) /\ Names(y)
      BY <1>1, <1>5, <2>3 DEF GoodRequest, Serves, Names, ByUser
    <2>6. HoldsOK(y) /\ CoversTokens(y) /\ CoversSessions(y) /\ StaysAllowed(y)
      BY <1>1, <1>5, <2>2, <2>3, <2>4
      DEF GoodRequest, RequestOK, HoldsOK, CoversTokens, Revoking, CoversSessions, StaysAllowed
    <2>7. \A q \in Proc \ {p} : Apart(request[q], y)
      BY <2>4, Locks DEF TouchSession, SessionsFree, Apart
    <2> HIDE DEF y
    <2>8. QED
      BY <1>2, <2>1, <2>3, <2>5, <2>6, <2>7 DEF GoodStep, GoodRequest, RequestOK
  <1>6. CASE r.kind = "current"
    BY <1>3, <1>6 DEF TouchSession
  <1>7. QED
    BY <1>1, <1>3, <1>4, <1>5, <1>6 DEF Checking

\* The code is claimed under the lock on its session.
LEMMA ClaimIsGood ==
    ASSUME SafeInv, NEW p \in Proc, ClaimCode(p)
    PROVE  GoodStep(p)
  <1> DEFINE r == request[p]
             x == [r EXCEPT !.pc = "token"]
  <1>1. r \in RequestState /\ GoodRequest(r) /\ r.kind = "exchange" /\ r.pc = "claim"
    BY RequestFacts DEF GoodRequest, Serves, ClaimCode
  <1>2. UNCHANGED <<tables, past>>
    BY DEF ClaimCode
  <1>3. CASE End(p)
    BY <1>2, <1>3, EndIsGood
  <1>4. CASE ~End(p)
    <2>1. request' = [request EXCEPT ![p] = x] /\ code[r.code].status = "ISSUED"
      BY <1>4 DEF ClaimCode, Goto
    <2>2. /\ x \in RequestState /\ x.kind = r.kind /\ x.code = r.code /\ x.app = r.app
          /\ x.sessions = r.sessions /\ x.tokens = r.tokens /\ x.pc = "token"
      BY <1>1 DEF RequestState, Pc
    <2>3. /\ SessionLocks(x) = SessionLocks(r) /\ TokenLocks(x) = {}
          /\ CodeLocks(x) = {r.code}
      BY <1>1, <2>2 DEF SessionLocks, TokenLocks, CodeLocks
    <2>4. Serves(x) /\ Names(x)
      BY <1>1, <2>2 DEF GoodRequest, Serves, Names, ByUser
    <2>5. HoldsOK(x) /\ CoversTokens(x) /\ CoversSessions(x) /\ StaysAllowed(x)
      BY <1>1, <2>1, <2>2, <2>3
      DEF GoodRequest, RequestOK, HoldsOK, CoversTokens, Revoking, CoversSessions, StaysAllowed
    <2>6. \A q \in Proc \ {p} : Apart(request[q], x)
      BY <2>3, Locks, RequestFacts DEF ClaimCode, Apart
    <2> HIDE DEF x
    <2>7. QED
      BY <1>2, <2>1, <2>2, <2>4, <2>5, <2>6 DEF GoodStep, GoodRequest, RequestOK
  <1>5. QED
    BY <1>3, <1>4

LEMMA InsertIsGood ==
    ASSUME SafeInv, NEW p \in Proc, InsertToken(p)
    PROVE  GoodStep(p)
  <1> DEFINE r == request[p]
             x == [r EXCEPT !.pc = "commit"]
  <1>1. /\ r \in RequestState /\ GoodRequest(r) /\ r.kind = "exchange" /\ r.pc = "token"
        /\ r.tokens = {}
    BY RequestFacts DEF GoodRequest, Serves, Names, InsertToken
  <1>2. /\ x \in RequestState /\ x.kind = r.kind /\ x.code = r.code /\ x.app = r.app
        /\ x.sessions = r.sessions /\ x.tokens = r.tokens /\ x.pc = "commit"
    BY <1>1 DEF RequestState, Pc
  <1>3. /\ SessionLocks(x) = SessionLocks(r) /\ TokenLocks(x) = {}
        /\ CodeLocks(x) = CodeLocks(r)
    BY <1>1, <1>2 DEF SessionLocks, TokenLocks, CodeLocks
  <1>4. Serves(x) /\ Names(x)
    BY <1>1, <1>2 DEF GoodRequest, Serves, Names, ByUser
  <1>5. HoldsOK(x) /\ CoversTokens(x) /\ CoversSessions(x) /\ StaysAllowed(x)
    BY <1>1, <1>2, <1>3
    DEF GoodRequest, RequestOK, HoldsOK, CoversTokens, Revoking, CoversSessions, StaysAllowed
  <1>6. \A q \in Proc \ {p} : Apart(request[q], x)
    BY <1>3, RequestFacts DEF Apart
  <1>7. request' = [request EXCEPT ![p] = x] /\ UNCHANGED <<tables, past>>
    BY DEF InsertToken, Goto
  <1> HIDE DEF x
  <1>8. QED
    BY <1>2, <1>4, <1>5, <1>6, <1>7 DEF GoodStep, GoodRequest, RequestOK

LEMMA GuardIsGood ==
    ASSUME SafeInv, NEW p \in Proc, GuardToken(p)
    PROVE  GoodStep(p)
  <1> DEFINE r == request[p]
             x == [r EXCEPT !.pc = "commit"]
  <1>1. r \in RequestState /\ GoodRequest(r) /\ r.kind = "userinfo" /\ r.pc = "guard"
    BY RequestFacts DEF GoodRequest, Serves, GuardToken
  <1>2. UNCHANGED <<tables, past>>
    BY DEF GuardToken
  <1>3. CASE End(p)
    BY <1>2, <1>3, EndIsGood
  <1>4. CASE ~End(p)
    <2>1. /\ request' = [request EXCEPT ![p] = x]
          /\ \A t \in r.tokens : token[t].status = "ACTIVE"
      BY <1>4 DEF GuardToken, Goto
    <2>2. /\ x \in RequestState /\ x.kind = r.kind /\ x.code = r.code /\ x.app = r.app
          /\ x.sessions = r.sessions /\ x.tokens = r.tokens /\ x.pc = "commit"
      BY <1>1 DEF RequestState, Pc
    <2>3. /\ SessionLocks(x) = SessionLocks(r) /\ TokenLocks(x) = r.tokens
          /\ CodeLocks(x) = {}
      BY <1>1, <2>2 DEF SessionLocks, TokenLocks, CodeLocks
    <2>4. Serves(x) /\ Names(x)
      BY <1>1, <2>2 DEF GoodRequest, Serves, Names, ByUser
    <2>5. HoldsOK(x) /\ CoversTokens(x) /\ CoversSessions(x) /\ StaysAllowed(x)
      BY <1>1, <2>1, <2>2, <2>3
      DEF GoodRequest, RequestOK, HoldsOK, CoversTokens, Revoking, CoversSessions, StaysAllowed
    <2>6. \A q \in Proc \ {p} : Apart(request[q], x)
      BY <2>3, Locks, RequestFacts DEF GuardToken, TokensFree, Apart
    <2> HIDE DEF x
    <2>7. QED
      BY <1>2, <2>1, <2>2, <2>4, <2>5, <2>6 DEF GoodStep, GoodRequest, RequestOK
  <1>5. QED
    BY <1>3, <1>4

\* The update of the sessions that are still ACTIVE; what a policy removal leaves out had
\* ended, so it still covers every usable session.
LEMMA UpdateSessionsIsGood ==
    ASSUME SafeInv, NEW p \in Proc, UpdateSessions(p)
    PROVE  GoodStep(p)
  <1> DEFINE r == request[p]
             rows == {s \in r.sessions : session[s].status = "ACTIVE"}
             x == [r EXCEPT !.pc = "scanTokens", !.sessions = rows]
  <1>1. r \in RequestState /\ GoodRequest(r) /\ r.kind \in Revoking /\ r.pc = "sessions"
    BY RequestFacts DEF GoodRequest, Serves, UpdateSessions
  <1>2. UNCHANGED <<tables, past>>
    BY DEF UpdateSessions
  <1>3. CASE request' = [request EXCEPT ![p] = Idle]
    BY <1>2, <1>3, EndIsGood DEF End
  <1>4. CASE request' # [request EXCEPT ![p] = Idle]
    <2>1. request' = [request EXCEPT ![p] = x]
      BY <1>4 DEF UpdateSessions
    <2>2. rows \in SUBSET Session
      BY <1>1 DEF RequestState
    <2>3. /\ x \in RequestState /\ x.kind = r.kind /\ x.app = r.app /\ x.users = r.users
          /\ x.sessions = rows /\ x.pc = "scanTokens"
      BY <1>1, <2>2 DEF RequestState, Pc
    <2>4. SessionLocks(x) = rows /\ TokenLocks(x) = {} /\ CodeLocks(x) = {}
      BY <1>1, <2>3 DEF SessionLocks, TokenLocks, CodeLocks
    <2>5. Serves(x) /\ Names(x)
      BY <1>1, <2>3 DEF GoodRequest, Serves, Names, Revoking, Revokes
    <2>6. HoldsOK(x) /\ CoversTokens(x) /\ StaysAllowed(x)
      BY <1>1, <2>3, <2>4 DEF HoldsOK, CoversTokens, StaysAllowed
    <2>7. CoversSessions(x)
      BY <1>1, <2>3 DEF GoodRequest, RequestOK, CoversSessions, Revokes
    <2>8. \A q \in Proc \ {p} : Apart(request[q], x)
      BY <2>4, Locks DEF UpdateSessions, SessionsFree, Apart
    <2> HIDE DEF x
    <2>9. QED
      BY <1>2, <2>1, <2>3, <2>5, <2>6, <2>7, <2>8 DEF GoodStep, GoodRequest, RequestOK
  <1>5. QED
    BY <1>3, <1>4

\* revokeSecurityState looks for the tokens of the user, who owns the sessions it has
\* revoked; logout for those of the session.
LEMMA ScanTokensIsGood ==
    ASSUME SafeInv, NEW p \in Proc, ScanTokens(p)
    PROVE  GoodStep(p)
  <1> DEFINE r == request[p]
             rows == {t \in Token : token[t].status = "ACTIVE" /\ Concerns(p, t)}
             x == [r EXCEPT !.pc = "tokens", !.tokens = rows]
  <1>1. r \in RequestState /\ GoodRequest(r) /\ r.kind \in Revoking /\ r.pc = "scanTokens"
    BY RequestFacts DEF GoodRequest, Serves, ScanTokens
  <1>2. rows \in SUBSET Token
    OBVIOUS
  <1>3. /\ x \in RequestState /\ x.kind = r.kind /\ x.app = r.app /\ x.users = r.users
        /\ x.sessions = r.sessions /\ x.tokens = rows /\ x.pc = "tokens"
    BY <1>1, <1>2 DEF RequestState, Pc
  <1>4. SessionLocks(x) = SessionLocks(r) /\ TokenLocks(x) = {} /\ CodeLocks(x) = {}
    BY <1>1, <1>3 DEF SessionLocks, TokenLocks, CodeLocks
  <1>5. Serves(x) /\ Names(x)
    BY <1>1, <1>3 DEF GoodRequest, Serves, Names, Revoking, Revokes
  <1>6. CoversTokens(x)
    <2>1. ASSUME NEW t \in Token, token[t].status = "ACTIVE", SessionOf(t) \in r.sessions
          PROVE  Concerns(p, t)
      BY <1>1, <2>1 DEF Concerns, GoodRequest, Names, Revoking, ByUser, Revokes
    <2>2. QED
      BY <1>3, <2>1 DEF CoversTokens
  <1>7. HoldsOK(x) /\ CoversSessions(x) /\ StaysAllowed(x)
    BY <1>1, <1>3, <1>4
    DEF GoodRequest, RequestOK, HoldsOK, CoversSessions, Revokes, StaysAllowed
  <1>8. \A q \in Proc \ {p} : Apart(request[q], x)
    BY <1>4, RequestFacts DEF Apart
  <1>9. request' = [request EXCEPT ![p] = x] /\ UNCHANGED <<tables, past>>
    BY DEF ScanTokens
  <1> HIDE DEF x
  <1>10. QED
    BY <1>3, <1>5, <1>6, <1>7, <1>8, <1>9 DEF GoodStep, GoodRequest, RequestOK

LEMMA UpdateTokensIsGood ==
    ASSUME SafeInv, NEW p \in Proc, UpdateTokens(p)
    PROVE  GoodStep(p)
  <1> DEFINE r == request[p]
             rows == {t \in r.tokens : token[t].status = "ACTIVE"}
             x == [r EXCEPT !.pc = "commit", !.tokens = rows]
  <1>1. r \in RequestState /\ GoodRequest(r) /\ r.kind \in Revoking /\ r.pc = "tokens"
    BY RequestFacts DEF GoodRequest, Serves, UpdateTokens
  <1>2. rows \in SUBSET Token
    BY <1>1 DEF RequestState
  <1>3. /\ x \in RequestState /\ x.kind = r.kind /\ x.app = r.app /\ x.users = r.users
        /\ x.sessions = r.sessions /\ x.tokens = rows /\ x.pc = "commit"
    BY <1>1, <1>2 DEF RequestState, Pc
  <1>4. SessionLocks(x) = SessionLocks(r) /\ TokenLocks(x) = rows /\ CodeLocks(x) = {}
    BY <1>1, <1>3 DEF SessionLocks, TokenLocks, CodeLocks, Revoking
  <1>5. Serves(x) /\ Names(x)
    BY <1>1, <1>3 DEF GoodRequest, Serves, Names, Revoking, Revokes
  <1>6. CoversTokens(x)
    BY <1>1, <1>3 DEF GoodRequest, RequestOK, CoversTokens
  <1>7. HoldsOK(x) /\ CoversSessions(x) /\ StaysAllowed(x)
    BY <1>1, <1>3, <1>4
    DEF GoodRequest, RequestOK, HoldsOK, CoversSessions, Revokes, Revoking, StaysAllowed
  <1>8. \A q \in Proc \ {p} : Apart(request[q], x)
    <2>1. \A q \in Proc \ {p} : TokenLocks(request[q]) \cap r.tokens = {}
      BY Locks DEF UpdateTokens, TokensFree
    <2>2. QED
      BY <1>4, <2>1, RequestFacts DEF Apart
  <1>9. request' = [request EXCEPT ![p] = x] /\ UNCHANGED <<tables, past>>
    BY DEF UpdateTokens
  <1> HIDE DEF x
  <1>10. QED
    BY <1>3, <1>5, <1>6, <1>7, <1>8, <1>9 DEF GoodStep, GoodRequest, RequestOK

LEMMA FailIsGood == ASSUME NEW p \in Proc, Fail(p) PROVE GoodStep(p)
  BY EndIsGood DEF Fail

-----------------------------------------------------------------------------
(* Steps that write the tables                                             *)

\* Rows are never deleted, and what a code or a token refers to never changes.
Forward ==
    /\ \A s \in Session : session[s].status # "NONE" => session'[s].status # "NONE"
    /\ \A k \in Code : code[k].status # "NONE" =>
         /\ code'[k].status # "NONE"
         /\ code'[k].app = code[k].app /\ code'[k].session = code[k].session
    /\ \A t \in Token : token[t].status # "NONE" =>
         token'[t].status # "NONE" /\ token'[t].code = token[t].code

\* What the other requests need of a step: it leaves the rows they have locked as they
\* are, makes no token of a session they have locked and no code for an application they
\* have locked, and takes the policy from a userinfo only with its session.
Respects(y) ==
    /\ \A s \in SessionLocks(y) : session'[s].status = "ACTIVE"
    /\ \A t \in TokenLocks(y) : token'[t].status = "ACTIVE"
    /\ \A k \in CodeLocks(y) : code'[k].status = "ISSUED"
    /\ \A t \in Token :
         token'[t].status = "ACTIVE" /\ code'[token'[t].code].session \in SessionLocks(y)
         => token[t].status = "ACTIVE"
    /\ \A s \in Session : session'[s].status = "ACTIVE" => session[s].status \in {"ACTIVE", "NONE"}
    /\ y.kind = "policy" /\ Revokes(y) =>
         \A k \in Code : code'[k].status # "NONE" /\ code'[k].app = y.app => code[k].status # "NONE"
    /\ y.kind = "userinfo" /\ y.app \in policy =>
         y.app \in policy' \/ \A s \in y.sessions : session'[s].status # "ACTIVE"

LEMMA TokenSession ==
    ASSUME SafeInv, Forward, NEW t \in Token, token[t].status # "NONE"
    PROVE  SessionOf(t)' = SessionOf(t)
  BY TokenCode DEF Forward, SessionOf

LEMMA NamesKept ==
    ASSUME SafeInv, Forward, NEW q \in Proc, NEW y, y = request[q]
    PROVE  Names(y)'
  <1>1. y \in RequestState /\ Names(y)
    BY RequestFacts DEF GoodRequest
  <1>2. y.sessions \subseteq Session
    BY <1>1 DEF RequestState
  <1>3. CASE y.kind = "userinfo"
    <2>1. PICK t \in Token : /\ y.tokens = {t} /\ token[t].status # "NONE"
                             /\ y.app = code[token[t].code].app /\ y.sessions = {SessionOf(t)}
      BY <1>1, <1>3 DEF Names
    <2>2. /\ token'[t].status # "NONE" /\ y.app = code'[token'[t].code].app
          /\ y.sessions = {SessionOf(t)'}
      BY <2>1, TokenCode, TokenSession DEF Forward
    <2>3. QED
      BY <1>3, <2>1, <2>2 DEF Names, ByUser
  <1>4. CASE y.kind # "userinfo"
    BY <1>1, <1>2, <1>4 DEF Names, Forward
  <1>5. QED
    BY <1>3, <1>4

LEMMA RequestKept ==
    ASSUME SafeInv, Forward, NEW q \in Proc, NEW y, y = request[q], Respects(y)
    PROVE  RequestOK(y)'
  <1>1. y \in RequestState /\ Names(y) /\ RequestOK(y)
    BY RequestFacts DEF GoodRequest
  <1>2. HoldsOK(y)'
    BY DEF Respects, HoldsOK, SessionLocks, TokenLocks, CodeLocks
  <1>3. CoversTokens(y)'
    <2>1. ASSUME y.kind \in Revoking, y.pc \in {"tokens", "commit"}, NEW t \in Token,
                 token'[t].status = "ACTIVE", SessionOf(t)' \in y.sessions
          PROVE  t \in y.tokens
      <3>1. token[t].status = "ACTIVE"
        BY <2>1 DEF Respects, SessionLocks, SessionOf
      <3>2. SessionOf(t) \in y.sessions
        BY <2>1, <3>1, TokenSession
      <3>3. QED
        BY <1>1, <2>1, <3>1, <3>2 DEF RequestOK, CoversTokens
    <2>2. QED
      BY <2>1 DEF CoversTokens
  <1>4. CoversSessions(y)'
    <2>1. ASSUME y.kind = "policy", Revokes(y), NEW k \in Code,
                 code'[k].status # "NONE", code'[k].app = y.app,
                 session'[code'[k].session].status = "ACTIVE"
          PROVE  code'[k].session \in y.sessions
      <3>1. code[k].status # "NONE"
        BY <2>1 DEF Respects
      <3>2. code'[k].app = code[k].app /\ code'[k].session = code[k].session
        BY <3>1 DEF Forward
      <3>3. code[k].session \in Session /\ session[code[k].session].status # "NONE"
        BY <3>1 DEF SafeInv, TypeInv, TypeOK, RowsOK
      <3>4. session[code[k].session].status = "ACTIVE"
        BY <2>1, <3>2, <3>3 DEF Respects
      <3>5. QED
        BY <1>1, <2>1, <3>1, <3>2, <3>4 DEF RequestOK, CoversSessions
    <2>2. QED
      BY <2>1 DEF CoversSessions, Revokes
  <1>5. StaysAllowed(y)'
    <2>1. CASE y.kind # "userinfo" \/ y.app \in policy
      BY <2>1 DEF Respects, StaysAllowed
    <2>2. ASSUME y.kind = "userinfo", y.pc \in {"touch", "guard", "commit"}, y.app \notin policy
          PROVE  \A s \in y.sessions : session'[s].status # "ACTIVE"
      <3>1. PICK t \in Token : token[t].status # "NONE" /\ y.sessions = {SessionOf(t)}
        BY <1>1, <2>2 DEF Names
      <3>2. SessionOf(t) \in Session /\ session[SessionOf(t)].status # "NONE"
        BY <3>1, TokenCode DEF SafeInv, TypeInv, RowsOK, SessionOf
      <3>3. session[SessionOf(t)].status # "ACTIVE"
        BY <1>1, <2>2, <3>1 DEF RequestOK, StaysAllowed
      <3>4. QED
        BY <3>1, <3>2, <3>3 DEF Respects
    <2>3. QED
      BY <2>1, <2>2 DEF StaysAllowed
  <1>6. QED
    BY <1>2, <1>3, <1>4, <1>5 DEF RequestOK

\* P: the request, if any, that the step ends.
LEMMA TablesStep ==
    ASSUME SafeInv, NEW P,
           \A q \in Proc : request'[q] = IF q \in P THEN Idle ELSE request[q],
           TypeOK', RowsOK', Forward, \A q \in Proc \ P : Respects(request[q]),
           NoTokenOutlivesRevocation', RevocationsAreAnnouncedOnce'
    PROVE  SafeInv'
  <1>1. ASSUME NEW q \in Proc
        PROVE  Serves(request[q])' /\ Names(request[q])' /\ RequestOK(request[q])'
    <2>1. CASE q \in P
      <3>1. Serves(Idle) /\ Names(Idle)' /\ RequestOK(Idle)'
        <4>1. Idle.pc \notin Locking
          BY IdleType DEF Locking
        <4>2. Serves(Idle)
          BY IdleGood DEF GoodRequest
        <4>3. Names(Idle)'
          BY IdleType DEF Names, ByUser
        <4>4. HoldsOK(Idle)' /\ CoversTokens(Idle)' /\ CoversSessions(Idle)' /\ StaysAllowed(Idle)'
          BY IdleType DEF HoldsOK, SessionLocks, TokenLocks, CodeLocks, CoversTokens,
                          CoversSessions, StaysAllowed
        <4>5. QED
          BY <4>2, <4>3, <4>4 DEF RequestOK
      <3>2. PICK y : y = Idle
        OBVIOUS
      <3>3. request'[q] = y
        BY <2>1, <3>2
      <3>4. QED
        BY <3>1, <3>2, <3>3, SameRequest
    <2>2. CASE q \notin P
      <3>1. PICK y : y = request[q]
        OBVIOUS
      <3>2. Serves(y) /\ Respects(y)
        BY <2>2, <3>1 DEF SafeInv, TypeInv
      <3>3. Names(y)' /\ RequestOK(y)'
        BY <3>1, <3>2, NamesKept, RequestKept
      <3>4. request'[q] = y
        BY <2>2, <3>1
      <3>5. QED
        BY <3>2, <3>3, <3>4, SameRequest
    <2>3. QED
      BY <2>1, <2>2
  <1>2. ASSUME NEW q \in Proc, NEW r \in Proc, q # r
        PROVE  Apart(request'[q], request'[r])
    BY <1>2, IdleGood, ApartIsSymmetric DEF SafeInv
  <1>3. \A q, r \in Proc : q # r => Apart(request[q], request[r])'
    BY <1>2 DEF Apart, SessionLocks, TokenLocks, CodeLocks
  <1>4. QED
    BY <1>1, <1>3 DEF SafeInv, TypeInv

LEMMA Ending ==
    ASSUME SafeInv, NEW p \in Proc, End(p)
    PROVE  /\ request' \in [Proc -> RequestState]
           /\ \A q \in Proc : request'[q] = IF q \in {p} THEN Idle ELSE request[q]
  BY IdleType DEF End, SafeInv, TypeInv, TypeOK

\* Rows that a request has locked are what it found, and no other request has them.
LEMMA LockFacts ==
    ASSUME SafeInv, NEW q \in Proc
    PROVE  /\ SessionLocks(request[q]) \subseteq Session /\ TokenLocks(request[q]) \subseteq Token
           /\ HoldsOK(request[q])
           /\ \A p \in Proc \ {q} : Apart(request[p], request[q])
  BY RequestFacts DEF GoodRequest, RequestOK, SessionLocks, TokenLocks, RequestState

\* A code that a request has locked is one of the table's.
LEMMA CodeLockType ==
    ASSUME SafeInv, NEW q \in Proc
    PROVE  CodeLocks(request[q]) \subseteq Code
  BY RequestFacts DEF GoodRequest, Names, CodeLocks

LEMMA IssueSessionKeepsSafeInv ==
    ASSUME SafeInv, NEW p \in Proc, NEW s \in Session, IssueSession(p, s)
    PROVE  SafeInv'
  <1>1. /\ session[s].status = "NONE" /\ session[s].by = "none" /\ End(p)
        /\ UNCHANGED <<accounts, code, token, outbox, past>>
    BY DEF IssueSession, SafeInv, TypeInv, RowsOK
  <1>2. /\ session' \in [Session -> SessionRow]
        /\ session'[s].status = "ACTIVE" /\ session'[s].by = "none"
        /\ \A x \in Session \ {s} : session'[x] = session[x]
    BY RequestFacts DEF IssueSession, SafeInv, TypeInv, TypeOK, SessionRow, Status, RequestState
  <1>3. TypeOK'
    BY <1>1, <1>2, Ending DEF SafeInv, TypeInv, TypeOK, accounts, outbox
  <1>4. RowsOK'
    BY <1>1, <1>2 DEF SafeInv, TypeInv, TypeOK, RowsOK
  <1>5. Forward
    BY <1>1, <1>2 DEF Forward
  <1>6. ASSUME NEW q \in Proc \ {p} PROVE Respects(request[q])
    <2>1. /\ s \notin SessionLocks(request[q])
          /\ \A x \in SessionLocks(request[q]) : session'[x].status = "ACTIVE"
      BY <1>1, <1>2, LockFacts DEF HoldsOK
    <2>2. QED
      BY <1>1, <1>2, <2>1, LockFacts DEF Respects, HoldsOK, accounts
  <1>7. NoTokenOutlivesRevocation'
    <2>1. ASSUME NEW t \in Token, token[t].status = "ACTIVE"
          PROVE  session'[SessionOf(t)].status # "REVOKED"
      BY <1>2, <2>1, TokenCode DEF SafeInv, NoTokenOutlivesRevocation
    <2>2. QED
      BY <1>1, <2>1 DEF NoTokenOutlivesRevocation, SessionOf
  <1>8. RevocationsAreAnnouncedOnce'
    BY <1>1, <1>2 DEF SafeInv, RevocationsAreAnnouncedOnce, outbox
  <1>9. \A q \in Proc : request'[q] = IF q \in {p} THEN Idle ELSE request[q]
    BY <1>1, Ending
  <1>10. QED
    BY <1>1, <1>3, <1>4, <1>5, <1>6, <1>7, <1>8, <1>9, TablesStep

LEMMA ExpireSessionKeepsSafeInv ==
    ASSUME SafeInv, NEW p \in Proc, ExpireSession(p)
    PROVE  SafeInv'
  <1> DEFINE rows == {s \in request[p].sessions : session[s].status = "ACTIVE"}
  <1>1. End(p) /\ UNCHANGED <<accounts, code, token, outbox, past>>
    BY DEF ExpireSession
  <1>2. /\ session' \in [Session -> SessionRow]
        /\ \A s \in Session : s \in rows =>
             session[s].status = "ACTIVE" /\ session'[s].status = "EXPIRED"
             /\ session'[s].by = session[s].by
        /\ \A s \in Session : s \notin rows => session'[s] = session[s]
    BY DEF ExpireSession, SafeInv, TypeInv, TypeOK, SessionRow, Status
  <1>3. TypeOK'
    BY <1>1, <1>2, Ending DEF SafeInv, TypeInv, TypeOK, accounts, outbox
  <1>4. RowsOK'
    BY <1>1, <1>2 DEF SafeInv, TypeInv, TypeOK, RowsOK
  <1>5. Forward
    BY <1>1, <1>2 DEF Forward
  <1>6. ASSUME NEW q \in Proc \ {p} PROVE Respects(request[q])
    <2>1. SessionLocks(request[q]) \cap rows = {}
      BY Locks DEF ExpireSession, SessionsFree
    <2>2. \A s \in SessionLocks(request[q]) : session'[s].status = "ACTIVE"
      BY <1>2, <2>1, LockFacts DEF HoldsOK
    <2>3. \A s \in Session : session'[s].status = "ACTIVE" => session[s].status = "ACTIVE"
      BY <1>2
    <2>4. QED
      BY <1>1, <2>2, <2>3, LockFacts DEF Respects, HoldsOK, accounts
  <1>7. NoTokenOutlivesRevocation'
    <2>1. ASSUME NEW t \in Token, token[t].status = "ACTIVE"
          PROVE  session'[SessionOf(t)].status # "REVOKED"
      BY <1>2, <2>1, TokenCode DEF SafeInv, NoTokenOutlivesRevocation
    <2>2. QED
      BY <1>1, <2>1 DEF NoTokenOutlivesRevocation, SessionOf
  <1>8. RevocationsAreAnnouncedOnce'
    <2>1. \A s \in Session : session'[s].by = session[s].by
      BY <1>2
    <2>2. QED
      BY <1>1, <2>1 DEF SafeInv, RevocationsAreAnnouncedOnce, outbox
  <1>9. \A q \in Proc : request'[q] = IF q \in {p} THEN Idle ELSE request[q]
    BY <1>1, Ending
  <1>10. QED
    BY <1>1, <1>3, <1>4, <1>5, <1>6, <1>7, <1>8, <1>9, TablesStep

LEMMA IssueCodeKeepsSafeInv ==
    ASSUME SafeInv, NEW p \in Proc, NEW k \in Code, IssueCode(p, k)
    PROVE  SafeInv'
  <1> DEFINE r == request[p]
  <1>1. /\ code[k].status = "NONE" /\ End(p)
        /\ UNCHANGED <<accounts, session, token, outbox, past>>
        /\ \A q \in Proc : ~HoldsApp(q, r.app)
    BY DEF IssueCode
  <1>2. r.app \in App /\ \A s \in r.sessions : s \in Session /\ session[s].status # "NONE"
    BY RequestFacts DEF IssueCode, GoodRequest, Serves, Names, RequestState
  <1>3. PICK s \in r.sessions :
          code' = [code EXCEPT ![k] = [status |-> "ISSUED", session |-> s, app |-> r.app]]
    BY DEF IssueCode
  <1>4. /\ code' \in [Code -> CodeRow]
        /\ code'[k].status = "ISSUED" /\ code'[k].session = s /\ code'[k].app = r.app
        /\ \A j \in Code \ {k} : code'[j] = code[j]
    BY <1>2, <1>3 DEF SafeInv, TypeInv, TypeOK, CodeRow
  <1>5. ASSUME NEW t \in Token, token[t].status # "NONE"
        PROVE  token[t].code \in Code \ {k}
    BY <1>1, <1>5, TokenCode
  <1>6. TypeOK'
    BY <1>1, <1>2, <1>4, <1>5, Ending DEF SafeInv, TypeInv, TypeOK, accounts, outbox
  <1>7. RowsOK'
    BY <1>1, <1>2, <1>4 DEF SafeInv, TypeInv, RowsOK
  <1>8. Forward
    BY <1>1, <1>4 DEF Forward
  <1>9. ASSUME NEW q \in Proc \ {p} PROVE Respects(request[q])
    <2>1. \A j \in CodeLocks(request[q]) : code'[j].status = "ISSUED"
      BY <1>1, <1>4, LockFacts, CodeLockType DEF HoldsOK
    <2>2. ASSUME NEW t \in Token, token'[t].status = "ACTIVE" PROVE token[t].status = "ACTIVE"
      BY <1>1, <2>2
    <2>3. ASSUME request[q].kind = "policy", Revokes(request[q]), NEW j \in Code,
                 code'[j].status # "NONE", code'[j].app = request[q].app
          PROVE  code[j].status # "NONE"
      <3>1. HoldsApp(q, request[q].app)
        BY <2>3 DEF HoldsApp, PastLock, Revokes
      <3>2. request[q].app # r.app
        BY <1>1, <3>1
      <3>3. QED
        BY <1>4, <2>3, <3>2
    <2>4. QED
      BY <1>1, <2>1, <2>2, <2>3, LockFacts DEF Respects, HoldsOK, accounts
  <1>10. NoTokenOutlivesRevocation'
    BY <1>1, <1>8, TokenSession DEF SafeInv, NoTokenOutlivesRevocation
  <1>11. RevocationsAreAnnouncedOnce'
    BY <1>1 DEF SafeInv, RevocationsAreAnnouncedOnce, outbox
  <1>12. \A q \in Proc : request'[q] = IF q \in {p} THEN Idle ELSE request[q]
    BY <1>1, Ending
  <1>13. QED
    BY <1>1, <1>6, <1>7, <1>8, <1>9, <1>10, <1>11, <1>12, TablesStep

\* The exchange holds its session, so the session of the new token is in no revocation
\* that has looked for tokens already; and it holds its code, which nobody has used.
LEMMA ExchangeFacts ==
    ASSUME SafeInv, NEW p \in Proc, NEW t \in Token, CommitExchange(p, t)
    PROVE  /\ request[p].code \in Code /\ code[request[p].code].status = "ISSUED"
           /\ request[p].sessions = {code[request[p].code].session}
           /\ SessionLocks(request[p]) = request[p].sessions
           /\ code[request[p].code].session \in Session
           /\ session[code[request[p].code].session].status = "ACTIVE"
           /\ token' \in [Token -> TokenRow]
           /\ token'[t].status = "ACTIVE" /\ token'[t].code = request[p].code
           /\ token[t].status = "NONE"
           /\ \A v \in Token \ {t} : token'[v] = token[v]
           /\ code' \in [Code -> CodeRow]
           /\ code'[request[p].code].status = "USED"
           /\ \A k \in Code : /\ code'[k].app = code[k].app /\ code'[k].session = code[k].session
                              /\ k # request[p].code => code'[k] = code[k]
  <1> DEFINE k == request[p].code
  <1>1. /\ k \in Code /\ request[p].sessions = {code[k].session}
        /\ HoldsOK(request[p])
    BY RequestFacts DEF GoodRequest, RequestOK, Names, CommitExchange
  <1>2. SessionLocks(request[p]) = request[p].sessions /\ CodeLocks(request[p]) = {k}
    BY DEF CommitExchange, SessionLocks, CodeLocks
  <1>3. code[k].status = "ISSUED" /\ session[code[k].session].status = "ACTIVE"
    BY <1>1, <1>2 DEF HoldsOK
  <1>4. code[k].session \in Session
    BY <1>1, <1>3 DEF SafeInv, TypeInv, TypeOK
  <1>5. /\ token' \in [Token -> TokenRow]
        /\ token'[t].status = "ACTIVE" /\ token'[t].code = k
        /\ token[t].status = "NONE"
        /\ \A v \in Token \ {t} : token'[v] = token[v]
    BY <1>1 DEF CommitExchange, SafeInv, TypeInv, TypeOK, TokenRow, Status
  <1>6. /\ code' \in [Code -> CodeRow]
        /\ code'[k].status = "USED"
        /\ \A j \in Code : /\ code'[j].app = code[j].app /\ code'[j].session = code[j].session
                           /\ j # k => code'[j] = code[j]
    BY <1>1 DEF CommitExchange, SafeInv, TypeInv, TypeOK, CodeRow
  <1>7. QED
    BY <1>1, <1>2, <1>3, <1>4, <1>5, <1>6

LEMMA CommitExchangeKeepsSafeInv ==
    ASSUME SafeInv, NEW p \in Proc, NEW t \in Token, CommitExchange(p, t)
    PROVE  SafeInv'
  <1> DEFINE r == request[p]
             s == code[r.code].session
  <1>1. End(p) /\ UNCHANGED <<accounts, session, outbox, past>>
    BY DEF CommitExchange
  <1>2. \A v \in Token : token[v].status # "NONE" => v # t /\ token[v].code # r.code
    BY ExchangeFacts, TokenCode
  <1>3. TypeOK'
    <2>1. \A k \in Code : code'[k].status # "NONE" =>
            code'[k].session \in Session /\ code'[k].app \in App
      BY ExchangeFacts DEF SafeInv, TypeInv, TypeOK
    <2>2. ASSUME NEW v \in Token, token'[v].status # "NONE"
          PROVE  token'[v].code \in Code /\ code'[token'[v].code].status = "USED"
      <3>1. CASE v = t
        BY <3>1, ExchangeFacts
      <3>2. CASE v # t
        BY <1>2, <2>2, <3>2, ExchangeFacts, TokenCode
      <3>3. QED
        BY <3>1, <3>2
    <2>3. QED
      BY <1>1, <2>1, <2>2, ExchangeFacts, Ending DEF SafeInv, TypeInv, TypeOK, accounts, outbox
  <1>4. RowsOK'
    BY <1>1, ExchangeFacts DEF SafeInv, TypeInv, RowsOK
  <1>5. Forward
    BY <1>1, <1>2, ExchangeFacts DEF Forward
  <1>6. ASSUME NEW q \in Proc \ {p} PROVE Respects(request[q])
    <2>1. s \notin SessionLocks(request[q]) /\ r.code \notin CodeLocks(request[q])
      <3>1. r.kind = "exchange" /\ r.pc = "commit"
        BY DEF CommitExchange
      <3>2. s \in SessionLocks(r) /\ r.code \in CodeLocks(r)
        BY <3>1, ExchangeFacts DEF CodeLocks
      <3>3. Apart(request[q], r)
        BY RequestFacts
      <3>4. QED
        BY <3>2, <3>3 DEF Apart
    <2>2. \A k \in CodeLocks(request[q]) : code'[k].status = "ISSUED"
      BY <2>1, ExchangeFacts, LockFacts, CodeLockType DEF HoldsOK
    <2>3. ASSUME NEW v \in Token, token'[v].status = "ACTIVE",
                 code'[token'[v].code].session \in SessionLocks(request[q])
          PROVE  token[v].status = "ACTIVE"
      BY <2>1, <2>3, ExchangeFacts
    <2>4. \A v \in TokenLocks(request[q]) : token'[v].status = "ACTIVE"
      BY <1>2, ExchangeFacts, LockFacts DEF HoldsOK
    <2>5. \A k \in Code : code'[k].status # "NONE" => code[k].status # "NONE"
      BY ExchangeFacts
    <2>6. QED
      BY <1>1, <2>2, <2>3, <2>4, <2>5, LockFacts DEF Respects, HoldsOK, accounts
  <1>7. NoTokenOutlivesRevocation'
    <2>1. ASSUME NEW v \in Token, token'[v].status = "ACTIVE"
          PROVE  session[SessionOf(v)'].status # "REVOKED"
      <3>1. CASE v = t
        BY <3>1, ExchangeFacts DEF SessionOf
      <3>2. CASE v # t
        BY <1>5, <2>1, <3>2, ExchangeFacts, TokenSession DEF SafeInv, NoTokenOutlivesRevocation
      <3>3. QED
        BY <3>1, <3>2
    <2>2. QED
      BY <1>1, <2>1 DEF NoTokenOutlivesRevocation
  <1>8. RevocationsAreAnnouncedOnce'
    BY <1>1 DEF SafeInv, RevocationsAreAnnouncedOnce, outbox
  <1>9. \A q \in Proc : request'[q] = IF q \in {p} THEN Idle ELSE request[q]
    BY <1>1, Ending
  <1>10. QED
    BY <1>1, <1>3, <1>4, <1>5, <1>6, <1>7, <1>8, <1>9, TablesStep

\* Steps that write nothing but the status of some tokens, of which none becomes ACTIVE.
LEMMA TokensStep ==
    ASSUME SafeInv, NEW p \in Proc, End(p),
           UNCHANGED <<accounts, session, code, outbox, past>>,
           token' \in [Token -> TokenRow],
           \A t \in Token : token'[t].code = token[t].code,
           \A t \in Token : token'[t].status = "NONE" <=> token[t].status = "NONE",
           \A t \in Token : token'[t].status = "ACTIVE" => token[t].status = "ACTIVE",
           \A q \in Proc \ {p} : \A t \in TokenLocks(request[q]) : token'[t].status = "ACTIVE"
    PROVE  SafeInv'
  <1>1. TypeOK'
    BY Ending DEF SafeInv, TypeInv, TypeOK, accounts, outbox
  <1>2. RowsOK'
    BY DEF SafeInv, TypeInv, RowsOK
  <1>3. Forward
    BY DEF Forward
  <1>4. ASSUME NEW q \in Proc \ {p} PROVE Respects(request[q])
    BY LockFacts DEF Respects, HoldsOK, accounts
  <1>5. NoTokenOutlivesRevocation'
    BY <1>3, TokenSession DEF SafeInv, NoTokenOutlivesRevocation
  <1>6. RevocationsAreAnnouncedOnce'
    BY DEF SafeInv, RevocationsAreAnnouncedOnce, outbox
  <1>7. \A q \in Proc : request'[q] = IF q \in {p} THEN Idle ELSE request[q]
    BY Ending
  <1>8. QED
    BY <1>1, <1>2, <1>3, <1>4, <1>5, <1>6, <1>7, TablesStep

LEMMA ExpireTokenKeepsSafeInv ==
    ASSUME SafeInv, NEW p \in Proc, ExpireToken(p)
    PROVE  SafeInv'
  <1> DEFINE rows == {t \in request[p].tokens : token[t].status = "ACTIVE"}
  <1>1. End(p) /\ UNCHANGED <<accounts, session, code, outbox, past>>
    BY DEF ExpireToken
  <1>2. /\ token' \in [Token -> TokenRow]
        /\ \A t \in Token : t \in rows =>
             /\ token[t].status = "ACTIVE" /\ token'[t].status = "EXPIRED"
             /\ token'[t].code = token[t].code
        /\ \A t \in Token : t \notin rows => token'[t] = token[t]
    BY DEF ExpireToken, SafeInv, TypeInv, TypeOK, TokenRow, Status
  <1>3. ASSUME NEW q \in Proc \ {p}, NEW t \in TokenLocks(request[q])
        PROVE  token'[t].status = "ACTIVE"
    <2>1. t \notin rows
      BY Locks DEF ExpireToken, TokensFree
    <2>2. t \in Token /\ token[t].status = "ACTIVE"
      BY LockFacts DEF HoldsOK
    <2>3. QED
      BY <1>2, <2>1, <2>2
  <1>4. \A t \in Token : /\ token'[t].code = token[t].code
                         /\ token'[t].status = "NONE" <=> token[t].status = "NONE"
                         /\ token'[t].status = "ACTIVE" => token[t].status = "ACTIVE"
    BY <1>2
  <1>5. QED
    BY <1>1, <1>2, <1>3, <1>4, TokensStep

\* userinfo writes ACTIVE to a token that is ACTIVE: it has kept the row since GuardToken.
LEMMA AnswerLeavesTokens ==
    ASSUME SafeInv, NEW p \in Proc, Answer(p)
    PROVE  /\ \A t \in request[p].tokens : t \in Token /\ token[t].status = "ACTIVE"
           /\ \A t \in Token : token'[t] = token[t]
           /\ token' \in [Token -> TokenRow]
  <1>1. \A t \in request[p].tokens : t \in Token /\ token[t].status = "ACTIVE"
    BY LockFacts DEF Answer, TokenLocks, HoldsOK
  <1>2. ASSUME NEW t \in Token PROVE token'[t] = token[t]
    <2>1. token[t] \in TokenRow
      BY DEF SafeInv, TypeInv, TypeOK
    <2>2. CASE t \in request[p].tokens
      <3>1. token[t].status = "ACTIVE"
        BY <1>1, <2>2
      <3>2. [token[t] EXCEPT !.status = "ACTIVE"] = token[t]
        BY <2>1, <3>1 DEF TokenRow
      <3>3. QED
        BY <2>2, <3>2 DEF Answer
    <2>3. CASE t \notin request[p].tokens
      BY <2>3 DEF Answer
    <2>4. QED
      BY <2>2, <2>3
  <1>3. token' \in [Token -> TokenRow]
    BY DEF Answer, SafeInv, TypeInv, TypeOK, TokenRow, Status
  <1>4. QED
    BY <1>1, <1>2, <1>3

LEMMA AnswerKeepsSafeInv ==
    ASSUME SafeInv, NEW p \in Proc, Answer(p)
    PROVE  SafeInv'
  <1>1. End(p) /\ UNCHANGED <<accounts, session, code, outbox, past>>
    BY DEF Answer
  <1>2. token' \in [Token -> TokenRow] /\ \A t \in Token : token'[t] = token[t]
    BY AnswerLeavesTokens
  <1>3. \A q \in Proc \ {p} : \A t \in TokenLocks(request[q]) : token'[t].status = "ACTIVE"
    BY <1>2, LockFacts DEF HoldsOK
  <1>4. \A t \in Token : /\ token'[t].code = token[t].code
                         /\ token'[t].status = "NONE" <=> token[t].status = "NONE"
                         /\ token'[t].status = "ACTIVE" => token[t].status = "ACTIVE"
    BY <1>2
  <1>5. QED
    BY <1>1, <1>2, <1>3, <1>4, TokensStep

\* The sessions and the tokens that a revocation ends are those it has locked.
LEMMA RevocationFacts ==
    ASSUME SafeInv, NEW p \in Proc, CommitRevocation(p)
    PROVE  /\ request[p].kind \in Revoking /\ request[p].pc = "commit"
           /\ \A s \in request[p].sessions : s \in Session /\ session[s].status = "ACTIVE"
           /\ \A t \in request[p].tokens : t \in Token /\ token[t].status = "ACTIVE"
           /\ session' \in [Session -> SessionRow]
           /\ \A s \in Session :
                IF s \in request[p].sessions
                  THEN session'[s].status = "REVOKED" /\ session'[s].by = request[p].kind
                  ELSE session'[s] = session[s]
           /\ token' \in [Token -> TokenRow]
           /\ \A t \in Token :
                IF t \in request[p].tokens
                  THEN token'[t].status = "REVOKED" /\ token'[t].code = token[t].code
                  ELSE token'[t] = token[t]
           /\ End(p) /\ UNCHANGED <<code, past>>
  <1>1. /\ request[p].kind \in Revoking /\ request[p].pc = "commit"
        /\ End(p) /\ UNCHANGED <<code, past>>
    BY DEF CommitRevocation
  <1>2. /\ SessionLocks(request[p]) = request[p].sessions
        /\ TokenLocks(request[p]) = request[p].tokens
    BY <1>1 DEF SessionLocks, TokenLocks
  <1>3. /\ \A s \in request[p].sessions : s \in Session /\ session[s].status = "ACTIVE"
        /\ \A t \in request[p].tokens : t \in Token /\ token[t].status = "ACTIVE"
    BY <1>2, LockFacts DEF HoldsOK
  <1>4. /\ session' \in [Session -> SessionRow]
        /\ \A s \in Session :
             IF s \in request[p].sessions
               THEN session'[s].status = "REVOKED" /\ session'[s].by = request[p].kind
               ELSE session'[s] = session[s]
    <2>1. session' = [s \in Session |->
                        IF s \in request[p].sessions
                          THEN [session[s] EXCEPT !.status = "REVOKED", !.by = request[p].kind]
                          ELSE session[s]]
      BY DEF CommitRevocation
    <2>2. \A s \in Session :
            [session[s] EXCEPT !.status = "REVOKED", !.by = request[p].kind] \in
              [status : {"REVOKED"}, by : {request[p].kind}, secret : Nat]
      BY DEF SafeInv, TypeInv, TypeOK, SessionRow
    <2>3. QED
      BY <1>1, <2>1, <2>2 DEF SafeInv, TypeInv, TypeOK, SessionRow, Status
  <1>5. /\ token' \in [Token -> TokenRow]
        /\ \A t \in Token :
             IF t \in request[p].tokens
               THEN token'[t].status = "REVOKED" /\ token'[t].code = token[t].code
               ELSE token'[t] = token[t]
    <2>1. token' = [t \in Token |->
                      IF t \in request[p].tokens
                        THEN [token[t] EXCEPT !.status = "REVOKED"] ELSE token[t]]
      BY DEF CommitRevocation
    <2>2. QED
      BY <2>1 DEF SafeInv, TypeInv, TypeOK, TokenRow, Status
  <1>6. QED
    BY <1>1, <1>3, <1>4, <1>5

\* A userinfo that was still to answer loses its session with its policy.
LEMMA PolicyGoesWithSessions ==
    ASSUME SafeInv, NEW p \in Proc, CommitRevocation(p), NEW q \in Proc,
           request[q].kind = "userinfo", request[q].app \in policy, request[q].app \notin policy'
    PROVE  \A s \in request[q].sessions : session'[s].status # "ACTIVE"
  <1>1. request[p].kind = "policy" /\ request[p].app = request[q].app
    BY DEF CommitRevocation
  <1>2. PICK t \in Token : /\ token[t].status # "NONE"
                           /\ request[q].app = code[token[t].code].app
                           /\ request[q].sessions = {SessionOf(t)}
    BY RequestFacts DEF GoodRequest, Names
  <1>3. /\ token[t].code \in Code /\ code[token[t].code].status # "NONE"
        /\ SessionOf(t) \in Session
    BY <1>2, TokenCode
  <1>4. session[SessionOf(t)].status = "ACTIVE" => SessionOf(t) \in request[p].sessions
    BY <1>1, <1>2, <1>3, RequestFacts, RevocationFacts
    DEF GoodRequest, RequestOK, CoversSessions, Revokes, SessionOf
  <1>5. QED
    BY <1>2, <1>3, <1>4, RevocationFacts

LEMMA CommitRevocationKeepsSafeInv ==
    ASSUME SafeInv, NEW p \in Proc, CommitRevocation(p)
    PROVE  SafeInv'
  <1> DEFINE r == request[p]
  <1>1. r \in RequestState /\ GoodRequest(r)
    BY RequestFacts
  <1>2. /\ active' \subseteq User /\ policy' \subseteq App
        /\ password' \in [User -> Nat] /\ events' \in [Session -> Nat]
    <2>1. active' \subseteq User /\ policy' \subseteq App
      BY DEF CommitRevocation, SafeInv, TypeInv, TypeOK
    <2>2. password' = [u \in User |->
                         IF r.kind = "password" /\ u \in r.users THEN password[u] + 1
                         ELSE password[u]]
      BY DEF CommitRevocation
    <2>3. events' = [s \in Session |->
                       IF r.kind \in {"logout", "deactivate"} /\ s \in r.sessions
                         THEN events[s] + 1 ELSE events[s]]
      BY DEF CommitRevocation
    <2>4. password' \in [User -> Nat] /\ events' \in [Session -> Nat]
      BY <2>2, <2>3 DEF SafeInv, TypeInv, TypeOK
    <2>5. QED
      BY <2>1, <2>4
  <1>3. notices' \subseteq User \X {"password", "policy"}
    BY <1>1 DEF CommitRevocation, SafeInv, TypeInv, TypeOK, RequestState
  <1>4. TypeOK'
    <2>1. \A t \in Token : token'[t].status # "NONE" =>
            token'[t].code \in Code /\ code[token'[t].code].status = "USED"
      BY RevocationFacts DEF SafeInv, TypeInv, TypeOK
    <2>2. QED
      BY <1>2, <1>3, <2>1, RevocationFacts, Ending DEF SafeInv, TypeInv, TypeOK
  <1>5. RowsOK'
    BY RevocationFacts DEF SafeInv, TypeInv, TypeOK, RowsOK
  <1>6. Forward
    BY RevocationFacts DEF Forward
  <1>7. ASSUME NEW q \in Proc \ {p} PROVE Respects(request[q])
    <2>1. SessionLocks(r) = r.sessions /\ TokenLocks(r) = r.tokens
      BY RevocationFacts DEF SessionLocks, TokenLocks
    <2>2. Apart(request[q], r)
      BY RequestFacts
    <2>3. \A s \in SessionLocks(request[q]) : session'[s].status = "ACTIVE"
      BY <2>1, <2>2, RevocationFacts, LockFacts DEF Apart, HoldsOK
    <2>4. \A t \in TokenLocks(request[q]) : token'[t].status = "ACTIVE"
      BY <2>1, <2>2, RevocationFacts, LockFacts DEF Apart, HoldsOK
    <2>5. \A k \in CodeLocks(request[q]) : code'[k].status = "ISSUED"
      BY RevocationFacts, LockFacts DEF HoldsOK
    <2>6. /\ \A t \in Token : token'[t].status = "ACTIVE" => token[t].status = "ACTIVE"
          /\ \A s \in Session : session'[s].status = "ACTIVE" => session[s].status = "ACTIVE"
          /\ code' = code
      BY RevocationFacts
    <2>7. QED
      BY <2>3, <2>4, <2>5, <2>6, PolicyGoesWithSessions DEF Respects
  <1>8. NoTokenOutlivesRevocation'
    <2>1. ASSUME NEW t \in Token, token'[t].status = "ACTIVE"
          PROVE  session'[SessionOf(t)].status # "REVOKED"
      <3>1. token[t].status = "ACTIVE" /\ t \notin r.tokens
        BY <2>1, RevocationFacts
      <3>2. SessionOf(t) \notin r.sessions
        BY <1>1, <3>1, RevocationFacts DEF GoodRequest, RequestOK, CoversTokens
      <3>3. session[SessionOf(t)].status # "REVOKED"
        BY <3>1 DEF SafeInv, NoTokenOutlivesRevocation
      <3>4. QED
        BY <3>1, <3>2, <3>3, TokenCode, RevocationFacts
    <2>2. \A t \in Token : token'[t].status = "ACTIVE" => SessionOf(t)' = SessionOf(t)
      BY <1>6, RevocationFacts, TokenSession
    <2>3. QED
      BY <2>1, <2>2 DEF NoTokenOutlivesRevocation
  <1>9. RevocationsAreAnnouncedOnce'
    <2>1. ASSUME NEW s \in Session, s \in r.sessions
          PROVE  /\ events'[s] = IF session'[s].by \in {"logout", "deactivate"} THEN 1 ELSE 0
                 /\ session'[s].by \in {"password", "policy"} =>
                      <<UserOf[s], session'[s].by>> \in notices'
      <3>1. session[s].by = "none" /\ events[s] = 0 /\ session'[s].by = r.kind
        BY <2>1, RevocationFacts DEF SafeInv, TypeInv, RowsOK, RevocationsAreAnnouncedOnce
      <3>2. events'[s] = IF r.kind \in {"logout", "deactivate"} THEN 1 ELSE 0
        <4>1. events' = [x \in Session |->
                           IF r.kind \in {"logout", "deactivate"} /\ x \in r.sessions
                             THEN events[x] + 1 ELSE events[x]]
          BY DEF CommitRevocation
        <4>2. QED
          BY <2>1, <3>1, <4>1
      <3>3. r.kind \in {"password", "policy"} => UserOf[s] \in r.users
        BY <1>1, <2>1, RevocationFacts DEF GoodRequest, Names, ByUser, Revokes
      <3>4. r.kind \in {"password", "policy"} => <<UserOf[s], r.kind>> \in notices'
        BY <3>3 DEF CommitRevocation
      <3>5. QED
        BY <3>1, <3>2, <3>4
    <2>2. ASSUME NEW s \in Session, s \notin r.sessions
          PROVE  session'[s].by = session[s].by /\ events'[s] = events[s]
      BY <2>2, RevocationFacts DEF CommitRevocation
    <2>3. notices \subseteq notices'
      BY DEF CommitRevocation
    <2>4. QED
      BY <2>1, <2>2, <2>3 DEF SafeInv, RevocationsAreAnnouncedOnce
  <1>10. \A q \in Proc : request'[q] = IF q \in {p} THEN Idle ELSE request[q]
    BY RevocationFacts, Ending
  <1>11. \A q \in Proc \ {p} : Respects(request[q])
    BY <1>7
  <1>12. QED
    BY <1>4, <1>5, <1>6, <1>8, <1>9, <1>10, <1>11, TablesStep

-----------------------------------------------------------------------------
(* Steps of the environment                                                *)

LEMMA AccountsKeepSafeInv ==
    ASSUME SafeInv,
           \/ \E u \in User : Reactivate(u)
           \/ \E a \in App : AddPolicy(a)
           \/ \E x \in Rows : Elapse(x)
    PROVE  SafeInv'
  <1>1. /\ UNCHANGED <<password, session, code, token, outbox, request>>
        /\ active' \subseteq User /\ policy \subseteq policy' /\ policy' \subseteq App
        /\ past' \subseteq Rows
    BY DEF Reactivate, AddPolicy, Elapse, tables, accounts, SafeInv, TypeInv, TypeOK
  <1>2. TypeOK' /\ RowsOK' /\ Forward
    BY <1>1 DEF SafeInv, TypeInv, TypeOK, RowsOK, Forward, outbox
  <1>3. ASSUME NEW q \in Proc PROVE Respects(request[q])
    BY <1>1, LockFacts DEF Respects, HoldsOK
  <1>4. NoTokenOutlivesRevocation' /\ RevocationsAreAnnouncedOnce'
    BY <1>1 DEF SafeInv, NoTokenOutlivesRevocation, RevocationsAreAnnouncedOnce, SessionOf,
                outbox
  <1>5. PICK P : P = {}
    OBVIOUS
  <1>6. /\ \A q \in Proc : request'[q] = IF q \in P THEN Idle ELSE request[q]
        /\ \A q \in Proc \ P : Respects(request[q])
    BY <1>1, <1>3, <1>5
  <1>7. QED
    BY <1>2, <1>4, <1>6, TablesStep

LEMMA RemoveUriFacts ==
    ASSUME SafeInv, NEW a \in App, RemoveRedirectUri(a)
    PROVE  /\ code' \in [Code -> CodeRow]
           /\ \A k \in Code : /\ code'[k].app = code[k].app /\ code'[k].session = code[k].session
                              /\ code'[k].status = "NONE" <=> code[k].status = "NONE"
                              /\ code[k].status = "USED" => code'[k].status = "USED"
                              /\ \A q \in Proc : HoldsCode(q, k) => code'[k] = code[k]
           /\ UNCHANGED <<accounts, session, token, outbox, past, request>>
  <1>1. PICK ks \in SUBSET {k \in Code : code[k].status = "ISSUED" /\ code[k].app = a} :
          /\ \A k \in ks, q \in Proc : ~HoldsCode(q, k)
          /\ code' = [k \in Code |-> IF k \in ks THEN [code[k] EXCEPT !.status = "USED"]
                                    ELSE code[k]]
    BY DEF RemoveRedirectUri
  <1>2. QED
    BY <1>1 DEF RemoveRedirectUri, SafeInv, TypeInv, TypeOK, CodeRow

LEMMA RemoveUriKeepsSafeInv ==
    ASSUME SafeInv, NEW a \in App, RemoveRedirectUri(a)
    PROVE  SafeInv'
  <1>1. TypeOK'
    BY RemoveUriFacts DEF SafeInv, TypeInv, TypeOK, accounts, outbox
  <1>2. RowsOK' /\ Forward
    BY RemoveUriFacts DEF SafeInv, TypeInv, RowsOK, Forward
  <1>3. ASSUME NEW q \in Proc PROVE Respects(request[q])
    <2>1. \A k \in CodeLocks(request[q]) : code'[k].status = "ISSUED"
      BY RemoveUriFacts, Locks, LockFacts, CodeLockType DEF HoldsOK
    <2>2. QED
      BY <2>1, RemoveUriFacts, LockFacts DEF Respects, HoldsOK, accounts
  <1>4. NoTokenOutlivesRevocation'
    BY <1>2, RemoveUriFacts, TokenSession DEF SafeInv, NoTokenOutlivesRevocation
  <1>5. RevocationsAreAnnouncedOnce'
    BY RemoveUriFacts DEF SafeInv, RevocationsAreAnnouncedOnce, outbox
  <1>6. PICK P : P = {}
    OBVIOUS
  <1>7. /\ \A q \in Proc : request'[q] = IF q \in P THEN Idle ELSE request[q]
        /\ \A q \in Proc \ P : Respects(request[q])
    BY <1>3, <1>6, RemoveUriFacts
  <1>8. QED
    BY <1>1, <1>2, <1>4, <1>5, <1>7, TablesStep

-----------------------------------------------------------------------------
(* The invariant                                                           *)

LEMMA InitSafe == Init => SafeInv
  <1> SUFFICES ASSUME Init PROVE SafeInv
    OBVIOUS
  <1>1. \A p \in Proc : request[p] = Idle
    BY DEF Init
  <1>2. TypeOK
    BY IdleType, AccessAssumption
    DEF Init, TypeOK, SessionRow, CodeRow, TokenRow, Status, Rows
  <1>3. RowsOK
    BY DEF Init, RowsOK
  <1>4. NoTokenOutlivesRevocation /\ RevocationsAreAnnouncedOnce
    BY DEF Init, NoTokenOutlivesRevocation, RevocationsAreAnnouncedOnce
  <1>5. \A p \in Proc : Serves(request[p]) /\ Names(request[p]) /\ RequestOK(request[p])
    BY <1>1, IdleGood DEF GoodRequest
  <1>6. \A p, q \in Proc : p # q => Apart(request[p], request[q])
    BY <1>1, IdleGood
  <1>7. QED
    BY <1>2, <1>3, <1>4, <1>5, <1>6 DEF SafeInv, TypeInv

\* The steps that write sessions, codes or tokens.
Writes(p) ==
    \/ \E s \in Session : IssueSession(p, s)
    \/ ExpireSession(p)
    \/ \E k \in Code : IssueCode(p, k)
    \/ \E t \in Token : CommitExchange(p, t)
    \/ ExpireToken(p) \/ Answer(p) \/ CommitRevocation(p)

LEMMA StepKinds ==
    ASSUME SafeInv, [Next]_vars
    PROVE  \/ \E p \in Proc : GoodStep(p) \/ Writes(p)
           \/ \E u \in User : Reactivate(u)
           \/ \E a \in App : AddPolicy(a) \/ RemoveRedirectUri(a)
           \/ \E x \in Rows : Elapse(x)
           \/ UNCHANGED vars
  <1>1. ASSUME NEW p \in Proc, LoginStep(p) PROVE GoodStep(p) \/ Writes(p)
    BY <1>1, LoginIsGood DEF LoginStep, Writes
  <1>2. ASSUME NEW p \in Proc, SessionStep(p) PROVE GoodStep(p) \/ Writes(p)
    BY <1>2, PresentSessionIsGood, ReadsAreGood, TouchIsGood DEF SessionStep, Writes
  <1>3. ASSUME NEW p \in Proc, ExchangeStep(p) PROVE GoodStep(p) \/ Writes(p)
    BY <1>3, PresentCodeIsGood, ReadsAreGood, ClaimIsGood, InsertIsGood DEF ExchangeStep, Writes
  <1>4. ASSUME NEW p \in Proc, UserinfoStep(p) PROVE GoodStep(p) \/ Writes(p)
    BY <1>4, PresentTokenIsGood, ReadsAreGood, GuardIsGood DEF UserinfoStep, Writes
  <1>5. ASSUME NEW p \in Proc, RevocationStep(p) PROVE GoodStep(p) \/ Writes(p)
    BY <1>5, CallsToRevokeAreGood, LockIsGood, ScanIsGood, UpdateSessionsIsGood,
       ScanTokensIsGood, UpdateTokensIsGood
    DEF RevocationStep, Writes
  <1>6. ASSUME NEW p \in Proc, Fail(p) PROVE GoodStep(p)
    BY <1>6, FailIsGood
  <1>7. QED
    BY <1>1, <1>2, <1>3, <1>4, <1>5, <1>6 DEF Next, RequestStep

LEMMA WritesKeepSafeInv == ASSUME SafeInv, NEW p \in Proc, Writes(p) PROVE SafeInv'
  BY IssueSessionKeepsSafeInv, ExpireSessionKeepsSafeInv, IssueCodeKeepsSafeInv,
     CommitExchangeKeepsSafeInv, ExpireTokenKeepsSafeInv, AnswerKeepsSafeInv,
     CommitRevocationKeepsSafeInv
  DEF Writes

LEMMA StutterKeepsSafeInv == ASSUME SafeInv, UNCHANGED vars PROVE SafeInv'
  <1>1. UNCHANGED <<tables, past>> /\ request' = request
    BY DEF vars
  <1>2. TypeOK' /\ RowsOK'
    BY <1>1 DEF SafeInv, TypeInv, TypeOK, RowsOK, tables, accounts, outbox
  <1>3. Forward
    BY <1>1 DEF Forward, tables
  <1>4. \A q \in Proc : Respects(request[q])
    BY <1>1, LockFacts DEF Respects, HoldsOK, tables, accounts
  <1>5. NoTokenOutlivesRevocation' /\ RevocationsAreAnnouncedOnce'
    BY <1>1 DEF SafeInv, NoTokenOutlivesRevocation, RevocationsAreAnnouncedOnce, SessionOf,
                tables, outbox
  <1>6. PICK P : P = {}
    OBVIOUS
  <1>7. /\ \A q \in Proc : request'[q] = IF q \in P THEN Idle ELSE request[q]
        /\ \A q \in Proc \ P : Respects(request[q])
    BY <1>1, <1>4, <1>6
  <1>8. QED
    BY <1>2, <1>3, <1>5, <1>7, TablesStep

LEMMA SafeNext == SafeInv /\ [Next]_vars => SafeInv'
  BY StepKinds, GoodStepKeepsSafeInv, WritesKeepSafeInv, AccountsKeepSafeInv,
     RemoveUriKeepsSafeInv, StutterKeepsSafeInv

LEMMA Safe == Spec => []SafeInv
  BY InitSafe, SafeNext, PTL DEF Spec

\* Every table keeps its type, codes and tokens always name where they come from, and a
\* token always comes from a code that has been used.
THEOREM AccessTypes == Spec => []TypeOK
  <1>1. SafeInv => TypeOK
    BY DEF SafeInv, TypeInv
  <1>2. QED
    BY <1>1, Safe, PTL

\* Whatever exchanges, logouts and administrators' changes run at the same time, no token
\* is ACTIVE under a revoked session: an exchange keeps its session's row until it commits,
\* so a revocation either waits for the token or makes the exchange fail.
THEOREM TokensEndWithSessions == Spec => []NoTokenOutlivesRevocation
  <1>1. SafeInv => NoTokenOutlivesRevocation
    BY DEF SafeInv
  <1>2. QED
    BY <1>1, Safe, PTL

\* The update that revokes a session picks one of the requests that compete to end it, and
\* that one's outbox events are the only ones about the session.
THEOREM OneAnnouncement == Spec => []RevocationsAreAnnouncedOnce
  <1>1. SafeInv => RevocationsAreAnnouncedOnce
    BY DEF SafeInv
  <1>2. QED
    BY <1>1, Safe, PTL

-----------------------------------------------------------------------------
(* Codes                                                                   *)

\* Only an exchange makes a token.
LEMMA TokensKept ==
    ASSUME SafeInv, [Next]_vars,
           ~ \E p \in Proc, t \in Token : CommitExchange(p, t), NEW t \in Token
    PROVE  token'[t].status # "NONE" => token[t].status # "NONE" /\ token'[t].code = token[t].code
  <1>1. CASE UNCHANGED token
    BY <1>1
  <1>2. CASE \E p \in Proc : ExpireToken(p)
    BY <1>2 DEF ExpireToken, SafeInv, TypeInv, TypeOK, TokenRow
  <1>3. CASE \E p \in Proc : Answer(p)
    BY <1>3, AnswerLeavesTokens
  <1>4. CASE \E p \in Proc : CommitRevocation(p)
    BY <1>4, RevocationFacts
  <1>5. ASSUME ~UNCHANGED token
        PROVE  \E p \in Proc : ExpireToken(p) \/ Answer(p) \/ CommitRevocation(p)
    BY <1>5, StepKinds DEF Writes, GoodStep, IssueSession, ExpireSession, IssueCode, Reactivate,
                      AddPolicy, RemoveRedirectUri, Elapse, vars, tables
  <1>6. QED
    BY <1>1, <1>2, <1>3, <1>4, <1>5

LEMMA OnceNext ==
    ASSUME SafeInv, CodesAreExchangedOnce, [Next]_vars
    PROVE  CodesAreExchangedOnce'
  <1>1. CASE ~ \E p \in Proc, t \in Token : CommitExchange(p, t)
    BY <1>1, TokensKept DEF CodesAreExchangedOnce
  <1>2. ASSUME NEW p \in Proc, NEW t \in Token, CommitExchange(p, t)
        PROVE  CodesAreExchangedOnce'
    <2>1. \A v \in Token : v # t => token'[v] = token[v]
      BY <1>2, ExchangeFacts
    <2>2. \A v \in Token : token[v].status # "NONE" => token[v].code # token'[t].code
      BY <1>2, ExchangeFacts, TokenCode
    <2>3. QED
      BY <2>1, <2>2 DEF CodesAreExchangedOnce
  <1>3. QED
    BY <1>1, <1>2

\* A code becomes one token at most: an exchange locks the code when it claims it, which it
\* can do only while the code is unused, and the code is used when the token appears.
THEOREM OneTokenPerCode == Spec => []CodesAreExchangedOnce
  <1>1. Init => CodesAreExchangedOnce
    BY DEF Init, CodesAreExchangedOnce
  <1>2. SafeInv /\ CodesAreExchangedOnce /\ [Next]_vars => CodesAreExchangedOnce'
    BY OnceNext
  <1>3. QED
    BY <1>1, <1>2, Safe, PTL DEF Spec

-----------------------------------------------------------------------------
(* Action properties                                                       *)

LEMMA AnswerIsLive ==
    ASSUME SafeInv, NEW p \in Proc, Answer(p), NEW t \in request[p].tokens
    PROVE  /\ token[t].status = "ACTIVE"
           /\ session[SessionOf(t)].status = "ACTIVE"
           /\ request[p].app \in policy
  <1>1. request[p].kind = "userinfo" /\ request[p].pc = "commit"
    BY DEF Answer
  <1>2. SessionLocks(request[p]) = request[p].sessions /\ TokenLocks(request[p]) = request[p].tokens
    BY <1>1 DEF SessionLocks, TokenLocks
  <1>3. /\ token[t].status = "ACTIVE"
        /\ \A s \in request[p].sessions : session[s].status = "ACTIVE"
    BY <1>2, LockFacts DEF HoldsOK
  <1>4. request[p].sessions = {SessionOf(t)}
    BY <1>1, RequestFacts DEF GoodRequest, Names
  <1>5. request[p].app \in policy
    BY <1>1, <1>3, <1>4, RequestFacts DEF GoodRequest, RequestOK, StaysAllowed
  <1>6. QED
    BY <1>3, <1>4, <1>5

\* userinfo answers only while its token and its session are ACTIVE and its application is
\* allowed, although it reads the policy before it locks the session and then the token.
THEOREM ProfilesNeedLiveAccess == Spec => AnswersAreLive
  <1>1. SafeInv /\ [Next]_vars =>
          [\A p \in Proc : Answer(p) =>
              \A t \in request[p].tokens :
                  /\ token[t].status = "ACTIVE"
                  /\ session[SessionOf(t)].status = "ACTIVE"
                  /\ request[p].app \in policy]_vars
    BY AnswerIsLive
  <1>2. QED
    BY <1>1, Safe, PTL DEF Spec, AnswersAreLive

LEMMA SessionsStayEnded ==
    ASSUME SafeInv, [Next]_vars, NEW s \in Session, session[s].status \in {"EXPIRED", "REVOKED"}
    PROVE  session'[s] = session[s]
  <1>1. CASE UNCHANGED session
    BY <1>1
  <1>2. CASE \E p \in Proc, x \in Session : IssueSession(p, x)
    BY <1>2 DEF IssueSession, SafeInv, TypeInv, TypeOK
  <1>3. CASE \E p \in Proc : ExpireSession(p)
    BY <1>3 DEF ExpireSession
  <1>4. CASE \E p \in Proc : CommitRevocation(p)
    BY <1>4, RevocationFacts
  <1>5. ASSUME ~UNCHANGED session
        PROVE  \/ \E p \in Proc, x \in Session : IssueSession(p, x)
               \/ \E p \in Proc : ExpireSession(p) \/ CommitRevocation(p)
    BY <1>5, StepKinds DEF Writes, GoodStep, IssueCode, CommitExchange, ExpireToken, Answer,
                      Reactivate, AddPolicy, RemoveRedirectUri, Elapse, vars, tables
  <1>6. QED
    BY <1>1, <1>2, <1>3, <1>4, <1>5

LEMMA TokensStayEnded ==
    ASSUME SafeInv, [Next]_vars, NEW t \in Token, token[t].status \in {"EXPIRED", "REVOKED"}
    PROVE  token'[t] = token[t]
  <1>1. CASE UNCHANGED token
    BY <1>1
  <1>2. CASE \E p \in Proc, x \in Token : CommitExchange(p, x)
    BY <1>2, ExchangeFacts
  <1>3. CASE \E p \in Proc : ExpireToken(p)
    BY <1>3 DEF ExpireToken
  <1>4. CASE \E p \in Proc : Answer(p)
    BY <1>4, AnswerLeavesTokens
  <1>5. CASE \E p \in Proc : CommitRevocation(p)
    BY <1>5, RevocationFacts
  <1>6. ASSUME ~UNCHANGED token
        PROVE  \/ \E p \in Proc, x \in Token : CommitExchange(p, x)
               \/ \E p \in Proc : ExpireToken(p) \/ Answer(p) \/ CommitRevocation(p)
    BY <1>6, StepKinds DEF Writes, GoodStep, IssueSession, ExpireSession, IssueCode, Reactivate,
                      AddPolicy, RemoveRedirectUri, Elapse, vars, tables
  <1>7. QED
    BY <1>1, <1>2, <1>3, <1>4, <1>5, <1>6

\* A session or a token that has ended never changes again.  The update of userinfo that
\* writes ACTIVE is no exception: it writes to a token whose row it has kept.
THEOREM EndsAreFinal == Spec => EndedStaysEnded
  <1>1. SafeInv /\ [Next]_vars =>
          [/\ \A s \in Session :
                session[s].status \in {"EXPIRED", "REVOKED"} => session'[s] = session[s]
           /\ \A t \in Token :
                token[t].status \in {"EXPIRED", "REVOKED"} => token'[t] = token[t]]_vars
    BY SessionsStayEnded, TokensStayEnded
  <1>2. QED
    BY <1>1, Safe, PTL DEF Spec, EndedStaysEnded

==============================================================================
