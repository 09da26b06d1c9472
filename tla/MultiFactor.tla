----------------------------- MODULE MultiFactor -----------------------------
(***************************************************************************)
(* The second factor of one user: enrolment of an authenticator, recovery  *)
(* codes, their management, and the challenge that a login must complete.  *)
(* The MFA page of the control panel and the login forms send requests;    *)
(* each is read first and takes effect in a transaction later, and several *)
(* may be under way at once, from several tabs or devices.                 *)
(*                                                                         *)
(* A secret is what a QR code carries, and a time step code is a pair of a *)
(* secret and a step.  Passwords are taken to be right: a wrong one is     *)
(* refused before anything is read here.                                   *)
(***************************************************************************)
EXTENDS Naturals, Sequences, FiniteSets

CONSTANTS
    Secret,       \* bound: TOTP secrets, each drawn once
    Batch,        \* bound: generations of recovery codes, each drawn once
    CodesPerBatch,\* MFA_RECOVERY_CODE_COUNT
    Challenge,    \* rows of mfa_login_challenges
    Proc,         \* requests under way at once; each is sent from a tab of its own
    Intents,      \* the login forms in use: API, OAUTH, ADMIN
    MaxAttempts,  \* MFA_CHALLENGE_MAX_ATTEMPTS
    MaxStep,      \* bound: the time steps that are within the window while a behaviour lasts
    None

ASSUME MultiFactorAssumption ==
    /\ CodesPerBatch \in Nat \ {0} /\ MaxAttempts \in Nat \ {0} /\ MaxStep \in Nat \ {0}
    /\ Intents \subseteq {"API", "OAUTH", "ADMIN"}
    /\ None \notin Secret \cup Batch \cup Challenge
    /\ IsFiniteSet(Proc)

Step == 1..MaxStep
Code == Batch \X (1..CodesPerBatch)
CodesOf(b) == {b} \X (1..CodesPerBatch)

\* What a user types: a time step code, a recovery code, or something else.
Totp(s, t) == [kind |-> "totp", secret |-> s, step |-> t, code |-> <<>>]
Recovery(c) == [kind |-> "code", secret |-> None, step |-> 0, code |-> c]
Wrong == [kind |-> "wrong", secret |-> None, step |-> 0, code |-> <<>>]
Factor == {Totp(s, t) : s \in Secret, t \in Step} \cup {Recovery(c) : c \in Code}

\* user_mfa_totp: last is lastUsedTimeStep, 0 for null.
NoTotp == [secret |-> None, enabled |-> FALSE, last |-> 0]
TotpRow == [secret : Secret, enabled : BOOLEAN, last : 0..MaxStep] \cup {NoTotp}

UserState == {"inactive", "member", "administrator"}

\* Once usedAt is set, nothing else of a challenge is looked at.
Used == [used |-> TRUE, expired |-> FALSE, attempts |-> 0, intent |-> None]
ChallengeRow == [used : {FALSE}, expired : BOOLEAN, attempts : 0..MaxAttempts,
                 intent : Intents] \cup {Used}

ASSUME NoRowAssumption == None \notin ChallengeRow

\* A request: what it asks for, how far it is, the challenge and the factor it presents,
\* and what the statement under way has seen.
Op == {"idle", "start", "confirm", "login", "complete", "regenerate", "disable"}
Request == [op : Op, at : {"read", "claimed", "failed"}, challenge : Challenge \cup {None},
            factor : Factor \cup {Wrong}, intent : Intents \cup {None},
            seen : SUBSET (Code \cup Challenge)]

Idle == [op |-> "idle", at |-> "read", challenge |-> None, factor |-> Wrong,
         intent |-> None, seen |-> {}]

VARIABLES
    totp,       \* the user's row of user_mfa_totp
    code,       \* mfa_recovery_codes: absent, unused or used
    challenge,  \* mfa_login_challenges, or None
    user,       \* an inactive user, an active one, or an active administrator
    request,    \* the requests under way
    drawn,      \* secrets and batches that were generated
    opened,     \* history: the factors that opened sessions through each challenge
    wrong,      \* history: rejected guesses at each challenge that is open
    phone,      \* history: the secrets that some page showed, which the phone has
    raced       \* history: requests of these kinds have overlapped

tables == <<totp, code, challenge>>
history == <<opened, wrong, phone, raced>>
vars == <<tables, user, request, drawn, history>>

Init ==
    /\ totp = NoTotp
    /\ code = [c \in Code |-> "absent"]
    /\ challenge = [c \in Challenge |-> None]
    /\ user = "administrator"
    /\ request = [p \in Proc |-> Idle]
    /\ drawn = {}
    /\ opened = [c \in Challenge |-> <<>>]
    /\ wrong = [c \in Challenge |-> 0]
    /\ phone = {}
    /\ raced = {}

-----------------------------------------------------------------------------
(* Helpers                                                                 *)

Active == user # "inactive"
Administrator == user = "administrator"

Free(p) == request[p].op = "idle"
Ask(p, r) == request' = [request EXCEPT ![p] = r]
End(p) == Ask(p, Idle)
Stored == {c \in Code : code[c] # "absent"}

\* validateToken and the lookup of a recovery code, in a read before the transaction.
\* validateToken accepts the codes of a window of three steps; Step are such steps.
Validates(f) == totp.secret = f.secret
Accepts(f) ==
    \/ f.kind = "totp" /\ Validates(f) /\ f.step > totp.last
    \/ f.kind = "code" /\ code[f.code] = "unused"

\* Rows that a management transaction under way has locked with its claim.
Claimed(q) == request[q].at = "claimed"
Locks(q, f) ==
    /\ Claimed(q)
    /\ request[q].factor.kind = f.kind
    /\ f.kind = "code" => request[q].factor.code = f.code
LockedBeside(p, f) == \E q \in Proc \ {p} : Locks(q, f)
TotpLocked(p) == LockedBeside(p, [kind |-> "totp"])

\* Mutant: the claim of a time step code does not test the last step again.
ClaimableWithoutStep(f) ==
    \/ f.kind = "code" /\ code[f.code] = "unused"
    \/ f.kind = "totp" /\ totp.enabled

\* The claim of a factor tests the rows again; it knows the step, not the secret.
Claimable(f) ==
    \/ f.kind = "code" /\ code[f.code] = "unused"
    \/ f.kind = "totp" /\ totp.enabled /\ totp.last < f.step
SpendCode(f) ==
    IF f.kind = "code" THEN [code EXCEPT ![f.code] = "used"] ELSE code
SpendStep(f) ==
    IF f.kind = "totp" THEN [totp EXCEPT !.last = f.step] ELSE totp

\* Which of the values not drawn before it is makes no difference.
Fresh(S) == IF S \subseteq drawn THEN {} ELSE {CHOOSE s \in S : s \notin drawn}

\* Mutant: the codes of the generation before are kept.
ReplaceNothing(seen, b) ==
    [c \in Code |-> IF c \in CodesOf(b) THEN "unused" ELSE code[c]]

\* deleteMany takes the rows that its statement saw; createMany adds the new ones.
Replace(seen, b) ==
    [c \in Code |-> IF c \in CodesOf(b) THEN "unused"
                    ELSE IF c \in seen THEN "absent" ELSE code[c]]

Overlap(p, ops, name) ==
    IF \E q \in Proc \ {p} : request[q].op \in ops THEN raced \cup {name} ELSE raced

-----------------------------------------------------------------------------
(* Enrolment: MfaEnrollmentService, asked by the MFA page                  *)

\* Mutant: start() does not look whether an authenticator is enabled.
BeginStartAlways(p) ==
    /\ Free(p)
    /\ Ask(p, [Idle EXCEPT !.op = "start"])
    /\ UNCHANGED <<tables, user, drawn, history>>

\* start() reads whether the authenticator is enabled.
BeginStart(p) ==
    /\ Free(p)
    /\ ~totp.enabled
    /\ Ask(p, [Idle EXCEPT !.op = "start"])
    /\ UNCHANGED <<tables, user, drawn, history>>

\* The page shows the QR code of the answer, unless the answer is lost.
Show(s) == phone' \in {phone, phone \cup {s}}

\* The upsert replaces the secret and forgets the last step, whatever enabledAt is by then.
Start(p) ==
    /\ request[p].op = "start"
    /\ ~TotpLocked(p)
    /\ \E s \in Fresh(Secret) :
         /\ totp' = [totp EXCEPT !.secret = s, !.last = 0]
         /\ drawn' = drawn \cup {s}
         /\ Show(s)
    /\ raced' = Overlap(p, {"confirm"}, "enrolment")
    /\ End(p)
    /\ UNCHANGED <<code, challenge, user, opened, wrong>>

\* What the forms send: a recovery code, or what the phone computes.
Typed(f) == f.kind = "totp" => f.secret \in phone

\* confirm() reads the pending secret and verifies a code from the user's phone.
BeginConfirm(p) ==
    /\ Free(p)
    /\ ~totp.enabled
    /\ \E t \in Step :
         /\ totp.secret # None /\ Typed(Totp(totp.secret, t))
         /\ Validates(Totp(totp.secret, t))
         /\ Ask(p, [Idle EXCEPT !.op = "confirm", !.factor = Totp(totp.secret, t)])
    /\ UNCHANGED <<tables, user, drawn, history>>

\* Mutant: confirm() enables the authenticator also when its row was deleted meanwhile.
ConfirmAnyRow(p) ==
    /\ request[p].op = "confirm"
    /\ ~TotpLocked(p) /\ ~totp.enabled
    /\ \A c \in Stored : ~LockedBeside(p, Recovery(c))
    /\ \E b \in Fresh(Batch) :
         /\ totp' = [totp EXCEPT !.enabled = TRUE, !.last = request[p].factor.step]
         /\ code' = Replace(Stored, b)
         /\ drawn' = drawn \cup {b}
    /\ raced' = Overlap(p, {"start"}, "enrolment")
    /\ End(p)
    /\ UNCHANGED <<challenge, user, opened, wrong, phone>>

\* It enables the row that is pending then, and generates the recovery codes.
Confirm(p) ==
    /\ request[p].op = "confirm"
    /\ ~TotpLocked(p)
    /\ totp # NoTotp /\ ~totp.enabled
    /\ \A c \in Stored : ~LockedBeside(p, Recovery(c))
    /\ \E b \in Fresh(Batch) :
         /\ totp' = [totp EXCEPT !.enabled = TRUE, !.last = request[p].factor.step]
         /\ code' = Replace(Stored, b)
         /\ drawn' = drawn \cup {b}
    /\ raced' = Overlap(p, {"start"}, "enrolment")
    /\ End(p)
    /\ UNCHANGED <<challenge, user, opened, wrong, phone>>

NotPending(p) ==
    /\ request[p].op = "confirm"
    /\ ~TotpLocked(p)
    /\ totp = NoTotp \/ totp.enabled
    /\ End(p)
    /\ UNCHANGED <<tables, user, drawn, history>>

-----------------------------------------------------------------------------
(* Management: MfaManagementService, asked by the MFA page                 *)

\* verifyReauthentication() reads the account and checks the factor.
BeginManage(p, op) ==
    /\ Free(p)
    /\ Active /\ totp.enabled
    /\ \E f \in Factor :
         /\ Typed(f) /\ Accepts(f)
         /\ Ask(p, [Idle EXCEPT !.op = op, !.factor = f])
    /\ UNCHANGED <<tables, user, drawn, history>>

\* claimFactor() locks the row of the factor; deleteMany then sees the codes stored.
Claim(p) ==
    /\ request[p].op \in {"regenerate", "disable"} /\ request[p].at = "read"
    /\ ~LockedBeside(p, request[p].factor)
    /\ Ask(p, IF Claimable(request[p].factor)
                 THEN [request[p] EXCEPT !.at = "claimed", !.seen = Stored] ELSE Idle)
    /\ UNCHANGED <<tables, user, drawn, history>>

\* deleteMany waits for the codes that other requests have claimed.
Deletable(p) ==
    /\ Claimed(p)
    /\ \A c \in request[p].seen \cap Stored : ~LockedBeside(p, Recovery(c))

Regenerate(p) ==
    /\ request[p].op = "regenerate" /\ Deletable(p)
    /\ \E b \in Fresh(Batch) :
         /\ code' = Replace(request[p].seen, b)
         /\ drawn' = drawn \cup {b}
    /\ totp' = SpendStep(request[p].factor)
    /\ raced' = IF \E q \in Proc \ {p} : Claimed(q) THEN raced \cup {"codes"} ELSE raced
    /\ End(p)
    /\ UNCHANGED <<challenge, user, opened, wrong, phone>>

\* disable() also ends every challenge that is open.
Ended(cs) == [c \in Challenge |->
                IF c \in cs /\ challenge[c] # None THEN Used ELSE challenge[c]]
Close(cs) == /\ challenge' = Ended(cs)
             /\ wrong' = [c \in Challenge |-> IF c \in cs THEN 0 ELSE wrong[c]]

\* Mutant: the challenges that are open when MFA is disabled stay open.
DisableKeepingChallenges(p) ==
    /\ request[p].op = "disable" /\ Deletable(p) /\ ~TotpLocked(p)
    /\ IF totp.enabled
         THEN /\ code' = [c \in Code |-> IF c \in request[p].seen THEN "absent" ELSE code[c]]
              /\ totp' = NoTotp
              /\ UNCHANGED <<challenge, wrong>>
         ELSE UNCHANGED <<tables, wrong>>
    /\ raced' = IF \E q \in Proc \ {p} : Claimed(q) THEN raced \cup {"codes"} ELSE raced
    /\ End(p)
    /\ UNCHANGED <<user, drawn, opened, phone>>

Disable(p) ==
    /\ request[p].op = "disable" /\ Deletable(p) /\ ~TotpLocked(p)
    /\ IF totp.enabled
         THEN /\ code' = [c \in Code |-> IF c \in request[p].seen THEN "absent" ELSE code[c]]
              /\ totp' = NoTotp
              /\ Close(Challenge)
         ELSE UNCHANGED <<tables, wrong>>
    /\ raced' = IF \E q \in Proc \ {p} : Claimed(q) THEN raced \cup {"codes"} ELSE raced
    /\ End(p)
    /\ UNCHANGED <<user, drawn, opened, phone>>

-----------------------------------------------------------------------------
(* Login: AuthService.login() and MfaChallengeService                      *)

Open == {c \in Challenge : challenge[c] # None /\ ~challenge[c].used}

\* The password was right and the authenticator is enabled; start() then ends the
\* challenges that its first statement sees.
BeginLogin(p) ==
    /\ Free(p)
    /\ Active /\ totp.enabled
    /\ \E i \in Intents :
         /\ i = "ADMIN" => Administrator
         /\ Ask(p, [Idle EXCEPT !.op = "login", !.intent = i, !.seen = Open])
    /\ UNCHANGED <<tables, user, drawn, history>>

StartChallenge(p) ==
    /\ request[p].op = "login"
    /\ \E c \in Challenge :
         /\ challenge[c] = None
         /\ challenge' = [Ended(request[p].seen) EXCEPT ![c] =
                            [used |-> FALSE, expired |-> FALSE, attempts |-> 0,
                             intent |-> request[p].intent]]
    /\ wrong' = [c \in Challenge |-> IF c \in request[p].seen THEN 0 ELSE wrong[c]]
    /\ End(p)
    /\ UNCHANGED <<totp, code, user, drawn, opened, phone, raced>>

\* The endpoints for the API and for browsers complete challenges of their own intents.
Endpoints == {{"API"}, {"OAUTH", "ADMIN"}}

\* Mutant: the number of failed attempts is not looked at.
PresentableAgain(c, allowed) ==
    /\ challenge[c].intent \in allowed
    /\ Active /\ totp.enabled
    /\ challenge[c].intent = "ADMIN" => Administrator

Presentable(c, allowed) ==
    /\ challenge[c].attempts < MaxAttempts
    /\ challenge[c].intent \in allowed
    /\ Active /\ totp.enabled
    /\ challenge[c].intent = "ADMIN" => Administrator

\* complete() reads the challenge and checks the factor, before its transaction.  At a
\* challenge that is used or expired it changes nothing.
BeginComplete(p) ==
    /\ Free(p)
    /\ \E c \in Open, allowed \in Endpoints, f \in Factor \cup {Wrong} :
         /\ ~challenge[c].expired
         /\ f # Wrong => Presentable(c, allowed) /\ Typed(f) /\ Accepts(f)
         /\ Ask(p, [Idle EXCEPT !.op = "complete", !.challenge = c, !.factor = f,
                                !.at = IF f = Wrong THEN "failed" ELSE "read"])
         /\ wrong' = IF f = Wrong /\ Presentable(c, allowed)
                       THEN [wrong EXCEPT ![c] = @ + 1] ELSE wrong
    /\ UNCHANGED <<tables, user, drawn, opened, phone, raced>>

\* The claims of the challenge and of the factor, tested on the rows as they are now.
Completes(p) ==
    LET c == challenge[request[p].challenge]
    IN  /\ c.intent = "ADMIN" => Administrator
        /\ ~c.used /\ c.attempts < MaxAttempts /\ Active
        /\ Claimable(request[p].factor)

Complete(p) ==
    /\ request[p].op = "complete" /\ request[p].at = "read"
    /\ ~LockedBeside(p, request[p].factor)
    /\ Completes(p)
    /\ LET c == request[p].challenge
           f == request[p].factor
       IN  /\ Close({c})
           /\ code' = SpendCode(f)
           /\ totp' = SpendStep(f)
           /\ opened' = [opened EXCEPT ![c] = Append(@, f)]
    /\ End(p)
    /\ UNCHANGED <<user, drawn, phone, raced>>

\* A claim that finds nothing rolls back and counts as a failure.
LoseRace(p) ==
    /\ request[p].op = "complete" /\ request[p].at = "read"
    /\ ~LockedBeside(p, request[p].factor)
    /\ ~Completes(p)
    /\ Ask(p, [request[p] EXCEPT !.at = "failed"])
    /\ UNCHANGED <<tables, user, drawn, history>>

RecordFailure(p) ==
    /\ request[p].at = "failed"
    /\ LET c == request[p].challenge
       IN  challenge' =
             IF ~challenge[c].used /\ challenge[c].attempts < MaxAttempts
               THEN [challenge EXCEPT ![c].attempts = @ + 1] ELSE challenge
    /\ End(p)
    /\ UNCHANGED <<totp, code, user, drawn, history>>

-----------------------------------------------------------------------------
(* Administration, time and failures                                       *)

\* revokeSecurityState(), for a new password or a lost policy, ends the open challenges.
Revoke ==
    /\ Open # {}
    /\ Close(Challenge)
    /\ UNCHANGED <<totp, code, user, request, drawn, opened, phone, raced>>

\* A deactivation ends them too; a change of membership does not.
ChangeUser ==
    /\ \E u \in UserState \ {user} : user' = u
    /\ IF user' = "inactive" THEN Close(Challenge) ELSE UNCHANGED <<challenge, wrong>>
    /\ UNCHANGED <<totp, code, request, drawn, opened, phone, raced>>

Expire(c) ==
    /\ c \in Open /\ ~challenge[c].expired
    /\ challenge' = [challenge EXCEPT ![c].expired = TRUE]
    /\ UNCHANGED <<totp, code, user, request, drawn, history>>

\* A database error, or the victim of a deadlock, rolls the transaction back.  The count
\* of a failed attempt is taken to succeed.
Abort(p) ==
    /\ ~Free(p) /\ request[p].at # "failed"
    /\ End(p)
    /\ UNCHANGED <<tables, user, drawn, history>>

Enrol(p) == BeginStart(p) \/ Start(p) \/ BeginConfirm(p) \/ Confirm(p) \/ NotPending(p)
Manage(p) == (\E op \in {"regenerate", "disable"} : BeginManage(p, op))
             \/ Claim(p) \/ Regenerate(p) \/ Disable(p)
Login(p) == BeginLogin(p) \/ StartChallenge(p)
Verify(p) == BeginComplete(p) \/ Complete(p) \/ LoseRace(p) \/ RecordFailure(p)
Environment == Revoke \/ ChangeUser \/ \E c \in Challenge : Expire(c)

Next == Environment \/ \E p \in Proc :
            Enrol(p) \/ Manage(p) \/ Login(p) \/ Verify(p) \/ Abort(p)

Spec == Init /\ [][Next]_vars

-----------------------------------------------------------------------------
(* Properties                                                              *)

\* Every variable has its type, and only a pending or an enabled row has a secret.
TypeOK ==
    /\ totp \in TotpRow
    /\ code \in [Code -> {"absent", "unused", "used"}]
    /\ challenge \in [Challenge -> ChallengeRow \cup {None}]
    /\ user \in UserState
    /\ request \in [Proc -> Request]
    /\ drawn \subseteq Secret \cup Batch
    /\ opened \in [Challenge -> Seq(Factor)]
    /\ wrong \in [Challenge -> Nat]
    /\ phone \subseteq Secret
    /\ raced \subseteq {"enrolment", "codes"}

\* A challenge opens one session, and a recovery code or a time step code opens one
\* session in all, however many forms present them at once: the claims of complete().  The
\* exception is a time step code after a start() that overlapped a confirm(): it has
\* forgotten the last step of an authenticator that is enabled.
SecondFactorIsSpentOnce ==
    /\ \A c \in Challenge : Len(opened[c]) <= 1
    /\ \A c, d \in Challenge : c # d /\ opened[c] # <<>> /\ opened[c] = opened[d] =>
          opened[c][1].kind = "totp" /\ "enrolment" \in raced

\* Attempts are counted after the check, so parallel guesses exceed the maximum; but by
\* no more than the requests that run beside the last one permitted.
GuessesAreBounded ==
    \A c \in Challenge : wrong[c] <= MaxAttempts + Cardinality(Proc) - 1

\* MFA is enabled for a secret that the user has seen, and typed a code of, before:
\* nobody is asked for codes of an authenticator that was never set up.  A start() that
\* overlaps a confirm() can replace the secret that confirm() enables.
EnabledSecretIsOnThePhone ==
    totp.enabled /\ "enrolment" \notin raced => totp.secret \in phone

\* The stored recovery codes are one generation and belong to an enabled authenticator,
\* unless two management requests overlapped: deleteMany of the second does not see the
\* codes that the first inserted.
CodesAreOneGeneration ==
    "codes" \notin raced =>
        /\ \A c, d \in Stored : c[1] = d[1]
        /\ Stored # {} => totp.enabled

\* The time step code that opens a session is of the authenticator that is enrolled: the
\* challenges of an authenticator that was disabled do not accept its codes any more, not
\* even in a request that had already verified one: disable() ends them.
SessionsNeedTheEnrolledSecret ==
    [][\A c \in Challenge :
          opened'[c] # opened[c] /\ "enrolment" \notin raced =>
              LET f == opened'[c][Len(opened'[c])]
              IN  f.kind = "totp" => f.secret = totp.secret]_vars

=============================================================================
