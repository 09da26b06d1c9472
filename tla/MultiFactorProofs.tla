-------------------------- MODULE MultiFactorProofs --------------------------
(***************************************************************************)
(* What MultiFactor guarantees for every number of secrets, generations of *)
(* recovery codes, challenges and tabs.                                    *)
(***************************************************************************)
EXTENDS MultiFactor, FiniteSetTheorems, TLAPS

-----------------------------------------------------------------------------
(* What is true of a request under way                                     *)

\* What a request of each kind carries.
Shape(r) ==
    /\ r.at = "claimed" => r.op \in {"regenerate", "disable"}
    /\ r.at = "failed" => r.op = "complete"
    /\ r.op \in {"confirm", "regenerate", "disable"} => r.factor \in Factor
    /\ r.op = "complete" => r.challenge \in Challenge
    /\ r.op = "complete" /\ r.at = "read" => r.factor \in Factor
    /\ r.op = "confirm" => r.factor.kind = "totp"
    /\ r.op = "login" => r.intent \in Intents

\* The row that a claim has locked is still what the claim tested; and the codes that
\* deleteMany has seen are all that there are.
HoldsFactor(r) ==
    r.at = "claimed" =>
        /\ Claimable(r.factor)
        /\ "codes" \notin raced => Stored \subseteq r.seen

\* A confirmation is of a secret that the phone has, and of the one that is pending.
ConfirmsPending(r) ==
    r.op = "confirm" =>
        /\ r.factor.secret \in phone
        /\ "enrolment" \notin raced /\ totp # NoTotp /\ ~totp.enabled =>
             totp.secret = r.factor.secret

\* No enrolment is started beside an authenticator that is enabled.
StartsPending(r) ==
    r.op = "start" /\ "enrolment" \notin raced => ~totp.enabled

\* As long as the challenge is open, the code that was verified is of the authenticator.
KnowsSecret(r) ==
    r.op = "complete" =>
        /\ challenge[r.challenge] # None
        /\ r.at = "read" /\ r.factor.kind = "totp" /\ ~challenge[r.challenge].used
           /\ "enrolment" \notin raced =>
             totp.enabled /\ totp.secret = r.factor.secret

RequestOK(r) ==
    Shape(r) /\ HoldsFactor(r) /\ ConfirmsPending(r) /\ StartsPending(r) /\ KnowsSecret(r)

\* Two claims have locked different rows.
Apart(r, s) ==
    r.at = "claimed" /\ s.at = "claimed" /\ r.factor.kind = s.factor.kind =>
        s.factor.kind = "code" /\ r.factor.code # s.factor.code

-----------------------------------------------------------------------------
(* What is true of the tables                                              *)

RowsOK ==
    /\ totp.secret = None \/ totp.secret \in drawn
    /\ ~totp.enabled => totp.last = 0
    /\ \A c \in Stored : c[1] \in drawn

\* No claim accepts the factor again.
Spent(f) ==
    /\ f.kind = "code" => f.code[1] \in drawn /\ code[f.code] # "unused"
    /\ f.kind = "totp" /\ "enrolment" \notin raced =>
         /\ f.secret \in drawn
         /\ totp.secret = f.secret => totp.enabled /\ f.step <= totp.last

\* Failed attempts at a challenge that are yet to be counted.
Failing(c) == {p \in Proc : request[p].at = "failed" /\ request[p].challenge = c}

ChallengeOK(c) ==
    /\ challenge[c] = None \/ challenge[c].used => wrong[c] = 0
    /\ challenge[c] # None /\ ~challenge[c].used /\ challenge[c].attempts < MaxAttempts =>
         wrong[c] <= challenge[c].attempts + Cardinality(Failing(c))
    /\ challenge[c] = None \/ ~challenge[c].used => opened[c] = <<>>
    /\ opened[c] # <<>> => \E f \in Factor : opened[c] = <<f>> /\ Spent(f)

FactorInv ==
    /\ TypeOK
    /\ \A p \in Proc : RequestOK(request[p])
    /\ \A p, q \in Proc : p # q => Apart(request[p], request[q])
    /\ RowsOK
    /\ \A c \in Challenge : ChallengeOK(c)
    /\ GuessesAreBounded /\ EnabledSecretIsOnThePhone /\ CodesAreOneGeneration

-----------------------------------------------------------------------------
(* Types                                                                   *)

LEMMA FactorFacts ==
    ASSUME NEW f \in Factor
    PROVE  /\ f.kind \in {"totp", "code"}
           /\ f.kind = "totp" => f.secret \in Secret /\ f.step \in Step /\ f = Totp(f.secret, f.step)
           /\ f.kind = "code" => f.code \in Code /\ f = Recovery(f.code)
           /\ f # Wrong
  <1>1. CASE f \in {Totp(s, t) : s \in Secret, t \in Step}
    BY <1>1 DEF Totp, Wrong
  <1>2. CASE f \in {Recovery(c) : c \in Code}
    BY <1>2 DEF Recovery, Wrong
  <1>3. QED
    BY <1>1, <1>2 DEF Factor

LEMMA TotpFacts ==
    ASSUME TypeOK
    PROVE  /\ totp.secret \in Secret \cup {None} /\ totp.enabled \in BOOLEAN
           /\ totp.last \in 0 .. MaxStep
           /\ totp = NoTotp <=> totp.secret = None
           /\ totp # NoTotp => totp \in [secret : Secret, enabled : BOOLEAN, last : 0 .. MaxStep]
           /\ totp.enabled => totp # NoTotp
  <1>1. CASE totp \in [secret : Secret, enabled : BOOLEAN, last : 0 .. MaxStep]
    <2>1. totp.secret \in Secret /\ totp.secret # None
      BY <1>1, MultiFactorAssumption
    <2>2. totp # NoTotp
      BY <2>1 DEF NoTotp
    <2>3. QED
      BY <1>1, <2>1, <2>2
  <1>2. CASE totp = NoTotp
    BY <1>2, MultiFactorAssumption DEF NoTotp
  <1>3. QED
    BY <1>1, <1>2 DEF TypeOK, TotpRow

LEMMA RequestType ==
    ASSUME NEW r \in Request
    PROVE  /\ r.op \in Op /\ r.at \in {"read", "claimed", "failed"}
           /\ r.challenge \in Challenge \cup {None} /\ r.factor \in Factor \cup {Wrong}
           /\ r.intent \in Intents \cup {None} /\ r.seen \subseteq Code \cup Challenge
  BY DEF Request

LEMMA IdleFacts ==
    /\ Idle \in Request /\ Idle.op = "idle" /\ Idle.at = "read"
    /\ Idle.challenge = None /\ Idle.factor = Wrong /\ Idle.intent = None /\ Idle.seen = {}
  BY DEF Idle, Request, Op

LEMMA IdleOK ==
    /\ RequestOK(Idle) /\ RequestOK(Idle)'
    /\ \A s : Apart(s, Idle) /\ Apart(Idle, s)
  BY IdleFacts
  DEF RequestOK, Shape, HoldsFactor, ConfirmsPending, StartsPending, KnowsSecret, Apart

LEMMA RequestFacts ==
    ASSUME FactorInv, NEW p \in Proc
    PROVE  /\ request[p] \in Request
           /\ Shape(request[p]) /\ HoldsFactor(request[p]) /\ ConfirmsPending(request[p])
           /\ StartsPending(request[p]) /\ KnowsSecret(request[p])
  BY DEF FactorInv, TypeOK, RequestOK

LEMMA FreshFacts ==
    ASSUME NEW S, NEW s \in Fresh(S)
    PROVE  s \in S /\ s \notin drawn
  <1>1. \E x \in S : x \notin drawn
    BY DEF Fresh
  <1>2. s = CHOOSE x \in S : x \notin drawn
    BY DEF Fresh
  <1>3. QED
    BY <1>1, <1>2

-----------------------------------------------------------------------------
(* Steps and the requests that they leave alone                            *)

\* What a step leaves to a request that relies on it.
Keeps(y) ==
    /\ raced \subseteq raced' /\ phone \subseteq phone'
    /\ y.at = "claimed" =>
         /\ Claimable(y.factor) => Claimable(y.factor)'
         /\ "codes" \notin raced' => Stored' \subseteq Stored
    /\ y.op = "confirm" /\ "enrolment" \notin raced' /\ totp' # NoTotp /\ ~totp'.enabled =>
         totp # NoTotp /\ ~totp.enabled /\ totp'.secret = totp.secret
    /\ y.op = "start" /\ "enrolment" \notin raced' /\ ~totp.enabled => ~totp'.enabled
    /\ y.op = "complete" /\ challenge[y.challenge] # None =>
         /\ challenge'[y.challenge] # None
         /\ ~challenge'[y.challenge].used =>
              /\ ~challenge[y.challenge].used
              /\ "enrolment" \notin raced' /\ totp.enabled =>
                   totp'.enabled /\ totp'.secret = totp.secret

LEMMA RequestKept ==
    ASSUME NEW y, RequestOK(y), Keeps(y)
    PROVE  RequestOK(y)'
  <1>1. Shape(y) /\ HoldsFactor(y) /\ ConfirmsPending(y) /\ StartsPending(y) /\ KnowsSecret(y)
    BY DEF RequestOK
  <1>2. Shape(y)'
    BY <1>1 DEF Shape
  <1>3. HoldsFactor(y)'
    BY <1>1 DEF HoldsFactor, Keeps
  <1>4. ConfirmsPending(y)'
    BY <1>1 DEF ConfirmsPending, Keeps
  <1>5. StartsPending(y)'
    BY <1>1 DEF StartsPending, Keeps
  <1>6. KnowsSecret(y)'
    BY <1>1 DEF KnowsSecret, Keeps
  <1>7. QED
    BY <1>2, <1>3, <1>4, <1>5, <1>6 DEF RequestOK

LEMMA SameRequest ==
    ASSUME NEW q, NEW y, request'[q] = y, RequestOK(y)'
    PROVE  RequestOK(request[q])'
  <1>1. Shape(request[q])'
    BY DEF RequestOK, Shape
  <1>2. HoldsFactor(request[q])'
    BY DEF RequestOK, HoldsFactor, Claimable
  <1>3. ConfirmsPending(request[q])'
    BY DEF RequestOK, ConfirmsPending
  <1>4. StartsPending(request[q])'
    BY DEF RequestOK, StartsPending
  <1>5. KnowsSecret(request[q])'
    BY DEF RequestOK, KnowsSecret
  <1>6. QED
    BY <1>1, <1>2, <1>3, <1>4, <1>5 DEF RequestOK

\* One request becomes r, or none does.
LEMMA RequestsKept ==
    ASSUME FactorInv, NEW p \in Proc, NEW r \in Request, Ask(p, r), RequestOK(r)',
           \A q \in Proc \ {p}, y \in Request : y = request[q] => Apart(y, r) /\ Keeps(y)
    PROVE  /\ request' \in [Proc -> Request]
           /\ \A q \in Proc : RequestOK(request[q])'
           /\ \A q, s \in Proc : q # s => Apart(request[q], request[s])'
  <1>1. /\ request' \in [Proc -> Request]
        /\ \A q \in Proc : request'[q] = IF q = p THEN r ELSE request[q]
    BY DEF Ask, FactorInv, TypeOK
  <1>2. ASSUME NEW q \in Proc PROVE RequestOK(request[q])'
    <2>1. CASE q = p
      BY <1>1, <2>1, SameRequest
    <2>2. CASE q # p
      <3>1. PICK y \in Request : y = request[q]
        BY RequestFacts
      <3>2. RequestOK(y)
        BY <3>1 DEF FactorInv
      <3>3. Keeps(y)
        BY <2>2, <3>1
      <3>4. RequestOK(y)'
        BY <3>2, <3>3, RequestKept
      <3>5. QED
        BY <1>1, <2>2, <3>1, <3>4, SameRequest
    <2>3. QED
      BY <2>1, <2>2
  <1>3. ASSUME NEW q \in Proc, NEW s \in Proc, q # s PROVE Apart(request'[q], request'[s])
    <2>1. Apart(request[q], request[s]) /\ (q # p => Apart(request[q], r))
      BY <1>3, RequestFacts DEF FactorInv
    <2>2. s # p => Apart(r, request[s])
      BY RequestFacts DEF Apart
    <2>3. QED
      BY <1>1, <1>3, <2>1, <2>2
  <1>4. \A q, s \in Proc : q # s => Apart(request[q], request[s])'
    BY <1>3 DEF Apart
  <1>5. QED
    BY <1>1, <1>2, <1>4

-----------------------------------------------------------------------------
(* Steps and the challenges that they leave alone                          *)

\* No code that was drawn before becomes unused, and no step is forgotten but with its secret.
NothingForgotten ==
    /\ drawn \subseteq drawn' /\ raced \subseteq raced'
    /\ \A c \in Code : c[1] \in drawn /\ code'[c] = "unused" => code[c] = "unused"
    /\ totp'.secret \in drawn => /\ totp'.secret = totp.secret
                                 /\ totp.enabled => totp'.enabled /\ totp.last <= totp'.last

LEMMA SpentKept ==
    ASSUME TypeOK, totp'.last \in Nat, NothingForgotten, NEW f \in Factor, Spent(f)
    PROVE  Spent(f)'
  <1>1. f.kind = "code" => f.code \in Code
    BY FactorFacts
  <1>2. f.kind = "totp" => f.step \in Nat
    BY FactorFacts DEF Step
  <1>3. totp.last \in Nat
    BY TotpFacts, MultiFactorAssumption
  <1>4. QED
    BY <1>1, <1>2, <1>3 DEF Spent, NothingForgotten

LEMMA FailingFacts ==
    ASSUME NEW c
    PROVE  /\ IsFiniteSet(Failing(c)) /\ Cardinality(Failing(c)) \in Nat
           /\ IsFiniteSet(Failing(c)') /\ Cardinality(Failing(c)') \in Nat
           /\ Failing(c) \subseteq Failing(c)' =>
                Cardinality(Failing(c)) <= Cardinality(Failing(c)')
           /\ Cardinality(Failing(c)) <= Cardinality(Proc)
           /\ Cardinality(Proc) \in Nat
  <1>1. Failing(c) \in SUBSET Proc /\ Failing(c)' \in SUBSET Proc
    BY DEF Failing
  <1>2. IsFiniteSet(Failing(c)) /\ Cardinality(Failing(c)) <= Cardinality(Proc)
    BY <1>1, FS_Subset, MultiFactorAssumption
  <1>3. IsFiniteSet(Failing(c)')
    BY <1>1, FS_Subset, MultiFactorAssumption
  <1>4. Failing(c) \subseteq Failing(c)' => Cardinality(Failing(c)) <= Cardinality(Failing(c)')
    BY <1>3, FS_Subset
  <1>5. QED
    BY <1>2, <1>3, <1>4, FS_CardinalityType, MultiFactorAssumption

LEMMA ChallengeRowFacts ==
    ASSUME TypeOK, NEW c \in Challenge, challenge[c] # None
    PROVE  /\ challenge[c] \in ChallengeRow
           /\ challenge[c].used \in BOOLEAN
           /\ challenge[c].attempts \in 0 .. MaxAttempts /\ challenge[c].attempts \in Nat
           /\ challenge[c].used => challenge[c] = Used
           /\ ~challenge[c].used =>
                challenge[c] \in [used : {FALSE}, expired : BOOLEAN,
                                  attempts : 0 .. MaxAttempts, intent : Intents]
  <1>1. challenge[c] \in ChallengeRow
    BY DEF TypeOK
  <1>2. CASE challenge[c] \in [used : {FALSE}, expired : BOOLEAN,
                               attempts : 0 .. MaxAttempts, intent : Intents]
    <2>1. challenge[c].used = FALSE /\ challenge[c].attempts \in 0 .. MaxAttempts
      BY <1>2
    <2>2. challenge[c].attempts \in Nat
      BY <2>1, MultiFactorAssumption
    <2>3. QED
      BY <1>1, <1>2, <2>1, <2>2
  <1>3. CASE challenge[c] = Used
    BY <1>1, <1>3, MultiFactorAssumption DEF Used
  <1>4. QED
    BY <1>1, <1>2, <1>3 DEF ChallengeRow

LEMMA UsedFacts == Used # None /\ Used.used /\ Used \in ChallengeRow
  <1>1. Used \in ChallengeRow
    BY DEF ChallengeRow
  <1>2. Used # None
    BY <1>1, NoRowAssumption
  <1>3. QED
    BY <1>1, <1>2 DEF Used

LEMMA ChallengeKept ==
    ASSUME FactorInv, NEW c \in Challenge,
           challenge'[c] = challenge[c], opened'[c] = opened[c], wrong'[c] = wrong[c],
           Failing(c) \subseteq Failing(c)',
           \A f \in Factor : Spent(f) => Spent(f)'
    PROVE  ChallengeOK(c)'
  <1>1. ChallengeOK(c) /\ wrong[c] \in Nat
    BY DEF FactorInv, TypeOK
  <1>2. challenge[c] # None => challenge[c].attempts \in Nat
    BY ChallengeRowFacts DEF FactorInv
  <1>3. challenge'[c] # None /\ ~challenge'[c].used /\ challenge'[c].attempts < MaxAttempts =>
          wrong'[c] <= challenge'[c].attempts + Cardinality(Failing(c)')
    BY <1>1, <1>2, FailingFacts DEF ChallengeOK
  <1>4. opened'[c] # <<>> => \E f \in Factor : opened'[c] = <<f>> /\ Spent(f)'
    BY <1>1 DEF ChallengeOK
  <1>5. challenge'[c] = None \/ challenge'[c].used => wrong'[c] = 0
    BY <1>1 DEF ChallengeOK
  <1>6. challenge'[c] = None \/ ~challenge'[c].used => opened'[c] = <<>>
    BY <1>1 DEF ChallengeOK
  <1>7. QED
    BY <1>3, <1>4, <1>5, <1>6 DEF ChallengeOK

LEMMA ChallengeEnded ==
    ASSUME FactorInv, NEW c \in Challenge,
           challenge'[c] = Used, opened'[c] = opened[c], wrong'[c] = 0,
           \A f \in Factor : Spent(f) => Spent(f)'
    PROVE  ChallengeOK(c)'
  <1>1. ChallengeOK(c)
    BY DEF FactorInv
  <1>2. challenge'[c].used /\ challenge'[c] # None
    BY UsedFacts
  <1>3. opened'[c] # <<>> => \E f \in Factor : opened'[c] = <<f>> /\ Spent(f)'
    BY <1>1 DEF ChallengeOK
  <1>4. QED
    BY <1>2, <1>3 DEF ChallengeOK

-----------------------------------------------------------------------------
(* Steps that only change what is asked                                    *)

LEMMA SameTables ==
    ASSUME UNCHANGED <<tables, user, drawn, history>>, NEW y
    PROVE  /\ RequestOK(y) => RequestOK(y)'
           /\ Keeps(y)
  <1>1. Keeps(y)
    BY DEF Keeps, tables, history, Claimable, Stored
  <1>2. QED
    BY <1>1, RequestKept

LEMMA AskStep ==
    ASSUME FactorInv, UNCHANGED <<tables, user, drawn, history>>,
           NEW p \in Proc, NEW r \in Request, Ask(p, r), RequestOK(r),
           request[p].at # "failed",
           \A q \in Proc \ {p}, y \in Request : y = request[q] => Apart(y, r)
    PROVE  FactorInv'
  <1>1. RequestOK(r)' /\ \A y \in Request : Keeps(y)
    BY SameTables
  <1>2. /\ request' \in [Proc -> Request]
        /\ \A q \in Proc : RequestOK(request[q])'
        /\ \A q, s \in Proc : q # s => Apart(request[q], request[s])'
    BY <1>1, RequestsKept
  <1>3. TypeOK'
    BY <1>2 DEF FactorInv, TypeOK, tables, history
  <1>4. \A f \in Factor : Spent(f) => Spent(f)'
    BY DEF Spent, tables, history
  <1>5. ASSUME NEW c \in Challenge PROVE ChallengeOK(c)'
    <2>1. Failing(c) \subseteq Failing(c)'
      BY DEF Failing, Ask, FactorInv, TypeOK
    <2>2. challenge'[c] = challenge[c] /\ opened'[c] = opened[c] /\ wrong'[c] = wrong[c]
      BY DEF tables, history
    <2>3. QED
      BY <1>4, <2>1, <2>2, ChallengeKept
  <1>6. RowsOK' /\ GuessesAreBounded' /\ EnabledSecretIsOnThePhone' /\ CodesAreOneGeneration'
    BY DEF FactorInv, RowsOK, GuessesAreBounded, EnabledSecretIsOnThePhone,
           CodesAreOneGeneration, Stored, tables, history
  <1>7. QED
    BY <1>2, <1>3, <1>5, <1>6 DEF FactorInv

LEMMA GiveUp ==
    ASSUME FactorInv, UNCHANGED <<tables, user, drawn, history>>,
           NEW p \in Proc, End(p), request[p].at # "failed"
    PROVE  FactorInv'
  <1>1. PICK r \in Request : r = Idle /\ Ask(p, r)
    BY IdleFacts DEF End
  <1>2. RequestOK(r) /\ \A y \in Request : Apart(y, r)
    BY <1>1, IdleOK
  <1>3. QED
    BY <1>1, <1>2, AskStep

LEMMA FreeFacts ==
    ASSUME FactorInv, NEW p \in Proc, Free(p)
    PROVE  request[p].at = "read"
  BY RequestFacts, RequestType DEF Free, Shape

LEMMA NotPendingKeeps == ASSUME FactorInv, NEW p \in Proc, NotPending(p) PROVE FactorInv'
  <1>1. request[p].at # "failed"
    BY RequestFacts DEF NotPending, Shape
  <1>2. QED
    BY <1>1, GiveUp DEF NotPending

LEMMA AbortKeeps == ASSUME FactorInv, NEW p \in Proc, Abort(p) PROVE FactorInv'
  BY GiveUp DEF Abort

LEMMA BeginStartKeeps == ASSUME FactorInv, NEW p \in Proc, BeginStart(p) PROVE FactorInv'
  <1>1. PICK r : r = [Idle EXCEPT !.op = "start"]
    OBVIOUS
  <1>2. r \in Request /\ r.op = "start" /\ r.at = "read"
    BY <1>1 DEF Idle, Request, Op
  <1>3. Ask(p, r) /\ ~totp.enabled /\ Free(p) /\ UNCHANGED <<tables, user, drawn, history>>
    BY <1>1 DEF BeginStart
  <1>4. RequestOK(r)
    BY <1>2, <1>3
    DEF RequestOK, Shape, HoldsFactor, ConfirmsPending, StartsPending, KnowsSecret
  <1>5. \A y \in Request : Apart(y, r)
    BY <1>2 DEF Apart
  <1>6. QED
    BY <1>2, <1>3, <1>4, <1>5, FreeFacts, AskStep

LEMMA BeginConfirmKeeps == ASSUME FactorInv, NEW p \in Proc, BeginConfirm(p) PROVE FactorInv'
  <1>1. PICK t \in Step :
          /\ totp.secret # None /\ Typed(Totp(totp.secret, t))
          /\ Ask(p, [Idle EXCEPT !.op = "confirm", !.factor = Totp(totp.secret, t)])
    BY DEF BeginConfirm
  <1>2. ~totp.enabled /\ Free(p) /\ UNCHANGED <<tables, user, drawn, history>>
    BY DEF BeginConfirm
  <1>3. totp.secret \in Secret
    BY <1>1, TotpFacts DEF FactorInv
  <1>4. PICK f \in Factor : f = Totp(totp.secret, t) /\ f.kind = "totp" /\ f.secret = totp.secret
    <2>1. Totp(totp.secret, t) \in Factor
      BY <1>3 DEF Factor
    <2>2. QED
      BY <2>1 DEF Totp
  <1>5. f.secret \in phone
    BY <1>1, <1>4 DEF Typed
  <1>6. PICK r : r = [Idle EXCEPT !.op = "confirm", !.factor = f]
    OBVIOUS
  <1>7. r \in Request /\ r.op = "confirm" /\ r.at = "read" /\ r.factor = f
    BY <1>6 DEF Idle, Request, Op
  <1>8. Ask(p, r)
    BY <1>1, <1>4, <1>6
  <1>9. RequestOK(r)
    BY <1>4, <1>5, <1>7
    DEF RequestOK, Shape, HoldsFactor, ConfirmsPending, StartsPending, KnowsSecret
  <1>10. \A y \in Request : Apart(y, r)
    BY <1>7 DEF Apart
  <1>11. QED
    BY <1>2, <1>7, <1>8, <1>9, <1>10, FreeFacts, AskStep

LEMMA BeginManageKeeps ==
    ASSUME FactorInv, NEW p \in Proc, NEW op \in {"regenerate", "disable"}, BeginManage(p, op)
    PROVE  FactorInv'
  <1>1. PICK f \in Factor : Ask(p, [Idle EXCEPT !.op = op, !.factor = f])
    BY DEF BeginManage
  <1>2. Free(p) /\ UNCHANGED <<tables, user, drawn, history>>
    BY DEF BeginManage
  <1>3. PICK r : r = [Idle EXCEPT !.op = op, !.factor = f]
    OBVIOUS
  <1>4. r \in Request /\ r.op = op /\ r.at = "read" /\ r.factor = f
    BY <1>3 DEF Idle, Request, Op
  <1>5. RequestOK(r)
    BY <1>4
    DEF RequestOK, Shape, HoldsFactor, ConfirmsPending, StartsPending, KnowsSecret
  <1>6. \A y \in Request : Apart(y, r)
    BY <1>4 DEF Apart
  <1>7. QED
    BY <1>1, <1>2, <1>3, <1>4, <1>5, <1>6, FreeFacts, AskStep

LEMMA BeginLoginKeeps == ASSUME FactorInv, NEW p \in Proc, BeginLogin(p) PROVE FactorInv'
  <1>1. PICK i \in Intents :
          Ask(p, [Idle EXCEPT !.op = "login", !.intent = i, !.seen = Open])
    BY DEF BeginLogin
  <1>2. Free(p) /\ UNCHANGED <<tables, user, drawn, history>>
    BY DEF BeginLogin
  <1>3. PICK r : r = [Idle EXCEPT !.op = "login", !.intent = i, !.seen = Open]
    OBVIOUS
  <1>4. r \in Request /\ r.op = "login" /\ r.at = "read" /\ r.intent = i
    BY <1>3 DEF Idle, Request, Op, Open
  <1>5. RequestOK(r)
    BY <1>4
    DEF RequestOK, Shape, HoldsFactor, ConfirmsPending, StartsPending, KnowsSecret
  <1>6. \A y \in Request : Apart(y, r)
    BY <1>4 DEF Apart
  <1>7. QED
    BY <1>1, <1>2, <1>3, <1>4, <1>5, <1>6, FreeFacts, AskStep

LEMMA LoseRaceKeeps == ASSUME FactorInv, NEW p \in Proc, LoseRace(p) PROVE FactorInv'
  <1>1. PICK x \in Request : x = request[p] /\ x.op = "complete" /\ x.at = "read"
    BY RequestFacts DEF LoseRace
  <1>2. PICK r : r = [x EXCEPT !.at = "failed"]
    OBVIOUS
  <1>3. /\ r \in Request /\ r.op = "complete" /\ r.at = "failed" /\ r.challenge = x.challenge
    BY <1>1, <1>2 DEF Request
  <1>4. Ask(p, r) /\ UNCHANGED <<tables, user, drawn, history>>
    BY <1>1, <1>2 DEF LoseRace
  <1>5. Shape(x) /\ KnowsSecret(x)
    BY <1>1, RequestFacts
  <1>6. RequestOK(r)
    BY <1>1, <1>3, <1>5
    DEF RequestOK, Shape, HoldsFactor, ConfirmsPending, StartsPending, KnowsSecret
  <1>7. \A y \in Request : Apart(y, r)
    BY <1>3 DEF Apart
  <1>8. QED
    BY <1>1, <1>3, <1>4, <1>6, <1>7, AskStep

LEMMA ClaimKeeps == ASSUME FactorInv, NEW p \in Proc, Claim(p) PROVE FactorInv'
  <1>1. PICK x \in Request : /\ x = request[p] /\ x.op \in {"regenerate", "disable"}
                             /\ x.at = "read"
    BY RequestFacts DEF Claim
  <1>2. UNCHANGED <<tables, user, drawn, history>> /\ ~LockedBeside(p, x.factor)
    BY <1>1 DEF Claim
  <1>3. CASE ~Claimable(x.factor)
    BY <1>1, <1>2, <1>3, GiveUp DEF Claim, End
  <1>4. CASE Claimable(x.factor)
    <2>1. PICK r : r = [x EXCEPT !.at = "claimed", !.seen = Stored]
      OBVIOUS
    <2>2. r \in Request /\ r.op = x.op /\ r.at = "claimed" /\ r.factor = x.factor /\ r.seen = Stored
      BY <1>1, <2>1 DEF Request, Stored
    <2>3. Ask(p, r)
      BY <1>1, <1>4, <2>1 DEF Claim
    <2>4. Shape(x)
      BY <1>1, RequestFacts
    <2>5. RequestOK(r)
      BY <1>1, <1>4, <2>2, <2>4
      DEF RequestOK, Shape, HoldsFactor, ConfirmsPending, StartsPending, KnowsSecret
    <2>6. ASSUME NEW q \in Proc \ {p}, NEW y \in Request, y = request[q] PROVE Apart(y, r)
      <3>1. x.factor \in Factor
        BY <1>1, <2>4 DEF Shape
      <3>2. y.at = "claimed" => ~(y.factor.kind = x.factor.kind
                                  /\ (x.factor.kind = "code" => y.factor.code = x.factor.code))
        BY <1>2, <2>6 DEF LockedBeside, Locks, Claimed
      <3>3. QED
        BY <2>2, <3>1, <3>2, FactorFacts DEF Apart
    <2>7. QED
      BY <1>1, <1>2, <2>2, <2>3, <2>5, <2>6, AskStep
  <1>5. QED
    BY <1>3, <1>4

-----------------------------------------------------------------------------
(* Steps that change the tables                                            *)

LEMMA FailingKept ==
    ASSUME FactorInv, NEW p \in Proc, NEW r, Ask(p, r), request[p].at # "failed", NEW c
    PROVE  Failing(c) \subseteq Failing(c)'
  BY DEF Failing, Ask, FactorInv, TypeOK

LEMMA EndStep ==
    ASSUME FactorInv, NEW p \in Proc, End(p),
           \A q \in Proc \ {p}, y \in Request : y = request[q] => Keeps(y)
    PROVE  /\ request' \in [Proc -> Request]
           /\ \A q \in Proc : RequestOK(request[q])'
           /\ \A q, s \in Proc : q # s => Apart(request[q], request[s])'
           /\ request[p].at # "failed" => \A c : Failing(c) \subseteq Failing(c)'
  <1>1. PICK r \in Request : r = Idle /\ Ask(p, r)
    BY IdleFacts DEF End
  <1>2. RequestOK(r)' /\ \A y \in Request : Apart(y, r)
    <2>1. RequestOK(r)'
      BY <1>1, IdleFacts
      DEF RequestOK, Shape, HoldsFactor, ConfirmsPending, StartsPending, KnowsSecret
    <2>2. QED
      BY <1>1, <2>1, IdleOK
  <1>3. QED
    BY <1>1, <1>2, RequestsKept, FailingKept

\* What the rows of another request's claim say of a step that does not lock the same.
LEMMA OtherClaims ==
    ASSUME FactorInv, NEW p \in Proc, NEW q \in Proc \ {p}, NEW y \in Request, y = request[q]
    PROVE  /\ Shape(y) /\ HoldsFactor(y) /\ KnowsSecret(y)
           /\ y.at = "claimed" => y.factor \in Factor /\ Claimable(y.factor)
           /\ y.at = "claimed" /\ y.factor.kind = "totp" => TotpLocked(p)
           /\ y.at = "claimed" /\ y.factor.kind = "code" =>
                /\ LockedBeside(p, Recovery(y.factor.code))
                /\ y.factor.code \in Stored /\ code[y.factor.code] = "unused"
           /\ y.at = "claimed" => LockedBeside(p, y.factor)
  <1>1. Shape(y) /\ HoldsFactor(y) /\ KnowsSecret(y)
    BY RequestFacts
  <1>2. y.at = "claimed" => y.factor \in Factor /\ Claimable(y.factor)
    BY <1>1 DEF Shape, HoldsFactor
  <1>3. y.at = "claimed" => LockedBeside(p, y.factor)
    BY DEF LockedBeside, Locks, Claimed
  <1>4. y.at = "claimed" /\ y.factor.kind = "totp" => TotpLocked(p)
    BY DEF TotpLocked, LockedBeside, Locks, Claimed
  <1>5. ASSUME y.at = "claimed", y.factor.kind = "code"
        PROVE  /\ LockedBeside(p, Recovery(y.factor.code))
               /\ y.factor.code \in Stored /\ code[y.factor.code] = "unused"
    <2>1. y.factor = Recovery(y.factor.code) /\ y.factor.code \in Code
      BY <1>2, <1>5, FactorFacts
    <2>2. code[y.factor.code] = "unused"
      BY <1>2, <1>5 DEF Claimable
    <2>3. QED
      BY <1>3, <1>5, <2>1, <2>2 DEF Stored
  <1>6. QED
    BY <1>1, <1>2, <1>3, <1>4, <1>5

LEMMA StartKeeps == ASSUME FactorInv, NEW p \in Proc, Start(p) PROVE FactorInv'
  <1>1. PICK s \in Fresh(Secret) :
          /\ totp' = [totp EXCEPT !.secret = s, !.last = 0]
          /\ drawn' = drawn \cup {s}
          /\ Show(s)
    BY DEF Start
  <1>2. /\ request[p].op = "start" /\ ~TotpLocked(p)
        /\ raced' = Overlap(p, {"confirm"}, "enrolment")
        /\ End(p) /\ UNCHANGED <<code, challenge, user, opened, wrong>>
    BY DEF Start
  <1>3. s \in Secret /\ s \notin drawn
    BY FreshFacts
  <1>4. /\ totp' \in TotpRow /\ totp'.secret = s /\ totp'.enabled = totp.enabled /\ totp'.last = 0
        /\ totp'.last \in Nat
    <2>1. totp \in [secret : Secret, enabled : BOOLEAN, last : 0 .. MaxStep] \/ totp = NoTotp
      BY DEF FactorInv, TypeOK, TotpRow
    <2>2. 0 \in 0 .. MaxStep
      BY MultiFactorAssumption
    <2>3. PICK y : y = totp'
      OBVIOUS
    <2>4. CASE totp \in [secret : Secret, enabled : BOOLEAN, last : 0 .. MaxStep]
      <3>1. /\ y \in [secret : Secret, enabled : BOOLEAN, last : 0 .. MaxStep]
            /\ y.secret = s /\ y.enabled = totp.enabled /\ y.last = 0
        BY <1>1, <1>3, <2>2, <2>3, <2>4
      <3>2. QED
        BY <2>3, <3>1 DEF TotpRow
    <2>5. CASE totp = NoTotp
      <3>1. y = [secret |-> s, enabled |-> FALSE, last |-> 0] /\ totp.enabled = FALSE
        BY <1>1, <2>3, <2>5 DEF NoTotp
      <3>2. y \in [secret : Secret, enabled : BOOLEAN, last : 0 .. MaxStep]
        BY <1>3, <2>2, <3>1
      <3>3. y.secret = s /\ y.enabled = FALSE /\ y.last = 0 /\ y.last \in Nat
        BY <3>1
      <3>4. totp' \in TotpRow
        BY <2>3, <3>2 DEF TotpRow
      <3>5. QED
        BY <2>3, <3>1, <3>3, <3>4
    <2>6. QED
      BY <2>1, <2>4, <2>5
  <1>5. raced \subseteq raced' /\ raced' \subseteq raced \cup {"enrolment"}
    BY <1>2 DEF Overlap
  <1>6. phone \subseteq phone' /\ phone' \subseteq Secret
    BY <1>1, <1>3 DEF Show, FactorInv, TypeOK
  <1>7. "enrolment" \notin raced => ~totp.enabled
    BY <1>2, RequestFacts DEF StartsPending
  <1>8. Stored' = Stored
    BY <1>2 DEF Stored
  <1>9. ASSUME NEW q \in Proc \ {p}, NEW y \in Request, y = request[q] PROVE Keeps(y)
    <2>1. y.at = "claimed" => y.factor.kind = "code"
      BY <1>2, <1>9, OtherClaims, FactorFacts
    <2>2. y.at = "claimed" /\ Claimable(y.factor) => Claimable(y.factor)'
      BY <1>2, <2>1 DEF Claimable
    <2>3. y.op = "confirm" => "enrolment" \in raced'
      BY <1>2, <1>9 DEF Overlap
    <2>4. QED
      BY <1>2, <1>4, <1>5, <1>6, <1>7, <1>8, <2>2, <2>3 DEF Keeps
  <1>10. request[p].at # "failed"
    BY <1>2, RequestFacts DEF Shape
  <1>11. /\ request' \in [Proc -> Request]
         /\ \A q \in Proc : RequestOK(request[q])'
         /\ \A q, t \in Proc : q # t => Apart(request[q], request[t])'
         /\ \A c : Failing(c) \subseteq Failing(c)'
    BY <1>2, <1>9, <1>10, EndStep
  <1>12. TypeOK'
    BY <1>1, <1>2, <1>3, <1>4, <1>5, <1>6, <1>11 DEF FactorInv, TypeOK
  <1>13. NothingForgotten
    BY <1>1, <1>2, <1>3, <1>4, <1>5 DEF NothingForgotten
  <1>14. \A c \in Challenge : ChallengeOK(c)'
    BY <1>2, <1>4, <1>11, <1>13, SpentKept, ChallengeKept DEF FactorInv
  <1>15. RowsOK'
    BY <1>1, <1>4, <1>8 DEF FactorInv, RowsOK
  <1>16. GuessesAreBounded' /\ EnabledSecretIsOnThePhone' /\ CodesAreOneGeneration'
    BY <1>2, <1>4, <1>5, <1>7, <1>8
    DEF FactorInv, GuessesAreBounded, EnabledSecretIsOnThePhone, CodesAreOneGeneration
  <1>17. QED
    BY <1>11, <1>12, <1>14, <1>15, <1>16 DEF FactorInv

\* The codes that a replacement leaves, and that it revives none.
LEMMA ReplaceFacts ==
    ASSUME FactorInv, NEW seen, NEW b \in Fresh(Batch), code' = Replace(seen, b)
    PROVE  /\ b \in Batch /\ b \notin drawn
           /\ code' \in [Code -> {"absent", "unused", "used"}]
           /\ \A c \in Code : c[1] # b => code'[c] = IF c \in seen THEN "absent" ELSE code[c]
           /\ \A c \in Code : c[1] = b => code'[c] = "unused"
           /\ \A c \in Code : c[1] \in drawn /\ code'[c] = "unused" => code[c] = "unused"
           /\ Stored' \subseteq Code
           /\ \A c \in Stored' : c[1] = b \/ c \in Stored \ seen
  <1>1. b \in Batch /\ b \notin drawn
    BY FreshFacts
  <1>2. \A c \in Code : c \in CodesOf(b) <=> c[1] = b
    BY DEF Code, CodesOf
  <1>3. /\ \A c \in Code : c[1] # b => code'[c] = IF c \in seen THEN "absent" ELSE code[c]
        /\ \A c \in Code : c[1] = b => code'[c] = "unused"
    BY <1>2 DEF Replace
  <1>4. code' \in [Code -> {"absent", "unused", "used"}]
    BY DEF Replace, FactorInv, TypeOK
  <1>5. \A c \in Code : c[1] \in drawn /\ code'[c] = "unused" => code[c] = "unused"
    BY <1>1, <1>3
  <1>6. Stored' \subseteq Code /\ \A c \in Stored' : c[1] = b \/ c \in Stored \ seen
    BY <1>3 DEF Stored
  <1>7. QED
    BY <1>1, <1>3, <1>4, <1>5, <1>6

LEMMA ConfirmKeeps == ASSUME FactorInv, NEW p \in Proc, Confirm(p) PROVE FactorInv'
  <1>1. PICK f \in Factor : /\ f = request[p].factor /\ f.kind = "totp" /\ f.step \in Step
                            /\ f.secret \in phone
                            /\ "enrolment" \notin raced => totp.secret = f.secret
    BY RequestFacts, FactorFacts DEF Confirm, Shape, ConfirmsPending
  <1>2. PICK b \in Fresh(Batch) :
          /\ totp' = [totp EXCEPT !.enabled = TRUE, !.last = f.step]
          /\ code' = Replace(Stored, b)
          /\ drawn' = drawn \cup {b}
    BY <1>1 DEF Confirm
  <1>3. /\ request[p].op = "confirm" /\ ~TotpLocked(p)
        /\ totp # NoTotp /\ ~totp.enabled
        /\ \A c \in Stored : ~LockedBeside(p, Recovery(c))
        /\ raced' = Overlap(p, {"start"}, "enrolment")
        /\ End(p)
        /\ UNCHANGED <<challenge, user, opened, wrong, phone>>
    BY DEF Confirm
  <1>4. /\ totp' \in TotpRow /\ totp'.secret = totp.secret /\ totp'.enabled /\ totp'.last = f.step
        /\ totp'.last \in Nat
    <2>1. totp \in [secret : Secret, enabled : BOOLEAN, last : 0 .. MaxStep]
      BY <1>3, TotpFacts DEF FactorInv
    <2>2. f.step \in 0 .. MaxStep /\ f.step \in Nat
      BY <1>1, MultiFactorAssumption DEF Step
    <2>3. QED
      BY <1>2, <2>1, <2>2 DEF TotpRow
  <1>5. raced \subseteq raced' /\ raced' \subseteq raced \cup {"enrolment"}
    BY <1>3 DEF Overlap
  <1>6. ASSUME NEW q \in Proc \ {p}, NEW y \in Request, y = request[q] PROVE Keeps(y)
    <2>1. y.at # "claimed"
      BY <1>3, <1>6, OtherClaims, FactorFacts
    <2>2. y.op = "start" => "enrolment" \in raced'
      BY <1>3, <1>6 DEF Overlap
    <2>3. QED
      BY <1>3, <1>4, <1>5, <2>1, <2>2 DEF Keeps
  <1>7. request[p].at # "failed"
    BY <1>3, RequestFacts DEF Shape
  <1>8. /\ request' \in [Proc -> Request]
        /\ \A q \in Proc : RequestOK(request[q])'
        /\ \A q, t \in Proc : q # t => Apart(request[q], request[t])'
        /\ \A c : Failing(c) \subseteq Failing(c)'
    BY <1>3, <1>6, <1>7, EndStep
  <1>9. TypeOK'
    BY <1>2, <1>3, <1>4, <1>5, <1>8, ReplaceFacts DEF FactorInv, TypeOK
  <1>10. NothingForgotten
    BY <1>2, <1>3, <1>4, <1>5, ReplaceFacts DEF NothingForgotten
  <1>11. \A c \in Challenge : ChallengeOK(c)'
    BY <1>3, <1>4, <1>8, <1>10, SpentKept, ChallengeKept DEF FactorInv
  <1>12. \A c \in Stored' : c[1] = b
    BY <1>2, ReplaceFacts
  <1>13. RowsOK'
    BY <1>2, <1>4, <1>12 DEF FactorInv, RowsOK
  <1>14. GuessesAreBounded' /\ EnabledSecretIsOnThePhone' /\ CodesAreOneGeneration'
    BY <1>1, <1>3, <1>4, <1>5, <1>12
    DEF FactorInv, GuessesAreBounded, EnabledSecretIsOnThePhone, CodesAreOneGeneration
  <1>15. QED
    BY <1>8, <1>9, <1>11, <1>13, <1>14 DEF FactorInv

LEMMA SpendStepFacts ==
    ASSUME FactorInv, NEW f \in Factor, Claimable(f), totp' = SpendStep(f)
    PROVE  /\ totp' \in TotpRow /\ totp'.secret = totp.secret /\ totp'.enabled = totp.enabled
           /\ totp'.last \in Nat /\ totp.last <= totp'.last
           /\ f.kind = "totp" => totp.enabled /\ totp'.last = f.step /\ totp.last < f.step
           /\ f.kind = "code" => totp' = totp
           /\ totp' # NoTotp => totp # NoTotp
           /\ ~totp'.enabled => totp'.last = 0
  <1>1. totp.last \in Nat /\ totp \in TotpRow /\ (~totp.enabled => totp.last = 0)
    BY TotpFacts, MultiFactorAssumption DEF FactorInv, TypeOK, RowsOK
  <1>2. CASE f.kind = "code"
    BY <1>1, <1>2 DEF SpendStep
  <1>3. CASE f.kind = "totp"
    <2>1. totp.enabled /\ totp.last < f.step
      BY <1>3 DEF Claimable
    <2>2. totp # NoTotp /\ totp \in [secret : Secret, enabled : BOOLEAN, last : 0 .. MaxStep]
      BY <2>1, TotpFacts DEF FactorInv
    <2>3. f.step \in 0 .. MaxStep /\ f.step \in Nat
      BY <1>3, FactorFacts, MultiFactorAssumption DEF Step
    <2>4. totp' = [totp EXCEPT !.last = f.step]
      BY <1>3 DEF SpendStep
    <2>5. /\ totp' \in [secret : Secret, enabled : BOOLEAN, last : 0 .. MaxStep]
          /\ totp'.secret = totp.secret /\ totp'.enabled = totp.enabled /\ totp'.last = f.step
      BY <2>2, <2>3, <2>4
    <2>6. QED
      BY <1>1, <1>3, <2>1, <2>2, <2>3, <2>5 DEF TotpRow
  <1>4. QED
    BY <1>2, <1>3, FactorFacts

LEMMA ClaimFacts ==
    ASSUME FactorInv, NEW p \in Proc, Claimed(p)
    PROVE  /\ request[p].factor \in Factor /\ Claimable(request[p].factor)
           /\ request[p].at = "claimed" /\ request[p].seen \subseteq Code \cup Challenge
           /\ "codes" \notin raced => Stored \subseteq request[p].seen
           /\ "codes" \notin raced => totp.enabled
  <1>1. request[p].at = "claimed"
    BY DEF Claimed
  <1>2. /\ request[p].factor \in Factor /\ Claimable(request[p].factor)
        /\ "codes" \notin raced => Stored \subseteq request[p].seen
    BY <1>1, RequestFacts DEF Shape, HoldsFactor
  <1>3. request[p].factor.kind = "code" => request[p].factor.code \in Stored
    BY <1>2, FactorFacts DEF Claimable, Stored
  <1>4. request[p].factor.kind = "totp" => totp.enabled
    BY <1>2 DEF Claimable
  <1>5. "codes" \notin raced => totp.enabled
    BY <1>2, <1>3, <1>4, FactorFacts DEF FactorInv, CodesAreOneGeneration
  <1>6. QED
    BY <1>1, <1>2, <1>5, RequestFacts, RequestType

LEMMA RegenerateKeeps == ASSUME FactorInv, NEW p \in Proc, Regenerate(p) PROVE FactorInv'
  <1>1. Claimed(p) /\ \A c \in request[p].seen \cap Stored : ~LockedBeside(p, Recovery(c))
    BY DEF Regenerate, Deletable
  <1>2. PICK f \in Factor : f = request[p].factor /\ Claimable(f)
    BY <1>1, ClaimFacts
  <1>3. PICK seen : seen = request[p].seen
    OBVIOUS
  <1>4. PICK b \in Fresh(Batch) : code' = Replace(seen, b) /\ drawn' = drawn \cup {b}
    BY <1>3 DEF Regenerate
  <1>5. /\ totp' = SpendStep(f)
        /\ raced' = IF \E q \in Proc \ {p} : Claimed(q) THEN raced \cup {"codes"} ELSE raced
        /\ End(p)
        /\ UNCHANGED <<challenge, user, opened, wrong, phone>>
    BY <1>2 DEF Regenerate
  <1>6. /\ totp' \in TotpRow /\ totp'.secret = totp.secret /\ totp'.enabled = totp.enabled
        /\ totp'.last \in Nat /\ totp.last <= totp'.last
        /\ f.kind = "code" => totp' = totp
        /\ totp' # NoTotp => totp # NoTotp
        /\ ~totp'.enabled => totp'.last = 0
    BY <1>2, <1>5, SpendStepFacts
  <1>7. raced \subseteq raced' /\ raced' \subseteq raced \cup {"codes"}
    BY <1>5
  <1>8. ASSUME NEW q \in Proc \ {p}, NEW y \in Request, y = request[q] PROVE Keeps(y)
    <2>1. y.at = "claimed" => "codes" \in raced'
      BY <1>5, <1>8 DEF Claimed
    <2>2. y.at = "claimed" => Claimable(y.factor)'
      <3> SUFFICES ASSUME y.at = "claimed" PROVE Claimable(y.factor)'
        OBVIOUS
      <3>1. y.factor \in Factor /\ Claimable(y.factor)
        BY <1>8, OtherClaims
      <3>2. CASE y.factor.kind = "totp"
        <4>1. f.kind # "totp"
          BY <1>1, <1>2, <1>8, <3>2 DEF Claimed, FactorInv, Apart
        <4>2. totp' = totp
          BY <1>6, <4>1, FactorFacts
        <4>3. QED
          BY <3>1, <3>2, <4>2 DEF Claimable
      <3>3. CASE y.factor.kind = "code"
        <4>1. /\ LockedBeside(p, Recovery(y.factor.code))
              /\ y.factor.code \in Stored /\ code[y.factor.code] = "unused"
          BY <1>8, <3>3, OtherClaims
        <4>2. y.factor.code \notin seen
          BY <1>1, <1>3, <4>1
        <4>3. y.factor.code \in Code
          BY <4>1 DEF Stored
        <4>4. code'[y.factor.code] = "unused"
          BY <1>4, <4>1, <4>2, <4>3, ReplaceFacts
        <4>5. QED
          BY <3>3, <4>4 DEF Claimable
      <3>4. QED
        BY <3>1, <3>2, <3>3, FactorFacts
    <2>3. QED
      BY <1>5, <1>6, <1>7, <2>1, <2>2 DEF Keeps
  <1>9. request[p].at # "failed"
    BY <1>1 DEF Claimed
  <1>10. /\ request' \in [Proc -> Request]
         /\ \A q \in Proc : RequestOK(request[q])'
         /\ \A q, t \in Proc : q # t => Apart(request[q], request[t])'
         /\ \A c : Failing(c) \subseteq Failing(c)'
    BY <1>5, <1>8, <1>9, EndStep
  <1>11. TypeOK'
    BY <1>4, <1>5, <1>6, <1>7, <1>10, ReplaceFacts DEF FactorInv, TypeOK
  <1>12. NothingForgotten
    BY <1>4, <1>6, <1>7, ReplaceFacts DEF NothingForgotten
  <1>13. \A c \in Challenge : ChallengeOK(c)'
    BY <1>5, <1>6, <1>10, <1>12, SpentKept, ChallengeKept DEF FactorInv
  <1>14. \A c \in Stored' : c[1] = b \/ c \in Stored \ seen
    BY <1>4, ReplaceFacts
  <1>15. RowsOK'
    BY <1>4, <1>6, <1>14 DEF FactorInv, RowsOK
  <1>16. CodesAreOneGeneration'
    <2>1. "codes" \notin raced => Stored \subseteq seen /\ totp.enabled
      BY <1>1, <1>3, ClaimFacts
    <2>2. QED
      BY <1>6, <1>7, <1>14, <2>1 DEF CodesAreOneGeneration
  <1>17. GuessesAreBounded' /\ EnabledSecretIsOnThePhone'
    BY <1>5, <1>6, <1>7 DEF FactorInv, GuessesAreBounded, EnabledSecretIsOnThePhone
  <1>18. QED
    BY <1>10, <1>11, <1>13, <1>15, <1>16, <1>17 DEF FactorInv

\* Ended and Close, row by row.
LEMMA CloseFacts ==
    ASSUME FactorInv, NEW cs, Close(cs)
    PROVE  /\ challenge' \in [Challenge -> ChallengeRow \cup {None}]
           /\ wrong' \in [Challenge -> Nat]
           /\ \A c \in Challenge :
                /\ challenge[c] = None => challenge'[c] = None /\ wrong'[c] = wrong[c]
                /\ challenge[c] # None =>
                     /\ challenge'[c] # None
                     /\ c \in cs => challenge'[c] = Used /\ wrong'[c] = 0
                     /\ c \notin cs => challenge'[c] = challenge[c] /\ wrong'[c] = wrong[c]
  <1>1. challenge' \in [Challenge -> ChallengeRow \cup {None}]
    BY UsedFacts DEF Close, Ended, FactorInv, TypeOK
  <1>2. wrong' \in [Challenge -> Nat]
    BY DEF Close, FactorInv, TypeOK
  <1>3. \A c \in Challenge : challenge[c] = None => wrong[c] = 0
    BY DEF FactorInv, ChallengeOK
  <1>4. QED
    BY <1>1, <1>2, <1>3, UsedFacts DEF Close, Ended

LEMMA ClosedChallenges ==
    ASSUME FactorInv, NEW cs, Close(cs), UNCHANGED opened,
           \A c \in Challenge : Failing(c) \subseteq Failing(c)',
           \A f \in Factor : Spent(f) => Spent(f)'
    PROVE  /\ \A c \in Challenge : ChallengeOK(c)'
           /\ GuessesAreBounded'
  <1>1. ASSUME NEW c \in Challenge PROVE ChallengeOK(c)'
    <2>1. CASE challenge[c] # None /\ c \in cs
      BY <2>1, CloseFacts, ChallengeEnded
    <2>2. CASE ~(challenge[c] # None /\ c \in cs)
      BY <2>2, CloseFacts, ChallengeKept
    <2>3. QED
      BY <2>1, <2>2
  <1>2. GuessesAreBounded'
    <2>1. MaxAttempts \in Nat \ {0} /\ Cardinality(Proc) \in Nat
      BY FailingFacts, MultiFactorAssumption
    <2>2. \A c \in Challenge : wrong'[c] = wrong[c] \/ wrong'[c] = 0
      BY CloseFacts
    <2>3. QED
      BY <2>1, <2>2 DEF FactorInv, GuessesAreBounded
  <1>3. QED
    BY <1>1, <1>2

LEMMA DisableKeeps == ASSUME FactorInv, NEW p \in Proc, Disable(p) PROVE FactorInv'
  <1>1. /\ Claimed(p) /\ ~TotpLocked(p)
        /\ \A c \in request[p].seen \cap Stored : ~LockedBeside(p, Recovery(c))
        /\ End(p)
        /\ raced' = IF \E q \in Proc \ {p} : Claimed(q) THEN raced \cup {"codes"} ELSE raced
        /\ UNCHANGED <<user, drawn, opened, phone>>
    BY DEF Disable, Deletable
  <1>2. request[p].at # "failed"
    BY <1>1 DEF Claimed
  <1>3. raced \subseteq raced' /\ raced' \subseteq raced \cup {"codes"}
    BY <1>1
  <1>4. CASE ~totp.enabled
    <2>1. UNCHANGED <<totp, code, challenge, wrong>>
      BY <1>4 DEF Disable, tables
    <2>2. \A y \in Request : Keeps(y)
      BY <1>1, <1>3, <2>1 DEF Keeps, Claimable, Stored
    <2>3. /\ request' \in [Proc -> Request]
          /\ \A q \in Proc : RequestOK(request[q])'
          /\ \A q, t \in Proc : q # t => Apart(request[q], request[t])'
          /\ \A c : Failing(c) \subseteq Failing(c)'
      BY <1>1, <1>2, <2>2, EndStep
    <2>4. TypeOK'
      BY <1>1, <1>3, <2>1, <2>3 DEF FactorInv, TypeOK
    <2>5. \A f \in Factor : Spent(f) => Spent(f)'
      BY <1>1, <1>3, <2>1 DEF Spent
    <2>6. \A c \in Challenge : ChallengeOK(c)'
      BY <1>1, <2>1, <2>3, <2>5, ChallengeKept
    <2>7. RowsOK' /\ GuessesAreBounded' /\ EnabledSecretIsOnThePhone' /\ CodesAreOneGeneration'
      BY <1>1, <1>3, <2>1
      DEF FactorInv, RowsOK, GuessesAreBounded, EnabledSecretIsOnThePhone,
          CodesAreOneGeneration, Stored
    <2>8. QED
      BY <2>3, <2>4, <2>6, <2>7 DEF FactorInv
  <1>5. CASE totp.enabled
    <2>1. PICK seen : seen = request[p].seen
      OBVIOUS
    <2>2. /\ code' = [c \in Code |-> IF c \in seen THEN "absent" ELSE code[c]]
          /\ totp' = NoTotp /\ Close(Challenge)
      BY <1>5, <2>1 DEF Disable
    <2>3. totp'.secret = None /\ totp'.enabled = FALSE /\ totp'.last = 0
      BY <2>2 DEF NoTotp
    <2>4. Stored' \subseteq Stored \ seen
      BY <2>2 DEF Stored
    <2>5. ASSUME NEW q \in Proc \ {p}, NEW y \in Request, y = request[q] PROVE Keeps(y)
      <3>1. y.at = "claimed" => Claimable(y.factor)'
        <4> SUFFICES ASSUME y.at = "claimed" PROVE Claimable(y.factor)'
          OBVIOUS
        <4>1. y.factor.kind = "code"
          BY <1>1, <2>5, OtherClaims, FactorFacts
        <4>2. /\ LockedBeside(p, Recovery(y.factor.code))
              /\ y.factor.code \in Stored /\ code[y.factor.code] = "unused"
          BY <2>5, <4>1, OtherClaims
        <4>3. y.factor.code \notin seen /\ y.factor.code \in Code
          BY <1>1, <2>1, <4>2 DEF Stored
        <4>4. QED
          BY <2>2, <4>1, <4>2, <4>3 DEF Claimable
      <3>2. y.op = "complete" => y.challenge \in Challenge
        BY <2>5, OtherClaims DEF Shape
      <3>3. y.op = "complete" /\ challenge[y.challenge] # None =>
              challenge'[y.challenge] # None /\ challenge'[y.challenge].used
        BY <2>2, <3>2, CloseFacts, UsedFacts
      <3>4. QED
        BY <1>1, <1>3, <2>2, <2>3, <2>4, <3>1, <3>3 DEF Keeps
    <2>6. /\ request' \in [Proc -> Request]
          /\ \A q \in Proc : RequestOK(request[q])'
          /\ \A q, t \in Proc : q # t => Apart(request[q], request[t])'
          /\ \A c : Failing(c) \subseteq Failing(c)'
      BY <1>1, <1>2, <2>5, EndStep
    <2>7. TypeOK'
      <3>1. code' \in [Code -> {"absent", "unused", "used"}]
        BY <2>2 DEF FactorInv, TypeOK
      <3>2. totp' \in TotpRow
        BY <2>2 DEF TotpRow
      <3>3. QED
        BY <1>1, <1>3, <2>2, <2>6, <3>1, <3>2, CloseFacts DEF FactorInv, TypeOK
    <2>8. NothingForgotten
      <3>1. None \notin drawn
        BY MultiFactorAssumption DEF FactorInv, TypeOK
      <3>2. QED
        BY <1>1, <1>3, <2>2, <2>3, <3>1 DEF NothingForgotten
    <2>9. \A f \in Factor : Spent(f) => Spent(f)'
      BY <2>3, <2>8, SpentKept DEF FactorInv
    <2>10. (\A c \in Challenge : ChallengeOK(c)') /\ GuessesAreBounded'
      BY <1>1, <2>2, <2>6, <2>9, ClosedChallenges
    <2>11. RowsOK' /\ EnabledSecretIsOnThePhone'
      BY <1>1, <2>3, <2>4 DEF FactorInv, RowsOK, EnabledSecretIsOnThePhone
    <2>12. CodesAreOneGeneration'
      <3>1. "codes" \notin raced => Stored \subseteq seen
        BY <1>1, <2>1, ClaimFacts
      <3>2. QED
        BY <1>3, <2>4, <3>1 DEF CodesAreOneGeneration
    <2>13. QED
      BY <2>6, <2>7, <2>10, <2>11, <2>12 DEF FactorInv
  <1>6. QED
    BY <1>4, <1>5

LEMMA StartChallengeKeeps == ASSUME FactorInv, NEW p \in Proc, StartChallenge(p) PROVE FactorInv'
  <1>1. PICK r \in Request : r = request[p] /\ r.op = "login" /\ r.at # "failed" /\ r.intent \in Intents
    BY RequestFacts DEF StartChallenge, Shape
  <1>2. PICK new : new = [used |-> FALSE, expired |-> FALSE, attempts |-> 0, intent |-> r.intent]
    OBVIOUS
  <1>3. PICK c \in Challenge :
          challenge[c] = None /\ challenge' = [Ended(r.seen) EXCEPT ![c] = new]
    BY <1>1, <1>2 DEF StartChallenge
  <1>4. /\ wrong' = [d \in Challenge |-> IF d \in r.seen THEN 0 ELSE wrong[d]]
        /\ End(p)
        /\ UNCHANGED <<totp, code, user, drawn, opened, phone, raced>>
    BY <1>1 DEF StartChallenge
  <1>5. new \in ChallengeRow /\ new # None /\ new.used = FALSE /\ new.attempts = 0
    <2>1. 0 \in 0 .. MaxAttempts
      BY MultiFactorAssumption
    <2>2. new \in ChallengeRow
      BY <1>1, <1>2, <2>1 DEF ChallengeRow
    <2>3. QED
      BY <1>2, <2>2, NoRowAssumption
  <1>6. /\ challenge'[c] = new
        /\ \A d \in Challenge \ {c} :
             challenge'[d] = IF d \in r.seen /\ challenge[d] # None THEN Used ELSE challenge[d]
        /\ challenge' \in [Challenge -> ChallengeRow \cup {None}]
    <2>1. Ended(r.seen) \in [Challenge -> ChallengeRow \cup {None}]
      BY UsedFacts DEF Ended, FactorInv, TypeOK
    <2>2. QED
      BY <1>3, <1>5, <2>1 DEF Ended
  <1>7. ASSUME NEW q \in Proc \ {p}, NEW y \in Request, y = request[q] PROVE Keeps(y)
    <2>1. y.op = "complete" => y.challenge \in Challenge
      BY <1>7, OtherClaims DEF Shape
    <2>2. y.op = "complete" /\ challenge[y.challenge] # None =>
            /\ challenge'[y.challenge] # None
            /\ ~challenge'[y.challenge].used => ~challenge[y.challenge].used
      BY <1>3, <1>6, <2>1, UsedFacts
    <2>3. QED
      BY <1>4, <2>2 DEF Keeps, Claimable, Stored
  <1>8. /\ request' \in [Proc -> Request]
        /\ \A q \in Proc : RequestOK(request[q])'
        /\ \A q, t \in Proc : q # t => Apart(request[q], request[t])'
        /\ \A d : Failing(d) \subseteq Failing(d)'
    BY <1>1, <1>4, <1>7, EndStep
  <1>9. TypeOK'
    BY <1>4, <1>6, <1>8 DEF FactorInv, TypeOK
  <1>10. \A f \in Factor : Spent(f) => Spent(f)'
    BY <1>4 DEF Spent
  <1>11. \A d \in Challenge : challenge[d] = None => wrong[d] = 0 /\ opened[d] = <<>>
    BY DEF FactorInv, ChallengeOK
  <1>12. ASSUME NEW d \in Challenge PROVE ChallengeOK(d)'
    <2>1. CASE d = c
      <3>1. wrong'[c] = 0 /\ opened'[c] = <<>>
        BY <1>3, <1>4, <1>11
      <3>2. 0 <= 0 + Cardinality(Failing(d)')
        BY FailingFacts
      <3>3. QED
        BY <1>5, <1>6, <2>1, <3>1, <3>2 DEF ChallengeOK
    <2>2. CASE d # c /\ d \in r.seen /\ challenge[d] # None
      BY <1>4, <1>6, <1>10, <2>2, ChallengeEnded
    <2>3. CASE d # c /\ ~(d \in r.seen /\ challenge[d] # None)
      BY <1>4, <1>6, <1>8, <1>10, <1>11, <2>3, ChallengeKept
    <2>4. QED
      BY <2>1, <2>2, <2>3
  <1>13. GuessesAreBounded'
    <2>1. MaxAttempts \in Nat \ {0} /\ Cardinality(Proc) \in Nat
      BY FailingFacts, MultiFactorAssumption
    <2>2. QED
      BY <1>4, <2>1 DEF FactorInv, GuessesAreBounded
  <1>14. RowsOK' /\ EnabledSecretIsOnThePhone' /\ CodesAreOneGeneration'
    BY <1>4 DEF FactorInv, RowsOK, EnabledSecretIsOnThePhone, CodesAreOneGeneration, Stored
  <1>15. QED
    BY <1>8, <1>9, <1>12, <1>13, <1>14 DEF FactorInv

LEMMA BeginCompleteKeeps == ASSUME FactorInv, NEW p \in Proc, BeginComplete(p) PROVE FactorInv'
  <1>1. PICK c \in Open, allowed \in Endpoints, f \in Factor \cup {Wrong} :
          /\ f # Wrong => Presentable(c, allowed) /\ Typed(f) /\ Accepts(f)
          /\ Ask(p, [Idle EXCEPT !.op = "complete", !.challenge = c, !.factor = f,
                                 !.at = IF f = Wrong THEN "failed" ELSE "read"])
          /\ wrong' = IF f = Wrong /\ Presentable(c, allowed)
                        THEN [wrong EXCEPT ![c] = @ + 1] ELSE wrong
    BY DEF BeginComplete
  <1>2. Free(p) /\ UNCHANGED <<tables, user, drawn, opened, phone, raced>>
    BY DEF BeginComplete
  <1>3. c \in Challenge /\ challenge[c] # None /\ ~challenge[c].used
    BY DEF Open
  <1>4. PICK r : r = [Idle EXCEPT !.op = "complete", !.challenge = c, !.factor = f,
                                  !.at = IF f = Wrong THEN "failed" ELSE "read"]
    OBVIOUS
  <1>5. /\ r \in Request /\ r.op = "complete" /\ r.challenge = c /\ r.factor = f
        /\ r.at = IF f = Wrong THEN "failed" ELSE "read"
    BY <1>3, <1>4 DEF Idle, Request, Op
  <1>6. Ask(p, r)
    BY <1>1, <1>4
  <1>7. request[p].at = "read"
    BY <1>2, FreeFacts
  <1>8. RequestOK(r)'
    <2>1. f # Wrong => f \in Factor /\ totp.enabled /\ (f.kind = "totp" => totp.secret = f.secret)
      BY <1>1, FactorFacts DEF Presentable, Accepts, Validates
    <2>2. Shape(r)'
      BY <1>3, <1>5, <2>1 DEF Shape
    <2>3. KnowsSecret(r)'
      BY <1>2, <1>3, <1>5, <2>1 DEF KnowsSecret, tables
    <2>4. QED
      BY <1>5, <2>2, <2>3 DEF RequestOK, HoldsFactor, ConfirmsPending, StartsPending
  <1>9. \A y \in Request : Apart(y, r)
    BY <1>5 DEF Apart
  <1>10. \A y \in Request : Keeps(y)
    BY <1>2 DEF Keeps, tables, Claimable, Stored
  <1>11. /\ request' \in [Proc -> Request]
         /\ \A q \in Proc : RequestOK(request[q])'
         /\ \A q, t \in Proc : q # t => Apart(request[q], request[t])'
    BY <1>5, <1>6, <1>8, <1>9, <1>10, RequestsKept
  <1>12. \A d : Failing(d) \subseteq Failing(d)'
    BY <1>6, <1>7, FailingKept
  <1>13. \A g \in Factor : Spent(g) => Spent(g)'
    BY <1>2 DEF Spent, tables
  <1>14. wrong' \in [Challenge -> Nat] /\ \A d \in Challenge \ {c} : wrong'[d] = wrong[d]
    BY <1>1, <1>3 DEF FactorInv, TypeOK
  <1>15. TypeOK'
    BY <1>2, <1>11, <1>14 DEF FactorInv, TypeOK, tables
  <1>16. ASSUME NEW d \in Challenge, wrong'[d] = wrong[d] PROVE ChallengeOK(d)'
    BY <1>2, <1>12, <1>13, <1>16, ChallengeKept DEF tables
  <1>17. RowsOK' /\ EnabledSecretIsOnThePhone' /\ CodesAreOneGeneration'
    BY <1>2
    DEF FactorInv, RowsOK, EnabledSecretIsOnThePhone, CodesAreOneGeneration, Stored, tables
  <1>18. CASE ~(f = Wrong /\ Presentable(c, allowed))
    <2>1. wrong' = wrong
      BY <1>1, <1>18
    <2>2. QED
      BY <1>11, <1>15, <1>16, <1>17, <2>1 DEF FactorInv, GuessesAreBounded
  <1>19. CASE f = Wrong /\ Presentable(c, allowed)
    <2>1. wrong'[c] = wrong[c] + 1 /\ wrong[c] \in Nat
      BY <1>1, <1>3, <1>19 DEF FactorInv, TypeOK
    <2>2. challenge[c].attempts \in Nat /\ challenge[c].attempts < MaxAttempts /\ MaxAttempts \in Nat
      BY <1>3, <1>19, ChallengeRowFacts, MultiFactorAssumption DEF Presentable, FactorInv
    <2>3. wrong[c] <= challenge[c].attempts + Cardinality(Failing(c))
      BY <1>3, <2>2 DEF FactorInv, ChallengeOK
    <2>4. p \notin Failing(c) /\ Failing(c) \cup {p} \subseteq Failing(c)'
      BY <1>5, <1>6, <1>7, <1>12, <1>19 DEF Failing, Ask, FactorInv, TypeOK
    <2>5. /\ Cardinality(Failing(c)) \in Nat
          /\ Cardinality(Failing(c) \cup {p}) = Cardinality(Failing(c)) + 1
      BY <2>4, FailingFacts, FS_AddElement
    <2>6. Cardinality(Failing(c)) + 1 <= Cardinality(Failing(c)')
      BY <2>4, <2>5, FailingFacts, FS_Subset
    <2>7. Cardinality(Failing(c)') <= Cardinality(Proc) /\ Cardinality(Proc) \in Nat
      BY FailingFacts, FS_Subset, MultiFactorAssumption DEF Failing
    <2>8. wrong'[c] <= challenge[c].attempts + Cardinality(Failing(c)')
      BY <2>1, <2>2, <2>3, <2>5, <2>6, FailingFacts
    <2>9. ChallengeOK(c)'
      BY <1>2, <1>3, <2>8 DEF FactorInv, ChallengeOK, tables
    <2>10. wrong'[c] <= MaxAttempts + Cardinality(Proc) - 1
      BY <2>1, <2>2, <2>7, <2>8, FailingFacts
    <2>11. GuessesAreBounded'
      BY <1>14, <2>10 DEF FactorInv, GuessesAreBounded
    <2>12. QED
      BY <1>11, <1>14, <1>15, <1>16, <1>17, <2>9, <2>11 DEF FactorInv
  <1>20. QED
    BY <1>18, <1>19

LEMMA CompleteKeeps == ASSUME FactorInv, NEW p \in Proc, Complete(p) PROVE FactorInv'
  <1>1. PICK r \in Request :
          /\ r = request[p] /\ r.op = "complete" /\ r.at = "read"
          /\ r.challenge \in Challenge /\ r.factor \in Factor /\ KnowsSecret(r)
    BY RequestFacts DEF Complete, Shape
  <1>2. PICK c \in Challenge, f \in Factor : c = r.challenge /\ f = r.factor
    BY <1>1
  <1>3. /\ challenge[c] # None /\ ~challenge[c].used
        /\ Claimable(f) /\ ~LockedBeside(p, f)
        /\ f.kind = "totp" /\ "enrolment" \notin raced => totp.secret = f.secret
    BY <1>1, <1>2 DEF Complete, Completes, KnowsSecret
  <1>4. /\ Close({c}) /\ code' = SpendCode(f) /\ totp' = SpendStep(f)
        /\ opened' = [opened EXCEPT ![c] = Append(@, f)]
        /\ End(p)
        /\ UNCHANGED <<user, drawn, phone, raced>>
    BY <1>1, <1>2 DEF Complete
  <1>5. /\ totp' \in TotpRow /\ totp'.secret = totp.secret /\ totp'.enabled = totp.enabled
        /\ totp'.last \in Nat /\ totp.last <= totp'.last
        /\ f.kind = "totp" => totp.enabled /\ totp'.last = f.step /\ totp.last < f.step
        /\ f.kind = "code" => totp' = totp
        /\ totp' # NoTotp => totp # NoTotp
        /\ ~totp'.enabled => totp'.last = 0
    BY <1>3, <1>4, SpendStepFacts
  <1>6. /\ code' \in [Code -> {"absent", "unused", "used"}]
        /\ f.kind = "code" => /\ f.code \in Code /\ code[f.code] = "unused"
                              /\ code' = [code EXCEPT ![f.code] = "used"]
        /\ f.kind = "totp" => code' = code
        /\ Stored' = Stored
    <2>1. f.kind = "code" => f.code \in Code /\ code[f.code] = "unused"
      BY <1>3, FactorFacts DEF Claimable
    <2>2. /\ code' \in [Code -> {"absent", "unused", "used"}]
          /\ f.kind = "code" => code' = [code EXCEPT ![f.code] = "used"]
          /\ f.kind = "totp" => code' = code
      BY <1>4, <2>1 DEF SpendCode, FactorInv, TypeOK
    <2>3. Stored' = Stored
      BY <2>1, <2>2, FactorFacts DEF Stored, FactorInv, TypeOK
    <2>4. QED
      BY <2>1, <2>2, <2>3
  <1>7. ASSUME NEW q \in Proc \ {p}, NEW y \in Request, y = request[q] PROVE Keeps(y)
    <2>1. y.op = "complete" => y.challenge \in Challenge
      BY <1>7, OtherClaims DEF Shape
    <2>2. y.op = "complete" /\ challenge[y.challenge] # None =>
            /\ challenge'[y.challenge] # None
            /\ ~challenge'[y.challenge].used => ~challenge[y.challenge].used
      BY <1>4, <2>1, CloseFacts, UsedFacts
    <2>3. y.at = "claimed" => Claimable(y.factor)'
      <3> SUFFICES ASSUME y.at = "claimed" PROVE Claimable(y.factor)'
        OBVIOUS
      <3>1. y.factor \in Factor /\ Claimable(y.factor)
        BY <1>7, OtherClaims
      <3>2. ~(y.factor.kind = f.kind /\ (f.kind = "code" => y.factor.code = f.code))
        BY <1>3, <1>7 DEF LockedBeside, Locks, Claimed
      <3>3. CASE y.factor.kind = "totp"
        <4>1. totp' = totp
          BY <1>5, <3>2, <3>3, FactorFacts
        <4>2. QED
          BY <3>1, <3>3, <4>1 DEF Claimable
      <3>4. CASE y.factor.kind = "code"
        <4>1. y.factor.code \in Code /\ code[y.factor.code] = "unused"
          BY <3>1, <3>4, FactorFacts DEF Claimable
        <4>2. code'[y.factor.code] = "unused"
          BY <1>6, <3>2, <3>4, <4>1, FactorFacts DEF FactorInv, TypeOK
        <4>3. QED
          BY <3>4, <4>2 DEF Claimable
      <3>5. QED
        BY <3>1, <3>3, <3>4, FactorFacts
    <2>4. QED
      BY <1>4, <1>5, <1>6, <2>2, <2>3 DEF Keeps
  <1>8. /\ request' \in [Proc -> Request]
        /\ \A q \in Proc : RequestOK(request[q])'
        /\ \A q, t \in Proc : q # t => Apart(request[q], request[t])'
        /\ \A d : Failing(d) \subseteq Failing(d)'
    BY <1>1, <1>4, <1>7, EndStep
  <1>9. opened' \in [Challenge -> Seq(Factor)]
        /\ \A d \in Challenge \ {c} : opened'[d] = opened[d]
    BY <1>4 DEF FactorInv, TypeOK
  <1>10. TypeOK'
    BY <1>4, <1>5, <1>6, <1>8, <1>9, CloseFacts DEF FactorInv, TypeOK
  <1>11. NothingForgotten
    BY <1>4, <1>5, <1>6, FactorFacts DEF NothingForgotten, FactorInv, TypeOK
  <1>12. \A g \in Factor : Spent(g) => Spent(g)'
    BY <1>5, <1>11, SpentKept DEF FactorInv
  <1>13. Spent(f)'
    <2>1. f.kind = "code" => f.code[1] \in drawn' /\ code'[f.code] # "unused"
      BY <1>4, <1>6 DEF FactorInv, RowsOK, Stored, TypeOK
    <2>2. f.kind = "totp" => f.secret \in Secret /\ f.step \in Nat
      BY FactorFacts DEF Step
    <2>3. f.kind = "totp" /\ "enrolment" \notin raced => f.secret \in drawn
      BY <1>3, <2>2, MultiFactorAssumption DEF FactorInv, RowsOK
    <2>4. QED
      BY <1>4, <1>5, <2>1, <2>2, <2>3 DEF Spent
  <1>14. ChallengeOK(c)'
    <2>1. opened[c] = <<>>
      BY <1>3 DEF FactorInv, ChallengeOK
    <2>2. opened'[c] = <<f>>
      BY <1>4, <2>1 DEF FactorInv, TypeOK
    <2>3. challenge'[c] = Used /\ wrong'[c] = 0
      BY <1>3, <1>4, CloseFacts
    <2>4. QED
      BY <1>13, <2>2, <2>3, UsedFacts DEF ChallengeOK
  <1>15. ASSUME NEW d \in Challenge, d # c PROVE ChallengeOK(d)'
    <2>1. challenge'[d] = challenge[d] /\ wrong'[d] = wrong[d]
      BY <1>4, <1>15, CloseFacts
    <2>2. QED
      BY <1>8, <1>9, <1>12, <1>15, <2>1, ChallengeKept
  <1>16. GuessesAreBounded'
    <2>1. MaxAttempts \in Nat \ {0} /\ Cardinality(Proc) \in Nat
      BY FailingFacts, MultiFactorAssumption
    <2>2. \A d \in Challenge : wrong'[d] = wrong[d] \/ wrong'[d] = 0
      BY <1>4, CloseFacts
    <2>3. QED
      BY <2>1, <2>2 DEF FactorInv, GuessesAreBounded
  <1>17. RowsOK' /\ EnabledSecretIsOnThePhone' /\ CodesAreOneGeneration'
    BY <1>4, <1>5, <1>6
    DEF FactorInv, RowsOK, EnabledSecretIsOnThePhone, CodesAreOneGeneration
  <1>18. QED
    BY <1>8, <1>10, <1>14, <1>15, <1>16, <1>17 DEF FactorInv

LEMMA RecordFailureKeeps == ASSUME FactorInv, NEW p \in Proc, RecordFailure(p) PROVE FactorInv'
  <1>1. PICK r \in Request :
          r = request[p] /\ r.at = "failed" /\ r.op = "complete" /\ r.challenge \in Challenge
    BY RequestFacts DEF RecordFailure, Shape
  <1>2. PICK c \in Challenge : c = r.challenge /\ challenge[c] # None
    BY <1>1, RequestFacts DEF KnowsSecret
  <1>3. PICK row \in ChallengeRow :
          /\ row = challenge[c] /\ row.attempts \in Nat
          /\ ~row.used => row \in [used : {FALSE}, expired : BOOLEAN,
                                   attempts : 0 .. MaxAttempts, intent : Intents]
    BY <1>2, ChallengeRowFacts DEF FactorInv
  <1>4. End(p) /\ UNCHANGED <<totp, code, user, drawn, history>>
    BY DEF RecordFailure
  <1>5. PICK next : next = [row EXCEPT !.attempts = @ + 1]
    OBVIOUS
  <1>6. challenge' = IF ~row.used /\ row.attempts < MaxAttempts
                       THEN [challenge EXCEPT ![c] = next] ELSE challenge
    BY <1>1, <1>2, <1>3, <1>5 DEF RecordFailure
  <1>7. ~row.used /\ row.attempts < MaxAttempts =>
          /\ next \in ChallengeRow /\ next # None
          /\ next.used = FALSE /\ next.attempts = row.attempts + 1
    <2> SUFFICES ASSUME ~row.used, row.attempts < MaxAttempts
                 PROVE  /\ next \in ChallengeRow /\ next # None
                        /\ next.used = FALSE /\ next.attempts = row.attempts + 1
      OBVIOUS
    <2>1. row.attempts + 1 \in 0 .. MaxAttempts
      BY <1>3, MultiFactorAssumption
    <2>2. /\ next \in [used : {FALSE}, expired : BOOLEAN,
                       attempts : 0 .. MaxAttempts, intent : Intents]
          /\ next.attempts = row.attempts + 1
      BY <1>3, <1>5, <2>1
    <2>3. next \in ChallengeRow
      BY <2>2 DEF ChallengeRow
    <2>4. QED
      BY <2>2, <2>3, NoRowAssumption
  <1>8. /\ challenge' \in [Challenge -> ChallengeRow \cup {None}]
        /\ \A d \in Challenge \ {c} : challenge'[d] = challenge[d]
        /\ challenge'[c] # None /\ challenge'[c].used = challenge[c].used
    <2>1. CASE ~row.used /\ row.attempts < MaxAttempts
      <3>1. row.used = FALSE
        BY <1>3, <2>1, ChallengeRowFacts DEF FactorInv
      <3>2. QED
        BY <1>2, <1>3, <1>6, <1>7, <2>1, <3>1 DEF FactorInv, TypeOK
    <2>2. CASE ~(~row.used /\ row.attempts < MaxAttempts)
      BY <1>2, <1>6, <2>2 DEF FactorInv, TypeOK
    <2>3. QED
      BY <2>1, <2>2
  <1>9. ASSUME NEW q \in Proc \ {p}, NEW y \in Request, y = request[q] PROVE Keeps(y)
    <2>1. y.op = "complete" => y.challenge \in Challenge
      BY <1>9, OtherClaims DEF Shape
    <2>2. y.op = "complete" /\ challenge[y.challenge] # None =>
            /\ challenge'[y.challenge] # None
            /\ ~challenge'[y.challenge].used => ~challenge[y.challenge].used
      BY <1>8, <2>1
    <2>3. QED
      BY <1>4, <2>2 DEF Keeps, Claimable, Stored, history
  <1>10. /\ request' \in [Proc -> Request]
         /\ \A q \in Proc : RequestOK(request[q])'
         /\ \A q, t \in Proc : q # t => Apart(request[q], request[t])'
    BY <1>4, <1>9, EndStep
  <1>11. TypeOK'
    BY <1>4, <1>8, <1>10 DEF FactorInv, TypeOK, history
  <1>12. \A f \in Factor : Spent(f) => Spent(f)'
    BY <1>4 DEF Spent, history
  <1>13. \A q \in Proc \ {p} : request'[q] = request[q]
    BY <1>4 DEF End, Ask, FactorInv, TypeOK
  <1>14. ASSUME NEW d \in Challenge, d # c PROVE ChallengeOK(d)'
    <2>1. Failing(d) \subseteq Failing(d)'
      BY <1>1, <1>2, <1>13, <1>14 DEF Failing
    <2>2. challenge'[d] = challenge[d] /\ opened'[d] = opened[d] /\ wrong'[d] = wrong[d]
      BY <1>4, <1>8, <1>14 DEF history
    <2>3. QED
      BY <1>12, <2>1, <2>2, ChallengeKept
  <1>15. ChallengeOK(c)'
    <2>1. ChallengeOK(c) /\ wrong[c] \in Nat /\ MaxAttempts \in Nat
      BY MultiFactorAssumption DEF FactorInv, TypeOK
    <2>2. /\ challenge'[c] = None \/ challenge'[c].used => wrong'[c] = 0
          /\ challenge'[c] = None \/ ~challenge'[c].used => opened'[c] = <<>>
          /\ opened'[c] # <<>> => \E f \in Factor : opened'[c] = <<f>> /\ Spent(f)'
      BY <1>2, <1>4, <1>8, <1>12, <2>1 DEF ChallengeOK, history
    <2>3. ASSUME ~challenge'[c].used, challenge'[c].attempts < MaxAttempts
          PROVE  wrong'[c] <= challenge'[c].attempts + Cardinality(Failing(c)')
      <3>1. row.attempts < MaxAttempts /\ ~row.used
        BY <1>3, <1>6, <1>8, <2>3
      <3>2. challenge'[c].attempts = row.attempts + 1
        BY <1>6, <1>7, <3>1 DEF FactorInv, TypeOK
      <3>3. wrong[c] <= row.attempts + Cardinality(Failing(c))
        BY <1>2, <1>3, <2>1, <3>1 DEF ChallengeOK
      <3>4. p \in Failing(c) /\ Failing(c) \ {p} \subseteq Failing(c)'
        BY <1>1, <1>2, <1>13 DEF Failing
      <3>5. Cardinality(Failing(c) \ {p}) = Cardinality(Failing(c)) - 1
        BY <3>4, FailingFacts, FS_RemoveElement
      <3>6. Cardinality(Failing(c)) - 1 <= Cardinality(Failing(c)')
        BY <3>4, <3>5, FailingFacts, FS_Subset
      <3>7. wrong'[c] = wrong[c]
        BY <1>4 DEF history
      <3>8. QED
        BY <1>3, <2>1, <3>2, <3>3, <3>6, <3>7, FailingFacts
    <2>4. QED
      BY <2>2, <2>3 DEF ChallengeOK
  <1>16. /\ RowsOK' /\ GuessesAreBounded' /\ EnabledSecretIsOnThePhone'
         /\ CodesAreOneGeneration'
    BY <1>4 DEF FactorInv, RowsOK, GuessesAreBounded, EnabledSecretIsOnThePhone,
                CodesAreOneGeneration, Stored, history
  <1>17. QED
    BY <1>10, <1>11, <1>14, <1>15, <1>16 DEF FactorInv

-----------------------------------------------------------------------------
(* Steps of no request                                                     *)

LEMMA SteadyRequests ==
    ASSUME FactorInv, UNCHANGED request,
           \A q \in Proc, y \in Request : y = request[q] => Keeps(y)
    PROVE  /\ request' \in [Proc -> Request]
           /\ \A q \in Proc : RequestOK(request[q])'
           /\ \A q, s \in Proc : q # s => Apart(request[q], request[s])'
           /\ \A c : Failing(c) \subseteq Failing(c)'
  <1>1. ASSUME NEW q \in Proc PROVE RequestOK(request[q])'
    <2>1. PICK y \in Request : y = request[q]
      BY RequestFacts
    <2>2. RequestOK(y) /\ Keeps(y)
      BY <2>1 DEF FactorInv
    <2>3. RequestOK(y)'
      BY <2>2, RequestKept
    <2>4. QED
      BY <2>1, <2>3, SameRequest
  <1>2. QED
    BY <1>1 DEF FactorInv, TypeOK, Apart, Failing

\* Steps that at most end challenges, or mark them as expired.
LEMMA ChallengesClose ==
    ASSUME FactorInv, user' \in UserState,
           UNCHANGED <<totp, code, request, drawn, opened, phone, raced>>,
           Close(Challenge) \/ UNCHANGED <<challenge, wrong>>
    PROVE  FactorInv'
  <1>1. \A d \in Challenge : challenge[d] # None =>
          challenge'[d] # None /\ (~challenge'[d].used => ~challenge[d].used)
    BY CloseFacts, UsedFacts
  <1>2. ASSUME NEW q \in Proc, NEW y \in Request, y = request[q] PROVE Keeps(y)
    <2>1. y.op = "complete" => y.challenge \in Challenge
      BY <1>2, RequestFacts DEF Shape
    <2>2. QED
      BY <1>1, <2>1 DEF Keeps, Claimable, Stored
  <1>3. /\ request' \in [Proc -> Request]
        /\ \A q \in Proc : RequestOK(request[q])'
        /\ \A q, t \in Proc : q # t => Apart(request[q], request[t])'
        /\ \A d : Failing(d) \subseteq Failing(d)'
    BY <1>2, SteadyRequests
  <1>4. TypeOK'
    BY <1>3, CloseFacts DEF FactorInv, TypeOK
  <1>5. \A f \in Factor : Spent(f) => Spent(f)'
    BY DEF Spent
  <1>6. (\A c \in Challenge : ChallengeOK(c)') /\ GuessesAreBounded'
    <2>1. CASE Close(Challenge)
      BY <1>3, <1>5, <2>1, ClosedChallenges
    <2>2. CASE UNCHANGED <<challenge, wrong>>
      BY <1>3, <1>5, <2>2, ChallengeKept DEF FactorInv, GuessesAreBounded
    <2>3. QED
      BY <2>1, <2>2
  <1>7. RowsOK' /\ EnabledSecretIsOnThePhone' /\ CodesAreOneGeneration'
    BY DEF FactorInv, RowsOK, EnabledSecretIsOnThePhone, CodesAreOneGeneration, Stored
  <1>8. QED
    BY <1>3, <1>4, <1>6, <1>7 DEF FactorInv

LEMMA RevokeKeeps == ASSUME FactorInv, Revoke PROVE FactorInv'
  <1>1. user' \in UserState
    BY DEF Revoke, FactorInv, TypeOK
  <1>2. QED
    BY <1>1, ChallengesClose DEF Revoke

LEMMA ChangeUserKeeps == ASSUME FactorInv, ChangeUser PROVE FactorInv'
  BY ChallengesClose DEF ChangeUser

LEMMA ExpireKeeps == ASSUME FactorInv, NEW c \in Challenge, Expire(c) PROVE FactorInv'
  <1>1. /\ challenge[c] # None /\ ~challenge[c].used
        /\ UNCHANGED <<totp, code, user, request, drawn, history>>
    BY DEF Expire, Open
  <1>2. PICK row \in [used : {FALSE}, expired : BOOLEAN,
                      attempts : 0 .. MaxAttempts, intent : Intents] : row = challenge[c]
    BY <1>1, ChallengeRowFacts DEF FactorInv
  <1>3. PICK next : next = [row EXCEPT !.expired = TRUE]
    OBVIOUS
  <1>4. /\ next \in ChallengeRow /\ next # None
        /\ next.used = FALSE /\ next.attempts = row.attempts
    <2>1. next \in ChallengeRow /\ next.used = FALSE /\ next.attempts = row.attempts
      BY <1>2, <1>3 DEF ChallengeRow
    <2>2. QED
      BY <2>1, NoRowAssumption
  <1>5. challenge' = [challenge EXCEPT ![c] = next]
    BY <1>2, <1>3 DEF Expire
  <1>6. /\ challenge' \in [Challenge -> ChallengeRow \cup {None}]
        /\ challenge'[c] = next /\ \A d \in Challenge \ {c} : challenge'[d] = challenge[d]
    BY <1>4, <1>5 DEF FactorInv, TypeOK
  <1>7. ASSUME NEW q \in Proc, NEW y \in Request, y = request[q] PROVE Keeps(y)
    <2>1. y.op = "complete" => y.challenge \in Challenge
      BY <1>7, RequestFacts DEF Shape
    <2>2. QED
      BY <1>1, <1>4, <1>6, <2>1 DEF Keeps, Claimable, Stored, history
  <1>8. /\ request' \in [Proc -> Request]
        /\ \A q \in Proc : RequestOK(request[q])'
        /\ \A q, t \in Proc : q # t => Apart(request[q], request[t])'
        /\ \A d : Failing(d) \subseteq Failing(d)'
    BY <1>1, <1>7, SteadyRequests
  <1>9. TypeOK'
    BY <1>1, <1>6, <1>8 DEF FactorInv, TypeOK, history
  <1>10. \A f \in Factor : Spent(f) => Spent(f)'
    BY <1>1 DEF Spent, history
  <1>11. ASSUME NEW d \in Challenge, d # c PROVE ChallengeOK(d)'
    BY <1>1, <1>6, <1>8, <1>10, <1>11, ChallengeKept DEF history
  <1>12. ChallengeOK(c)'
    <2>1. ChallengeOK(c) /\ Failing(c)' = Failing(c)
      BY <1>1 DEF FactorInv, Failing
    <2>2. opened'[c] = <<>> /\ wrong'[c] = wrong[c]
      BY <1>1, <2>1 DEF ChallengeOK, history
    <2>3. QED
      BY <1>1, <1>2, <1>4, <1>6, <2>1, <2>2 DEF ChallengeOK
  <1>13. /\ RowsOK' /\ GuessesAreBounded' /\ EnabledSecretIsOnThePhone'
         /\ CodesAreOneGeneration'
    BY <1>1 DEF FactorInv, RowsOK, GuessesAreBounded, EnabledSecretIsOnThePhone,
                CodesAreOneGeneration, Stored, history
  <1>14. QED
    BY <1>8, <1>9, <1>11, <1>12, <1>13 DEF FactorInv

-----------------------------------------------------------------------------
(* The invariant                                                           *)

LEMMA FactorInit == Init => FactorInv
  <1> SUFFICES ASSUME Init PROVE FactorInv
    OBVIOUS
  <1>1. /\ totp = NoTotp /\ user = "administrator"
        /\ code = [c \in Code |-> "absent"]
        /\ challenge = [c \in Challenge |-> None]
        /\ request = [p \in Proc |-> Idle]
        /\ opened = [c \in Challenge |-> <<>>]
        /\ wrong = [c \in Challenge |-> 0]
        /\ drawn = {} /\ phone = {} /\ raced = {}
    BY DEF Init
  <1>2. totp.secret = None /\ totp.enabled = FALSE /\ totp.last = 0
    BY <1>1 DEF NoTotp
  <1>3. Stored = {}
    BY <1>1 DEF Stored
  <1>4. TypeOK
    <2>1. opened \in [Challenge -> Seq(Factor)]
      BY <1>1
    <2>2. request \in [Proc -> Request]
      BY <1>1, IdleFacts
    <2>3. QED
      BY <1>1, <2>1, <2>2 DEF TypeOK, TotpRow, UserState
  <1>5. \A p \in Proc : RequestOK(request[p])
    BY <1>1, IdleOK
  <1>6. \A p, q \in Proc : Apart(request[p], request[q])
    BY <1>1, IdleOK
  <1>7. \A c \in Challenge : ChallengeOK(c)
    BY <1>1 DEF ChallengeOK
  <1>8. GuessesAreBounded
    <2>1. MaxAttempts \in Nat \ {0} /\ Cardinality(Proc) \in Nat
      BY FailingFacts, MultiFactorAssumption
    <2>2. QED
      BY <1>1, <2>1 DEF GuessesAreBounded
  <1>9. QED
    BY <1>2, <1>3, <1>4, <1>5, <1>6, <1>7, <1>8
    DEF FactorInv, RowsOK, EnabledSecretIsOnThePhone, CodesAreOneGeneration

LEMMA FactorStep == FactorInv /\ [Next]_vars => FactorInv'
  <1> SUFFICES ASSUME FactorInv, [Next]_vars PROVE FactorInv'
    OBVIOUS
  <1>1. CASE Environment
    BY <1>1, RevokeKeeps, ChangeUserKeeps, ExpireKeeps DEF Environment
  <1>2. ASSUME NEW p \in Proc, Enrol(p) PROVE FactorInv'
    BY <1>2, BeginStartKeeps, StartKeeps, BeginConfirmKeeps, ConfirmKeeps, NotPendingKeeps
    DEF Enrol
  <1>3. ASSUME NEW p \in Proc, Manage(p) PROVE FactorInv'
    BY <1>3, BeginManageKeeps, ClaimKeeps, RegenerateKeeps, DisableKeeps DEF Manage
  <1>4. ASSUME NEW p \in Proc, Login(p) PROVE FactorInv'
    BY <1>4, BeginLoginKeeps, StartChallengeKeeps DEF Login
  <1>5. ASSUME NEW p \in Proc, Verify(p) PROVE FactorInv'
    BY <1>5, BeginCompleteKeeps, CompleteKeeps, LoseRaceKeeps, RecordFailureKeeps DEF Verify
  <1>6. ASSUME NEW p \in Proc, Abort(p) PROVE FactorInv'
    BY <1>6, AbortKeeps
  <1>7. CASE UNCHANGED vars
    <2>1. UNCHANGED <<totp, code, challenge, user, request, drawn, opened, wrong, phone, raced>>
      BY <1>7 DEF vars, tables, history
    <2>2. user' \in UserState
      BY <2>1 DEF FactorInv, TypeOK
    <2>3. QED
      BY <2>1, <2>2, ChallengesClose
  <1>8. QED
    BY <1>1, <1>2, <1>3, <1>4, <1>5, <1>6, <1>7 DEF Next

THEOREM FactorInvariant == Spec => []FactorInv
  <1>1. QED
    BY FactorInit, FactorStep, PTL DEF Spec

-----------------------------------------------------------------------------
(* Sessions that are opened                                                *)

\* Nothing but complete() opens a session, and no overlap is forgotten.
LEMMA OtherSteps ==
    ASSUME [Next]_vars, \A p \in Proc : ~Complete(p)
    PROVE  UNCHANGED opened /\ raced \subseteq raced'
  <1>1. CASE Environment
    BY <1>1 DEF Environment, Revoke, ChangeUser, Expire, history
  <1>2. ASSUME NEW p \in Proc, Enrol(p) PROVE UNCHANGED opened /\ raced \subseteq raced'
    BY <1>2 DEF Enrol, BeginStart, Start, BeginConfirm, Confirm, NotPending, Overlap, history
  <1>3. ASSUME NEW p \in Proc, Manage(p) PROVE UNCHANGED opened /\ raced \subseteq raced'
    BY <1>3 DEF Manage, BeginManage, Claim, Regenerate, Disable, history
  <1>4. ASSUME NEW p \in Proc, Login(p) PROVE UNCHANGED opened /\ raced \subseteq raced'
    BY <1>4 DEF Login, BeginLogin, StartChallenge, history
  <1>5. ASSUME NEW p \in Proc, Verify(p) PROVE UNCHANGED opened /\ raced \subseteq raced'
    BY <1>5 DEF Verify, BeginComplete, LoseRace, RecordFailure, history
  <1>6. ASSUME NEW p \in Proc, Abort(p) PROVE UNCHANGED opened /\ raced \subseteq raced'
    BY <1>6 DEF Abort, history
  <1>7. CASE UNCHANGED vars
    BY <1>7 DEF vars, history
  <1>8. QED
    BY <1>1, <1>2, <1>3, <1>4, <1>5, <1>6, <1>7 DEF Next

\* complete() opens a session through a challenge that has opened none, with a factor that
\* is not spent and, unless an enrolment was raced, is of the enrolled secret.
LEMMA OpeningStep ==
    ASSUME FactorInv, NEW p \in Proc, Complete(p)
    PROVE  \E c \in Challenge, f \in Factor :
             /\ opened[c] = <<>> /\ opened' = [opened EXCEPT ![c] = <<f>>]
             /\ raced' = raced
             /\ f.kind = "code" \/ "enrolment" \notin raced => ~Spent(f)
             /\ f.kind = "totp" /\ "enrolment" \notin raced => totp.secret = f.secret
  <1>1. PICK r \in Request :
          /\ r = request[p] /\ r.op = "complete" /\ r.at = "read"
          /\ r.challenge \in Challenge /\ r.factor \in Factor /\ KnowsSecret(r)
    BY RequestFacts DEF Complete, Shape
  <1>2. PICK c \in Challenge, f \in Factor : c = r.challenge /\ f = r.factor
    BY <1>1
  <1>3. /\ challenge[c] # None /\ ~challenge[c].used /\ Claimable(f)
        /\ f.kind = "totp" /\ "enrolment" \notin raced => totp.secret = f.secret
    BY <1>1, <1>2 DEF Complete, Completes, KnowsSecret
  <1>4. opened[c] = <<>>
    BY <1>3 DEF FactorInv, ChallengeOK
  <1>5. opened' = [opened EXCEPT ![c] = Append(@, f)] /\ raced' = raced
    BY <1>1, <1>2 DEF Complete
  <1>6. opened' = [opened EXCEPT ![c] = <<f>>]
    BY <1>4, <1>5
  <1>7. totp.last \in Nat /\ (f.kind = "totp" => f.step \in Nat)
    BY TotpFacts, FactorFacts, MultiFactorAssumption DEF FactorInv, Step
  <1>8. f.kind = "code" \/ "enrolment" \notin raced => ~Spent(f)
    BY <1>3, <1>7, FactorFacts DEF Spent, Claimable
  <1>9. QED
    BY <1>3, <1>4, <1>5, <1>6, <1>8

LEMMA OpenedFacts ==
    ASSUME FactorInv, NEW c \in Challenge, opened[c] # <<>>
    PROVE  \E f \in Factor : opened[c] = <<f>> /\ Spent(f)
  BY DEF FactorInv, ChallengeOK

LEMMA SpentOnceStep ==
    ASSUME FactorInv, SecondFactorIsSpentOnce, [Next]_vars
    PROVE  SecondFactorIsSpentOnce'
  <1>1. CASE \A p \in Proc : ~Complete(p)
    BY <1>1, OtherSteps DEF SecondFactorIsSpentOnce
  <1>2. ASSUME NEW p \in Proc, Complete(p) PROVE SecondFactorIsSpentOnce'
    <2>1. PICK c \in Challenge, f \in Factor :
            /\ opened[c] = <<>> /\ opened' = [opened EXCEPT ![c] = <<f>>]
            /\ raced' = raced
            /\ f.kind = "code" \/ "enrolment" \notin raced => ~Spent(f)
      BY <1>2, OpeningStep
    <2>2. \A d \in Challenge : opened'[d] = IF d = c THEN <<f>> ELSE opened[d]
      BY <2>1 DEF FactorInv, TypeOK
    <2>3. ASSUME NEW d \in Challenge, d # c, opened[d] = <<f>>
          PROVE  f.kind = "totp" /\ "enrolment" \in raced
      <3>1. opened[d] # <<>>
        BY <2>3
      <3>2. PICK g \in Factor : opened[d] = <<g>> /\ Spent(g)
        BY <3>1, OpenedFacts
      <3>3. g = f
        BY <2>3, <3>2
      <3>4. QED
        BY <2>1, <3>2, <3>3, FactorFacts
    <2>4. ASSUME NEW d \in Challenge PROVE Len(opened'[d]) <= 1
      <3>1. Len(<<f>>) <= 1 /\ Len(opened[d]) <= 1
        BY DEF SecondFactorIsSpentOnce
      <3>2. QED
        BY <2>2, <3>1
    <2>5. ASSUME NEW d \in Challenge, NEW e \in Challenge, d # e,
                 opened'[d] # <<>>, opened'[d] = opened'[e]
          PROVE  opened'[d][1].kind = "totp" /\ "enrolment" \in raced'
      <3>1. CASE d = c
        BY <2>1, <2>2, <2>3, <2>5, <3>1
      <3>2. CASE e = c
        BY <2>1, <2>2, <2>3, <2>5, <3>2
      <3>3. CASE d # c /\ e # c
        BY <2>1, <2>2, <2>5, <3>3 DEF SecondFactorIsSpentOnce
      <3>4. QED
        BY <3>1, <3>2, <3>3
    <2>6. QED
      BY <2>4, <2>5 DEF SecondFactorIsSpentOnce
  <1>3. QED
    BY <1>1, <1>2

LEMMA EnrolledSecretStep ==
    ASSUME FactorInv, [Next]_vars
    PROVE  \A c \in Challenge :
             opened'[c] # opened[c] /\ "enrolment" \notin raced =>
               LET f == opened'[c][Len(opened'[c])]
               IN  f.kind = "totp" => f.secret = totp.secret
  <1>1. CASE \A p \in Proc : ~Complete(p)
    BY <1>1, OtherSteps
  <1>2. ASSUME NEW p \in Proc, Complete(p), NEW c \in Challenge, opened'[c] # opened[c],
               "enrolment" \notin raced, opened'[c][Len(opened'[c])].kind = "totp"
        PROVE  opened'[c][Len(opened'[c])].secret = totp.secret
    <2>1. PICK d \in Challenge, f \in Factor :
            /\ opened' = [opened EXCEPT ![d] = <<f>>]
            /\ f.kind = "totp" /\ "enrolment" \notin raced => totp.secret = f.secret
      BY <1>2, OpeningStep
    <2>2. opened'[c] = <<f>>
      BY <1>2, <2>1 DEF FactorInv, TypeOK
    <2>3. opened'[c][Len(opened'[c])] = f
      BY <2>2
    <2>4. QED
      BY <1>2, <2>1, <2>3
  <1>3. QED
    BY <1>1, <1>2

-----------------------------------------------------------------------------
(* Theorems                                                                *)

\* Rows and requests have their types: in particular no confirm() enables the authenticator
\* of a row that disable() has deleted.
THEOREM FactorTypes == Spec => []TypeOK
  <1>1. FactorInv => TypeOK
    BY DEF FactorInv
  <1>2. QED
    BY <1>1, FactorInvariant, PTL

\* However many forms present them at once, a challenge opens one session, and so does a
\* recovery code; a time step code does as long as no start() overlapped a confirm().
THEOREM FactorsAreSpentOnce == Spec => []SecondFactorIsSpentOnce
  <1>1. Init => SecondFactorIsSpentOnce
    BY DEF Init, SecondFactorIsSpentOnce
  <1>2. QED
    BY <1>1, FactorInvariant, SpentOnceStep, PTL DEF Spec

\* Guesses exceed MFA_CHALLENGE_MAX_ATTEMPTS by less than the number of requests under way.
THEOREM GuessesStayBounded == Spec => []GuessesAreBounded
  <1>1. FactorInv => GuessesAreBounded
    BY DEF FactorInv
  <1>2. QED
    BY <1>1, FactorInvariant, PTL

\* Unless a start() overlapped a confirm(), MFA is enabled for a secret that the user's
\* phone has.
THEOREM EnabledSecretWasShown == Spec => []EnabledSecretIsOnThePhone
  <1>1. FactorInv => EnabledSecretIsOnThePhone
    BY DEF FactorInv
  <1>2. QED
    BY <1>1, FactorInvariant, PTL

\* Unless two management requests overlapped, the recovery codes stored are one generation
\* and go with the authenticator.
THEOREM OneGenerationOfCodes == Spec => []CodesAreOneGeneration
  <1>1. FactorInv => CodesAreOneGeneration
    BY DEF FactorInv
  <1>2. QED
    BY <1>1, FactorInvariant, PTL

\* A session is opened by a time step code of the authenticator that is enrolled then, also
\* when complete() verified the code before another one was enrolled.
THEOREM EnrolledSecretOpensSessions == Spec => SessionsNeedTheEnrolledSecret
  <1>1. QED
    BY FactorInvariant, EnrolledSecretStep, PTL DEF Spec, SessionsNeedTheEnrolledSecret

=============================================================================
