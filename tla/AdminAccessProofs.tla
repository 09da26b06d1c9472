-------------------------- MODULE AdminAccessProofs --------------------------
(***************************************************************************)
(* What AdminAccess guarantees for every set of users, groups and          *)
(* applications, every number of requests under way, and whatever has      *)
(* overlapped before.                                                      *)
(***************************************************************************)
EXTENDS AdminAccess, TLAPS

-----------------------------------------------------------------------------
(* What is true of a request under way                                     *)

\* The rows that each form deletes, and the forms that change rows as soon as they come.
Shape(r) ==
    /\ r.form.op \in Locking => r.at = "changed"
    /\ r.at = "read" => r.members = {} /\ r.policies = {}
    /\ r.form.op \notin {"leave", "dissolve"} => r.members = {}
    /\ r.form.op \notin {"dissolve", "unpolicy"} => r.policies = {}
    /\ r.form.op = "leave" =>
         r.users = {r.form.user} /\ r.members \subseteq {<<r.form.user, r.form.group>>}
    /\ r.form.op = "dissolve" =>
         r.form.group # Admins /\ \A m \in r.members : m[2] = r.form.group

\* Redirect URIs may still change as they were found to, an application is not deleted, and
\* a group that is dissolved gains no row that is not deleted with it.
RowsKept(r) ==
    /\ r.form.op = "application" => application[r.form.application] # "absent"
    /\ r.form.op = "addUri" => uris[r.form.application] \in 1 .. MaxUris - 1
    /\ r.form.op = "removeUri" => uris[r.form.application] > 1
    /\ r.form.op = "dissolve" /\ r.at = "changed" =>
         /\ \A m \in member : m[2] = r.form.group => m \in r.members
         /\ \A w \in policy : w[2] = r.form.group => w \in r.policies

\* What the checks for another administrator have found is still so.
SparesAdmin(r) ==
    "administrators" \notin raced /\ RemovesAdmin(r.form) => AnotherAdministrator(r.form.user)

\* What was read of a group covers the paths through it.
KnowsPaths(r) ==
    "paths" \notin raced /\ r.at = "read" =>
        /\ r.form.op \in {"leave", "dissolve"} => ApplicationsOf(r.form.group) \subseteq r.applications
        /\ r.form.op = "dissolve" => MembersOf(r.form.group) \subseteq r.users

\* The tokens that a transaction has left alone keep a path when its deletions commit.
LeavesPaths(r) ==
    "paths" \notin raced /\ r.at = "changed" /\ r.members \cup r.policies # {} =>
        \A t \in token : \/ t \in r.revoked
                         \/ Path(t[1], t[2], member \ r.members, policy \ r.policies)

RequestOK(r) ==
    r # None => Shape(r) /\ RowsKept(r) /\ SparesAdmin(r) /\ KnowsPaths(r) /\ LeavesPaths(r)

\* Two requests that lock applications have locked different ones.
Apart(r, s) ==
    r # None /\ s # None /\ {r.form.op, s.form.op} \subseteq Locking =>
        r.form.application # s.form.application

AdminInv ==
    /\ TypeOK
    /\ \A p \in Proc : RequestOK(request[p])
    /\ \A p, q \in Proc : p # q => Apart(request[p], request[q])
    /\ AnAdministratorRemains /\ AccessNeedsAPath /\ AccessNeedsActivity

-----------------------------------------------------------------------------
(* Types                                                                   *)

Adding == {"status", "leave", "dissolve", "unpolicy", "application", "addUri", "removeUri"}

LEMMA FormFacts ==
    ASSUME NEW f \in Form
    PROVE  /\ f.op \in Adding
           /\ f.op = "status" => f.user \in User /\ f.to \in {"ACTIVE", "INACTIVE"}
           /\ f.op = "leave" => f.user \in User /\ f.group \in Group
           /\ f.op = "dissolve" => f.group \in Group
           /\ f.op = "unpolicy" => f.application \in Application /\ f.group \in Group
           /\ f.op = "application" => f.application \in Application /\ f.to \in {"ACTIVE", "INACTIVE"}
           /\ f.op \in {"addUri", "removeUri"} => f.application \in Application
  <1>1. CASE f \in StatusForm
    BY <1>1 DEF StatusForm, Status, Adding
  <1>2. CASE f \in LeaveForm
    BY <1>2 DEF LeaveForm, Adding
  <1>3. CASE f \in DissolveForm
    BY <1>3 DEF DissolveForm, Adding
  <1>4. CASE f \in PolicyForm
    BY <1>4 DEF PolicyForm, Adding
  <1>5. CASE f \in ApplicationForm
    BY <1>5 DEF ApplicationForm, Status, Adding
  <1>6. CASE f \in AddUriForm
    BY <1>6 DEF AddUriForm, Adding
  <1>7. CASE f \in RemoveUriForm
    BY <1>7 DEF RemoveUriForm, Adding
  <1>8. QED
    BY <1>1, <1>2, <1>3, <1>4, <1>5, <1>6, <1>7 DEF Form

LEMMA AskedType ==
    ASSUME NEW f \in Form
    PROVE  /\ Asked(f) \in Request /\ Asked(f).form = f /\ Asked(f).at = "read"
           /\ Asked(f).members = {} /\ Asked(f).policies = {} /\ Asked(f).revoked = {}
  BY DEF Asked, Request

LEMMA RequestFacts ==
    ASSUME AdminInv, NEW p \in Proc, Busy(p)
    PROVE  /\ request[p] \in Request /\ request[p].form \in Form
           /\ Shape(request[p]) /\ RowsKept(request[p]) /\ SparesAdmin(request[p])
           /\ KnowsPaths(request[p]) /\ LeavesPaths(request[p])
  <1>1. request[p] \in Request
    BY DEF AdminInv, TypeOK, Busy
  <1>2. request[p].form \in Form
    BY <1>1 DEF Request
  <1>3. QED
    BY <1>1, <1>2 DEF AdminInv, RequestOK, Busy

-----------------------------------------------------------------------------
(* Steps that change one request                                           *)

LEMMA SameRequest ==
    ASSUME NEW q, NEW y, request'[q] = y, RequestOK(y)'
    PROVE  RequestOK(request[q])'
  <1> SUFFICES ASSUME y # None PROVE RequestOK(request[q])'
    BY DEF RequestOK
  <1>1. Shape(request[q])'
    BY DEF RequestOK, Shape
  <1>2. RowsKept(request[q])'
    BY DEF RequestOK, RowsKept
  <1>3. SparesAdmin(request[q])'
    BY DEF RequestOK, SparesAdmin
  <1>4. KnowsPaths(request[q])'
    BY DEF RequestOK, KnowsPaths
  <1>5. LeavesPaths(request[q])'
    BY DEF RequestOK, LeavesPaths
  <1>6. QED
    BY <1>1, <1>2, <1>3, <1>4, <1>5 DEF RequestOK

LEMMA SameDirectory ==
    ASSUME UNCHANGED <<directory, token, raced>>, NEW y
    PROVE  RequestOK(y)' = RequestOK(y)
  <1>1. RowsKept(y)' = RowsKept(y)
    BY DEF RowsKept, directory
  <1>2. SparesAdmin(y)' = SparesAdmin(y)
    BY DEF SparesAdmin, AnotherAdministrator, Administrator, directory
  <1>3. KnowsPaths(y)' = KnowsPaths(y)
    BY DEF KnowsPaths, ApplicationsOf, MembersOf, directory
  <1>4. LeavesPaths(y)' = LeavesPaths(y)
    BY DEF LeavesPaths, directory
  <1>5. QED
    BY <1>1, <1>2, <1>3, <1>4 DEF RequestOK

LEMMA SetKeeps ==
    ASSUME AdminInv, NEW p \in Proc, NEW r \in Request \cup {None}, RequestOK(r),
           \A q \in Proc \ {p} : Apart(request[q], r), Set(p, r),
           UNCHANGED <<directory, token, raced>>
    PROVE  AdminInv'
  <1>1. /\ request' \in [Proc -> Request \cup {None}]
        /\ \A q \in Proc : request'[q] = IF q = p THEN r ELSE request[q]
    BY DEF Set, AdminInv, TypeOK
  <1>2. TypeOK'
    BY <1>1 DEF AdminInv, TypeOK, directory
  <1>3. ASSUME NEW q \in Proc PROVE RequestOK(request[q])'
    <2>1. PICK y : y = request'[q]
      OBVIOUS
    <2>2. RequestOK(y)
      BY <1>1, <2>1 DEF AdminInv
    <2>3. QED
      BY <2>1, <2>2, SameDirectory, SameRequest
  <1>4. ASSUME NEW q \in Proc, NEW s \in Proc, q # s PROVE Apart(request'[q], request'[s])
    BY <1>1, <1>4 DEF AdminInv, Apart
  <1>5. \A q, s \in Proc : q # s => Apart(request[q], request[s])'
    BY <1>4 DEF Apart
  <1>6. AnAdministratorRemains' /\ AccessNeedsAPath' /\ AccessNeedsActivity'
    BY DEF AdminInv, AnAdministratorRemains, Guarded, Administrator, AccessNeedsAPath, Allowed,
           AccessNeedsActivity, directory
  <1>7. QED
    BY <1>2, <1>3, <1>5, <1>6 DEF AdminInv

LEMMA AbortKeeps == ASSUME AdminInv, NEW p \in Proc, Abort(p) PROVE AdminInv'
  <1>1. RequestOK(None) /\ \A q \in Proc : Apart(request[q], None)
    BY DEF RequestOK, Apart
  <1>2. Set(p, None) /\ UNCHANGED <<directory, token, raced>>
    BY DEF Abort, End
  <1>3. QED
    BY <1>1, <1>2, SetKeeps

LEMMA BeginUpdateStatusKeeps ==
    ASSUME AdminInv, NEW p \in Proc, BeginUpdateStatus(p)
    PROVE  AdminInv'
  <1>1. PICK f \in StatusForm :
          /\ f.to = "INACTIVE" /\ Administrator(f.user) => AnotherAdministrator(f.user)
          /\ Set(p, Asked(f))
    BY DEF BeginUpdateStatus
  <1>2. f \in Form /\ f.op = "status" /\ f.user \in User
    BY DEF Form, StatusForm
  <1>3. AnotherAdministrator(f.user) \/ f.to # "INACTIVE"
    BY <1>1 DEF BeginUpdateStatus, Guarded, AnotherAdministrator
  <1>4. PICK r \in Request : /\ r = Asked(f) /\ r.form = f /\ r.at = "read"
                             /\ r.members = {} /\ r.policies = {}
    BY <1>2, AskedType
  <1>5. Shape(r) /\ RowsKept(r) /\ SparesAdmin(r) /\ KnowsPaths(r) /\ LeavesPaths(r)
    BY <1>2, <1>3, <1>4
    DEF Shape, Locking, RowsKept, SparesAdmin, RemovesAdmin, KnowsPaths, LeavesPaths
  <1>6. \A q \in Proc : Apart(request[q], r)
    BY <1>2, <1>4 DEF Apart, Locking
  <1>7. UNCHANGED <<directory, token, raced>>
    BY DEF BeginUpdateStatus
  <1>8. QED
    BY <1>1, <1>4, <1>5, <1>6, <1>7, SetKeeps DEF RequestOK

LEMMA BeginUpdateApplicationKeeps ==
    ASSUME AdminInv, NEW p \in Proc, BeginUpdateApplication(p)
    PROVE  AdminInv'
  <1>1. PICK f \in ApplicationForm :
          /\ application[f.application] # "absent"
          /\ Set(p, [Asked(f) EXCEPT !.was = application[f.application]])
    BY DEF BeginUpdateApplication
  <1>2. f \in Form /\ f.op = "application" /\ application[f.application] \in Status
    BY DEF Form, ApplicationForm, AdminInv, TypeOK
  <1>3. PICK s \in Request : /\ s = Asked(f) /\ s.form = f /\ s.at = "read"
                             /\ s.members = {} /\ s.policies = {}
    BY <1>2, AskedType
  <1> DEFINE r == [s EXCEPT !.was = application[f.application]]
  <1>4. /\ r \in Request /\ r.form = f /\ r.at = "read" /\ r.members = {} /\ r.policies = {}
    BY <1>2, <1>3 DEF Request
  <1>5. Set(p, r)
    BY <1>1, <1>3
  <1> HIDE DEF r
  <1>6. Shape(r) /\ RowsKept(r) /\ SparesAdmin(r) /\ KnowsPaths(r) /\ LeavesPaths(r)
    BY <1>1, <1>2, <1>4
    DEF Shape, Locking, RowsKept, SparesAdmin, RemovesAdmin, KnowsPaths, LeavesPaths
  <1>7. \A q \in Proc : Apart(request[q], r)
    BY <1>2, <1>4 DEF Apart, Locking
  <1>8. UNCHANGED <<directory, token, raced>>
    BY DEF BeginUpdateApplication
  <1>9. QED
    BY <1>4, <1>5, <1>6, <1>7, <1>8, SetKeeps DEF RequestOK

LEMMA BeginRemoveMembershipKeeps ==
    ASSUME AdminInv, NEW p \in Proc, BeginRemoveMembership(p)
    PROVE  AdminInv'
  <1>1. PICK f \in LeaveForm :
          /\ f.group = Admins => AnotherAdministrator(f.user)
          /\ Set(p, [Asked(f) EXCEPT !.users = {f.user},
                                     !.applications = ApplicationsOf(f.group)])
    BY DEF BeginRemoveMembership
  <1>2. f \in Form /\ f.op = "leave" /\ f.user \in User
    BY DEF Form, LeaveForm
  <1>3. PICK s \in Request : /\ s = Asked(f) /\ s.form = f /\ s.at = "read"
                             /\ s.members = {} /\ s.policies = {}
    BY <1>2, AskedType
  <1> DEFINE r == [s EXCEPT !.users = {f.user}, !.applications = ApplicationsOf(f.group)]
  <1>4. ApplicationsOf(f.group) \in SUBSET Application
    BY DEF ApplicationsOf
  <1>5. /\ r \in Request /\ r.form = f /\ r.at = "read" /\ r.members = {} /\ r.policies = {}
        /\ r.users = {f.user} /\ r.applications = ApplicationsOf(f.group)
    BY <1>2, <1>3, <1>4 DEF Request
  <1>6. Set(p, r)
    BY <1>1, <1>3
  <1> HIDE DEF r
  <1>7. Shape(r) /\ RowsKept(r) /\ SparesAdmin(r) /\ KnowsPaths(r) /\ LeavesPaths(r)
    BY <1>1, <1>2, <1>5
    DEF Shape, Locking, RowsKept, SparesAdmin, RemovesAdmin, KnowsPaths, LeavesPaths
  <1>8. \A q \in Proc : Apart(request[q], r)
    BY <1>2, <1>5 DEF Apart, Locking
  <1>9. UNCHANGED <<directory, token, raced>>
    BY DEF BeginRemoveMembership
  <1>10. QED
    BY <1>5, <1>6, <1>7, <1>8, <1>9, SetKeeps DEF RequestOK

LEMMA BeginDeleteGroupKeeps ==
    ASSUME AdminInv, NEW p \in Proc, BeginDeleteGroup(p)
    PROVE  AdminInv'
  <1>1. PICK f \in DissolveForm :
          /\ f.group \in group \ {Admins}
          /\ Set(p, [Asked(f) EXCEPT !.users = MembersOf(f.group),
                                     !.applications = ApplicationsOf(f.group)])
    BY DEF BeginDeleteGroup
  <1>2. f \in Form /\ f.op = "dissolve"
    BY DEF Form, DissolveForm
  <1>3. PICK s \in Request : /\ s = Asked(f) /\ s.form = f /\ s.at = "read"
                             /\ s.members = {} /\ s.policies = {}
    BY <1>2, AskedType
  <1> DEFINE r == [s EXCEPT !.users = MembersOf(f.group),
                            !.applications = ApplicationsOf(f.group)]
  <1>4. MembersOf(f.group) \in SUBSET User /\ ApplicationsOf(f.group) \in SUBSET Application
    BY DEF ApplicationsOf, MembersOf
  <1>5. /\ r \in Request /\ r.form = f /\ r.at = "read" /\ r.members = {} /\ r.policies = {}
        /\ r.users = MembersOf(f.group) /\ r.applications = ApplicationsOf(f.group)
    BY <1>2, <1>3, <1>4 DEF Request
  <1>6. Set(p, r)
    BY <1>1, <1>3
  <1> HIDE DEF r
  <1>7. Shape(r) /\ RowsKept(r) /\ SparesAdmin(r) /\ KnowsPaths(r) /\ LeavesPaths(r)
    BY <1>1, <1>2, <1>5
    DEF Shape, Locking, RowsKept, SparesAdmin, RemovesAdmin, KnowsPaths, LeavesPaths
  <1>8. \A q \in Proc : Apart(request[q], r)
    BY <1>2, <1>5 DEF Apart, Locking
  <1>9. UNCHANGED <<directory, token, raced>>
    BY DEF BeginDeleteGroup
  <1>10. QED
    BY <1>5, <1>6, <1>7, <1>8, <1>9, SetKeeps DEF RequestOK

-----------------------------------------------------------------------------
(* Steps that change rows, uncommitted                                     *)

LEMMA ChangedRequest ==
    ASSUME AdminInv, NEW p \in Proc, NEW r \in Request,
           NEW M \in SUBSET Membership, NEW W \in SUBSET Policy, Change(p, r, M, W)
    PROVE  \E y \in Request :
             /\ Set(p, y)
             /\ y.form = r.form /\ y.at = "changed" /\ y.users = r.users
             /\ y.members = M /\ y.policies = W
             /\ y.revoked = TokensOf(LostAccess(r.users, r.applications, M, W))
  <1>1. TokensOf(LostAccess(r.users, r.applications, M, W)) \in SUBSET Token
    BY DEF TokensOf, AdminInv, TypeOK
  <1>2. PICK R \in SUBSET Token : R = TokensOf(LostAccess(r.users, r.applications, M, W))
    BY <1>1
  <1>3. PICK y : y = [r EXCEPT !.at = "changed", !.members = M, !.policies = W, !.revoked = R]
    OBVIOUS
  <1>4. Set(p, y)
    BY <1>2, <1>3 DEF Change
  <1>5. /\ y \in Request /\ y.form = r.form /\ y.at = "changed" /\ y.users = r.users
        /\ y.members = M /\ y.policies = W /\ y.revoked = R
    BY <1>3 DEF Request
  <1>6. QED
    BY <1>2, <1>4, <1>5

\* Whoever could lose a path by the deletion of these rows has another, or is revoked.
LEMMA LosersAreRevoked ==
    ASSUME AdminInv, "paths" \notin raced, NEW us, NEW as, NEW M, NEW W,
           \A u \in User, a \in Application, g \in Group :
               /\ <<u, g>> \in member /\ <<a, g>> \in policy
               /\ <<u, g>> \in M \/ <<a, g>> \in W
               => u \in us /\ a \in as
    PROVE  \A t \in token : \/ t \in TokensOf(LostAccess(us, as, M, W))
                            \/ Path(t[1], t[2], member \ M, policy \ W)
  <1> SUFFICES ASSUME NEW t \in token, ~Path(t[1], t[2], member \ M, policy \ W)
               PROVE  t \in TokensOf(LostAccess(us, as, M, W))
    OBVIOUS
  <1>1. t[1] \in User /\ t[2] \in Application
    BY DEF AdminInv, TypeOK, Token
  <1>2. PICK g \in Group : <<t[1], g>> \in member /\ <<t[2], g>> \in policy
    BY DEF AdminInv, AccessNeedsAPath, Allowed, Path
  <1>3. <<t[1], g>> \in M \/ <<t[2], g>> \in W
    BY <1>2 DEF Path
  <1>4. t[1] \in us /\ t[2] \in as
    BY <1>1, <1>2, <1>3
  <1>5. QED
    BY <1>4 DEF TokensOf, LostAccess

LEMMA RemoveMembershipKeeps ==
    ASSUME AdminInv, NEW p \in Proc, RemoveMembership(p)
    PROVE  AdminInv'
  <1>1. Busy(p) /\ request[p].form.op = "leave" /\ request[p].at = "read"
    BY DEF RemoveMembership, Reading, Op
  <1>2. PICK r \in Request : r = request[p]
    BY <1>1, RequestFacts
  <1>3. r.form \in Form /\ Shape(r) /\ SparesAdmin(r) /\ KnowsPaths(r)
    BY <1>1, <1>2, RequestFacts
  <1>4. PICK f \in Form : f = r.form /\ f.op = "leave" /\ f.user \in User /\ f.group \in Group
    BY <1>1, <1>2, <1>3, FormFacts
  <1>5. PICK M \in SUBSET Membership, W \in SUBSET Policy :
          M = {<<f.user, f.group>>} /\ W = {}
    <2>1. <<f.user, f.group>> \in Membership
      BY <1>4 DEF Membership
    <2>2. QED
      BY <2>1
  <1>6. Change(p, r, M, W)
    BY <1>2, <1>4, <1>5 DEF RemoveMembership
  <1>7. PICK y \in Request :
          /\ Set(p, y)
          /\ y.form = f /\ y.at = "changed" /\ y.users = r.users
          /\ y.members = M /\ y.policies = W
          /\ y.revoked = TokensOf(LostAccess(r.users, r.applications, M, W))
    BY <1>4, <1>6, ChangedRequest
  <1>8. Shape(y)
    BY <1>3, <1>4, <1>5, <1>7 DEF Shape, Locking
  <1>9. RowsKept(y) /\ KnowsPaths(y) /\ SparesAdmin(y)
    BY <1>3, <1>4, <1>5, <1>7 DEF RowsKept, KnowsPaths, SparesAdmin
  <1>10. LeavesPaths(y)
    <2> SUFFICES ASSUME "paths" \notin raced
                 PROVE  \A t \in token : \/ t \in y.revoked
                                         \/ Path(t[1], t[2], member \ y.members, policy \ y.policies)
      BY DEF LeavesPaths
    <2>1. f.user \in r.users /\ ApplicationsOf(f.group) \subseteq r.applications
      BY <1>1, <1>2, <1>3, <1>4 DEF Shape, KnowsPaths
    <2>2. ASSUME NEW u \in User, NEW a \in Application, NEW g \in Group,
                 <<u, g>> \in member, <<a, g>> \in policy,
                 <<u, g>> \in M \/ <<a, g>> \in W
          PROVE  u \in r.users /\ a \in r.applications
      BY <1>5, <2>1, <2>2 DEF ApplicationsOf
    <2>3. \A t \in token : \/ t \in TokensOf(LostAccess(r.users, r.applications, M, W))
                         \/ Path(t[1], t[2], member \ M, policy \ W)
      BY <2>2, LosersAreRevoked
    <2>4. QED
      BY <1>7, <2>3
  <1>11. \A q \in Proc : Apart(request[q], y)
    BY <1>4, <1>7 DEF Apart, Locking
  <1>12. UNCHANGED <<directory, token, raced>>
    BY <1>6 DEF Change
  <1>13. QED
    BY <1>7, <1>8, <1>9, <1>10, <1>11, <1>12, SetKeeps DEF RequestOK

LEMMA DeleteGroupKeeps ==
    ASSUME AdminInv, NEW p \in Proc, DeleteGroup(p)
    PROVE  AdminInv'
  <1>1. Busy(p) /\ request[p].form.op = "dissolve" /\ request[p].at = "read"
    BY DEF DeleteGroup, Reading, Op
  <1>2. PICK r \in Request : r = request[p]
    BY <1>1, RequestFacts
  <1>3. r.form \in Form /\ Shape(r) /\ SparesAdmin(r) /\ KnowsPaths(r)
    BY <1>1, <1>2, RequestFacts
  <1>4. PICK f \in Form : f = r.form /\ f.op = "dissolve" /\ f.group \in Group
    BY <1>1, <1>2, <1>3, FormFacts
  <1>5. PICK M \in SUBSET Membership : M = {<<u, f.group>> : u \in MembersOf(f.group)}
    <2>1. \A u \in MembersOf(f.group) : <<u, f.group>> \in Membership
      BY <1>4 DEF MembersOf, Membership
    <2>2. {<<u, f.group>> : u \in MembersOf(f.group)} \subseteq Membership
      BY <2>1
    <2>3. QED
      BY <2>2
  <1>6. PICK W \in SUBSET Policy : W = {<<a, f.group>> : a \in ApplicationsOf(f.group)}
    <2>1. \A a \in ApplicationsOf(f.group) : <<a, f.group>> \in Policy
      BY <1>4 DEF ApplicationsOf, Policy
    <2>2. {<<a, f.group>> : a \in ApplicationsOf(f.group)} \subseteq Policy
      BY <2>1
    <2>3. QED
      BY <2>2
  <1>7. Change(p, r, M, W)
    BY <1>2, <1>4, <1>5, <1>6 DEF DeleteGroup
  <1>8. PICK y \in Request :
          /\ Set(p, y)
          /\ y.form = f /\ y.at = "changed" /\ y.users = r.users
          /\ y.members = M /\ y.policies = W
          /\ y.revoked = TokensOf(LostAccess(r.users, r.applications, M, W))
    BY <1>4, <1>7, ChangedRequest
  <1>9. Shape(y)
    BY <1>3, <1>4, <1>5, <1>8 DEF Shape, Locking
  <1>10. \A m \in member : m[2] = f.group => m \in M
    <2> SUFFICES ASSUME NEW m \in member, m[2] = f.group PROVE m \in M
      OBVIOUS
    <2>1. m = <<m[1], f.group>> /\ m[1] \in User
      BY DEF AdminInv, TypeOK, Membership
    <2>2. QED
      BY <1>5, <2>1 DEF MembersOf
  <1>11. \A w \in policy : w[2] = f.group => w \in W
    <2> SUFFICES ASSUME NEW w \in policy, w[2] = f.group PROVE w \in W
      OBVIOUS
    <2>1. w = <<w[1], f.group>> /\ w[1] \in Application
      BY DEF AdminInv, TypeOK, Policy
    <2>2. QED
      BY <1>6, <2>1 DEF ApplicationsOf
  <1>12. RowsKept(y) /\ KnowsPaths(y) /\ SparesAdmin(y)
    BY <1>3, <1>4, <1>8, <1>10, <1>11 DEF RowsKept, KnowsPaths, SparesAdmin
  <1>13. LeavesPaths(y)
    <2> SUFFICES ASSUME "paths" \notin raced
                 PROVE  \A t \in token : \/ t \in y.revoked
                                         \/ Path(t[1], t[2], member \ y.members, policy \ y.policies)
      BY DEF LeavesPaths
    <2>1. MembersOf(f.group) \subseteq r.users /\ ApplicationsOf(f.group) \subseteq r.applications
      BY <1>1, <1>2, <1>3, <1>4 DEF KnowsPaths
    <2>2. ASSUME NEW u \in User, NEW a \in Application, NEW g \in Group,
                 <<u, g>> \in member, <<a, g>> \in policy, <<u, g>> \in M \/ <<a, g>> \in W
          PROVE  u \in r.users /\ a \in r.applications
      <3>1. g = f.group
        BY <1>5, <1>6, <2>2
      <3>2. QED
        BY <2>1, <2>2, <3>1 DEF ApplicationsOf, MembersOf
    <2>3. \A t \in token : \/ t \in TokensOf(LostAccess(r.users, r.applications, M, W))
                         \/ Path(t[1], t[2], member \ M, policy \ W)
      BY <2>2, LosersAreRevoked
    <2>4. QED
      BY <1>8, <2>3
  <1>14. \A q \in Proc : Apart(request[q], y)
    BY <1>4, <1>8 DEF Apart, Locking
  <1>15. UNCHANGED <<directory, token, raced>>
    BY <1>7 DEF Change
  <1>16. QED
    BY <1>8, <1>9, <1>12, <1>13, <1>14, <1>15, SetKeeps DEF RequestOK

\* What has locked an application is the only request that has.
LEMMA LockedApart ==
    ASSUME AdminInv, NEW y \in Request, y.form.op \in Locking,
           ~ApplicationHeld(y.form.application)
    PROVE  \A q \in Proc : Apart(request[q], y)
  <1> SUFFICES ASSUME NEW q \in Proc, Busy(q), request[q].form.op \in Locking
               PROVE  request[q].form.application # y.form.application
    BY DEF Apart, Busy
  <1>1. request[q].at = "changed"
    BY RequestFacts DEF Shape
  <1>2. QED
    BY <1>1 DEF ApplicationHeld, Op, Changing

LEMMA RemovePolicyKeeps ==
    ASSUME AdminInv, NEW p \in Proc, RemovePolicy(p)
    PROVE  AdminInv'
  <1>1. PICK f \in PolicyForm :
          /\ ~ApplicationHeld(f.application)
          /\ <<f.application, f.group>> \in policy
          /\ Change(p, [Asked(f) EXCEPT !.users = MembersOf(f.group),
                                        !.applications = {f.application}],
                    {}, {<<f.application, f.group>>})
    BY DEF RemovePolicy
  <1>2. /\ f \in Form /\ f.op = "unpolicy"
        /\ f.application \in Application /\ f.group \in Group
    BY DEF Form, PolicyForm
  <1>3. PICK s \in Request : s = Asked(f) /\ s.form = f
    BY <1>2, AskedType
  <1>4. MembersOf(f.group) \in SUBSET User
    BY DEF MembersOf
  <1>5. PICK r \in Request :
          /\ r = [s EXCEPT !.users = MembersOf(f.group), !.applications = {f.application}]
          /\ r.users = MembersOf(f.group) /\ r.applications = {f.application}
          /\ r.form = f
    <2>1. PICK x : x = [s EXCEPT !.users = MembersOf(f.group), !.applications = {f.application}]
      OBVIOUS
    <2>2. /\ x \in Request /\ x.form = f
          /\ x.users = MembersOf(f.group) /\ x.applications = {f.application}
      BY <1>2, <1>3, <1>4, <2>1 DEF Request
    <2>3. QED
      BY <2>1, <2>2
  <1>6. PICK M \in SUBSET Membership, W \in SUBSET Policy :
          M = {} /\ W = {<<f.application, f.group>>}
    <2>1. <<f.application, f.group>> \in Policy
      BY <1>2 DEF Policy
    <2>2. QED
      BY <2>1
  <1>7. Change(p, r, M, W)
    BY <1>1, <1>3, <1>5, <1>6
  <1>8. PICK y \in Request :
          /\ Set(p, y)
          /\ y.form = r.form /\ y.at = "changed" /\ y.users = r.users
          /\ y.members = M /\ y.policies = W
          /\ y.revoked = TokensOf(LostAccess(r.users, r.applications, M, W))
    BY <1>7, ChangedRequest
  <1>9. Shape(y) /\ RowsKept(y) /\ KnowsPaths(y) /\ SparesAdmin(y)
    BY <1>2, <1>5, <1>6, <1>8 DEF Shape, RowsKept, KnowsPaths, SparesAdmin, RemovesAdmin
  <1>10. LeavesPaths(y)
    <2> SUFFICES ASSUME "paths" \notin raced
                 PROVE  \A t \in token : \/ t \in y.revoked
                                         \/ Path(t[1], t[2], member \ y.members, policy \ y.policies)
      BY DEF LeavesPaths
    <2>1. ASSUME NEW u \in User, NEW a \in Application, NEW g \in Group,
                 <<u, g>> \in member, <<a, g>> \in policy, <<u, g>> \in M \/ <<a, g>> \in W
          PROVE  u \in r.users /\ a \in r.applications
      BY <1>5, <1>6, <2>1 DEF MembersOf
    <2>2. \A t \in token : \/ t \in TokensOf(LostAccess(r.users, r.applications, M, W))
                            \/ Path(t[1], t[2], member \ M, policy \ W)
      BY <2>1, LosersAreRevoked
    <2>3. QED
      BY <1>8, <2>2
  <1>11. \A q \in Proc : Apart(request[q], y)
    BY <1>1, <1>2, <1>5, <1>8, LockedApart DEF Locking
  <1>12. UNCHANGED <<directory, token, raced>>
    BY <1>7 DEF Change
  <1>13. QED
    BY <1>8, <1>9, <1>10, <1>11, <1>12, SetKeeps DEF RequestOK

LEMMA AddRedirectUriKeeps ==
    ASSUME AdminInv, NEW p \in Proc, AddRedirectUri(p)
    PROVE  AdminInv'
  <1>1. PICK f \in AddUriForm :
          /\ ~ApplicationHeld(f.application)
          /\ uris[f.application] \in 1 .. MaxUris - 1
          /\ Set(p, [Asked(f) EXCEPT !.at = "changed"])
    BY DEF AddRedirectUri
  <1>2. f \in Form /\ f.op = "addUri"
    BY DEF Form, AddUriForm
  <1>3. PICK s \in Request : s = Asked(f) /\ s.form = f /\ s.members = {} /\ s.policies = {}
    BY <1>2, AskedType
  <1>4. PICK r : r = [s EXCEPT !.at = "changed"]
    OBVIOUS
  <1>5. r \in Request /\ r.form = f /\ r.at = "changed" /\ r.members = {} /\ r.policies = {}
    BY <1>3, <1>4 DEF Request
  <1>6. Shape(r) /\ RowsKept(r) /\ SparesAdmin(r) /\ KnowsPaths(r) /\ LeavesPaths(r)
    BY <1>1, <1>2, <1>5 DEF Shape, RowsKept, SparesAdmin, RemovesAdmin, KnowsPaths, LeavesPaths
  <1>7. \A q \in Proc : Apart(request[q], r)
    BY <1>1, <1>2, <1>5, LockedApart DEF Locking
  <1>8. UNCHANGED <<directory, token, raced>>
    BY DEF AddRedirectUri
  <1>9. QED
    BY <1>1, <1>3, <1>4, <1>5, <1>6, <1>7, <1>8, SetKeeps DEF RequestOK

LEMMA RemoveRedirectUriKeeps ==
    ASSUME AdminInv, NEW p \in Proc, RemoveRedirectUri(p)
    PROVE  AdminInv'
  <1>1. PICK f \in RemoveUriForm :
          /\ ~ApplicationHeld(f.application)
          /\ uris[f.application] > 1
          /\ Set(p, [Asked(f) EXCEPT !.at = "changed"])
    BY DEF RemoveRedirectUri
  <1>2. f \in Form /\ f.op = "removeUri"
    BY DEF Form, RemoveUriForm
  <1>3. PICK s \in Request : s = Asked(f) /\ s.form = f /\ s.members = {} /\ s.policies = {}
    BY <1>2, AskedType
  <1>4. PICK r : r = [s EXCEPT !.at = "changed"]
    OBVIOUS
  <1>5. r \in Request /\ r.form = f /\ r.at = "changed" /\ r.members = {} /\ r.policies = {}
    BY <1>3, <1>4 DEF Request
  <1>6. Shape(r) /\ RowsKept(r) /\ SparesAdmin(r) /\ KnowsPaths(r) /\ LeavesPaths(r)
    BY <1>1, <1>2, <1>5 DEF Shape, RowsKept, SparesAdmin, RemovesAdmin, KnowsPaths, LeavesPaths
  <1>7. \A q \in Proc : Apart(request[q], r)
    BY <1>1, <1>2, <1>5, LockedApart DEF Locking
  <1>8. UNCHANGED <<directory, token, raced>>
    BY DEF RemoveRedirectUri
  <1>9. QED
    BY <1>1, <1>3, <1>4, <1>5, <1>6, <1>7, <1>8, SetKeeps DEF RequestOK

-----------------------------------------------------------------------------
(* Steps that change the directory                                         *)

\* A step that leaves alone, or notes that it does not, what a request under way relies on.
Respects(y) ==
    /\ raced \subseteq raced'
    /\ y.form.op = "application" /\ application[y.form.application] # "absent" =>
         application'[y.form.application] # "absent"
    /\ y.form.op \in {"addUri", "removeUri"} =>
         uris'[y.form.application] = uris[y.form.application]
    /\ y.form.op = "dissolve" /\ (y.at = "changed" \/ "paths" \notin raced') =>
         /\ \A m \in member' : m[2] = y.form.group => m \in member
         /\ \A w \in policy' : w[2] = y.form.group => w \in policy
    /\ y.form.op = "leave" /\ y.at = "read" /\ "paths" \notin raced' =>
         \A w \in policy' : w[2] = y.form.group => w \in policy
    /\ RemovesAdmin(y.form) /\ "administrators" \notin raced' =>
         \A u \in User : Administrator(u) => Administrator(u)'
    /\ y.at = "changed" /\ y.members \cup y.policies # {} /\ "paths" \notin raced' =>
         member \subseteq member' /\ policy \subseteq policy' /\ token' \subseteq token

LEMMA RequestKept ==
    ASSUME AdminInv, NEW y \in Request, RequestOK(y), Respects(y)
    PROVE  RequestOK(y)'
  <1> SUFFICES ASSUME y # None PROVE RequestOK(y)'
    BY DEF RequestOK
  <1>1. y.form \in Form /\ y.at \in {"read", "changed"}
    BY DEF Request
  <1>2. Shape(y) /\ RowsKept(y) /\ SparesAdmin(y) /\ KnowsPaths(y) /\ LeavesPaths(y)
    BY DEF RequestOK
  <1>3. Shape(y)'
    BY <1>2 DEF Shape
  <1>4. RowsKept(y)'
    BY <1>2 DEF RowsKept, Respects
  <1>5. SparesAdmin(y)'
    BY <1>2 DEF SparesAdmin, AnotherAdministrator, Respects
  <1>6. KnowsPaths(y)'
    <2> SUFFICES ASSUME "paths" \notin raced', y.at = "read", y.form.op \in {"leave", "dissolve"}
                 PROVE  /\ ApplicationsOf(y.form.group)' \subseteq y.applications
                        /\ y.form.op = "dissolve" =>
                             MembersOf(y.form.group)' \subseteq y.users
      BY DEF KnowsPaths, ApplicationsOf, MembersOf
    <2>1. "paths" \notin raced
      BY DEF Respects
    <2>2. \A w \in policy' : w[2] = y.form.group => w \in policy
      BY DEF Respects
    <2>3. y.form.op = "dissolve" => \A m \in member' : m[2] = y.form.group => m \in member
      BY DEF Respects
    <2>4. ApplicationsOf(y.form.group)' \subseteq ApplicationsOf(y.form.group)
      BY <2>2 DEF ApplicationsOf
    <2>5. y.form.op = "dissolve" => MembersOf(y.form.group)' \subseteq MembersOf(y.form.group)
      BY <2>3 DEF MembersOf
    <2>6. QED
      BY <1>2, <2>1, <2>4, <2>5 DEF KnowsPaths
  <1>7. LeavesPaths(y)'
    <2> SUFFICES ASSUME "paths" \notin raced', y.at = "changed", y.members \cup y.policies # {},
                        NEW t \in token', t \notin y.revoked
                 PROVE  Path(t[1], t[2], member' \ y.members, policy' \ y.policies)
      BY DEF LeavesPaths, Path
    <2>1. "paths" \notin raced
      BY DEF Respects
    <2>2. member \subseteq member' /\ policy \subseteq policy' /\ t \in token
      BY DEF Respects
    <2>3. Path(t[1], t[2], member \ y.members, policy \ y.policies)
      BY <1>2, <2>1, <2>2 DEF LeavesPaths
    <2>4. QED
      BY <2>2, <2>3 DEF Path
  <1>8. QED
    BY <1>3, <1>4, <1>5, <1>6, <1>7 DEF RequestOK

LEMMA DirectoryStep ==
    ASSUME AdminInv, NEW P,
           \A q \in Proc : request'[q] = IF q \in P THEN None ELSE request[q],
           \A q \in Proc \ P : Busy(q) => Respects(request[q]),
           TypeOK', AnAdministratorRemains', AccessNeedsAPath', AccessNeedsActivity'
    PROVE  AdminInv'
  <1>1. ASSUME NEW q \in Proc PROVE RequestOK(request[q])'
    <2>1. CASE request'[q] = None
      <3>1. PICK y : y = None
        OBVIOUS
      <3>2. RequestOK(y)'
        BY <3>1 DEF RequestOK
      <3>3. QED
        BY <2>1, <3>1, <3>2, SameRequest
    <2>2. CASE request'[q] # None
      <3>1. PICK y : y = request[q]
        OBVIOUS
      <3>2. q \in Proc \ P /\ request'[q] = y /\ Busy(q) /\ y \in Request
        BY <2>2, <3>1 DEF Busy, AdminInv, TypeOK
      <3>3. RequestOK(y)
        BY <3>1 DEF AdminInv
      <3>4. Respects(y)
        BY <3>1, <3>2 DEF Respects
      <3>5. RequestOK(y)'
        BY <3>2, <3>3, <3>4, RequestKept
      <3>6. QED
        BY <3>2, <3>5, SameRequest
    <2>3. QED
      BY <2>1, <2>2
  <1>2. ASSUME NEW q \in Proc, NEW s \in Proc, q # s PROVE Apart(request'[q], request'[s])
    BY <1>2 DEF AdminInv, Apart
  <1>3. \A q, s \in Proc : q # s => Apart(request[q], request[s])'
    BY <1>2 DEF Apart
  <1>4. QED
    BY <1>1, <1>3 DEF AdminInv

LEMMA SteadyStep ==
    ASSUME AdminInv, UNCHANGED request,
           \A q \in Proc : Busy(q) => Respects(request[q]),
           TypeOK', AnAdministratorRemains', AccessNeedsAPath', AccessNeedsActivity'
    PROVE  AdminInv'
  <1>1. PICK P : P = {}
    OBVIOUS
  <1>2. /\ \A q \in Proc : request'[q] = IF q \in P THEN None ELSE request[q]
        /\ \A q \in Proc \ P : Busy(q) => Respects(request[q])
    BY <1>1
  <1>3. QED
    BY <1>2, DirectoryStep

LEMMA CreateUserKeeps ==
    ASSUME AdminInv, NEW u \in User, CreateUser(u)
    PROVE  AdminInv'
  <1>1. /\ user[u] = "absent" /\ user' = [user EXCEPT ![u] = "ACTIVE"]
        /\ UNCHANGED <<group, member, policy, application, uris, token, request, raced>>
    BY DEF CreateUser
  <1>2. TypeOK'
    BY <1>1 DEF AdminInv, TypeOK, Status
  <1>3. \A v \in User : Administrator(v) => Administrator(v)'
    BY <1>1 DEF AdminInv, TypeOK, Administrator
  <1>4. \A q \in Proc : Busy(q) => Respects(request[q])
    BY <1>1, <1>3 DEF Respects
  <1>5. AnAdministratorRemains'
    BY <1>1, <1>3 DEF AdminInv, AnAdministratorRemains, Guarded
  <1>6. AccessNeedsAPath'
    BY <1>1 DEF AdminInv, AccessNeedsAPath, Allowed
  <1>7. AccessNeedsActivity'
    <2>1. \A t \in token : t[1] \in User
      BY DEF AdminInv, TypeOK, Token
    <2>2. QED
      BY <1>1, <2>1 DEF AdminInv, TypeOK, AccessNeedsActivity
  <1>8. QED
    BY <1>1, <1>2, <1>4, <1>5, <1>6, <1>7, SteadyStep

LEMMA CreateGroupKeeps ==
    ASSUME AdminInv, NEW g \in Group, CreateGroup(g)
    PROVE  AdminInv'
  <1>1. /\ group' = group \cup {g}
        /\ UNCHANGED <<user, member, policy, application, uris, token, request, raced>>
    BY DEF CreateGroup
  <1>2. TypeOK'
    BY <1>1 DEF AdminInv, TypeOK
  <1>3. \A v \in User : Administrator(v) => Administrator(v)'
    BY <1>1 DEF Administrator
  <1>4. \A q \in Proc : Busy(q) => Respects(request[q])
    BY <1>1, <1>3 DEF Respects
  <1>5. AnAdministratorRemains' /\ AccessNeedsAPath' /\ AccessNeedsActivity'
    BY <1>1, <1>3 DEF AdminInv, AnAdministratorRemains, Guarded, AccessNeedsAPath, Allowed,
                      AccessNeedsActivity
  <1>6. QED
    BY <1>1, <1>2, <1>4, <1>5, SteadyStep

LEMMA CreateApplicationKeeps ==
    ASSUME AdminInv, NEW a \in Application, CreateApplication(a)
    PROVE  AdminInv'
  <1>1. PICK n \in 1 .. MaxUris :
          /\ application[a] = "absent" /\ application' = [application EXCEPT ![a] = "ACTIVE"]
          /\ uris' = [uris EXCEPT ![a] = n]
          /\ UNCHANGED <<user, group, member, policy, token, request, raced>>
    BY DEF CreateApplication
  <1>2. TypeOK'
    <2>1. n \in 0 .. MaxUris /\ n # 0
      BY AdminAssumption
    <2>2. application' \in [Application -> Status] /\ uris' \in [Application -> 0 .. MaxUris]
      BY <1>1, <2>1 DEF AdminInv, TypeOK, Status
    <2>3. \A b \in Application : (uris'[b] = 0 <=> application'[b] = "absent")
      BY <1>1, <2>1 DEF AdminInv, TypeOK
    <2>4. QED
      BY <1>1, <2>2, <2>3 DEF AdminInv, TypeOK
  <1>3. \A v \in User : Administrator(v) => Administrator(v)'
    BY <1>1 DEF Administrator
  <1>4. ASSUME NEW q \in Proc, Busy(q) PROVE Respects(request[q])
    <2>1. PICK y \in Request : y = request[q]
      BY <1>4, RequestFacts
    <2>2. PICK f \in Form : f = y.form
      BY <1>4, <2>1, RequestFacts
    <2>3. f.op \in {"application", "addUri", "removeUri"} => f.application \in Application
      BY FormFacts
    <2>4. f.op \in {"addUri", "removeUri"} => uris[f.application] # 0
      BY <1>4, <2>1, <2>2, RequestFacts DEF RowsKept
    <2>5. f.op \in {"addUri", "removeUri"} => uris'[f.application] = uris[f.application]
      BY <1>1, <2>3, <2>4 DEF AdminInv, TypeOK
    <2>6. f.op = "application" /\ application[f.application] # "absent"
            => application'[f.application] # "absent"
      BY <1>1, <2>3 DEF AdminInv, TypeOK
    <2>7. QED
      BY <1>1, <1>3, <2>1, <2>2, <2>5, <2>6 DEF Respects
  <1>5. AnAdministratorRemains' /\ AccessNeedsAPath'
    BY <1>1, <1>3 DEF AdminInv, AnAdministratorRemains, Guarded, AccessNeedsAPath, Allowed
  <1>6. AccessNeedsActivity'
    <2>1. \A t \in token : t[2] \in Application
      BY DEF AdminInv, TypeOK, Token
    <2>2. QED
      BY <1>1, <2>1 DEF AdminInv, TypeOK, AccessNeedsActivity
  <1>7. QED
    BY <1>1, <1>2, <1>4, <1>5, <1>6, SteadyStep

LEMMA AddGroupMembershipKeeps ==
    ASSUME AdminInv, NEW u \in User, NEW g \in Group, AddGroupMembership(u, g)
    PROVE  AdminInv'
  <1>1. /\ user[u] # "absent" /\ g \in group /\ ~GroupHeld(g)
        /\ member' = member \cup {<<u, g>>}
        /\ raced' = raced \cup StaleGroup(g, {"dissolve"})
        /\ UNCHANGED <<user, group, policy, application, uris, token, request>>
    BY DEF AddGroupMembership, Note
  <1>2. StaleGroup(g, {"dissolve"}) \subseteq {"paths"}
    BY DEF StaleGroup
  <1>3. TypeOK'
    <2>1. member' \subseteq Membership
      BY <1>1 DEF AdminInv, TypeOK, Membership
    <2>2. \A m \in member' : user'[m[1]] # "absent" /\ m[2] \in group'
      BY <1>1 DEF AdminInv, TypeOK
    <2>3. QED
      BY <1>1, <1>2, <2>1, <2>2 DEF AdminInv, TypeOK
  <1>4. \A v \in User : Administrator(v) => Administrator(v)'
    BY <1>1 DEF Administrator
  <1>5. ASSUME NEW q \in Proc, Busy(q) PROVE Respects(request[q])
    <2>1. PICK y \in Request : y = request[q]
      BY <1>5, RequestFacts
    <2>2. y.at \in {"read", "changed"}
      BY DEF Request
    <2>3. y.form.op = "dissolve" /\ y.form.group = g => y.at = "read"
      BY <1>1, <1>5, <2>1, <2>2 DEF GroupHeld, Op, Changing
    <2>4. y.form.op = "dissolve" /\ y.form.group = g => "paths" \in raced'
      BY <1>1, <1>5, <2>1, <2>3 DEF StaleGroup, Reading, Op
    <2>5. y.form.op = "dissolve" /\ (y.at = "changed" \/ "paths" \notin raced') =>
            \A m \in member' : m[2] = y.form.group => m \in member
      BY <1>1, <2>3, <2>4
    <2>6. QED
      BY <1>1, <1>4, <2>1, <2>5 DEF Respects
  <1>6. AnAdministratorRemains' /\ AccessNeedsActivity'
    BY <1>1, <1>4 DEF AdminInv, AnAdministratorRemains, Guarded, AccessNeedsActivity
  <1>7. AccessNeedsAPath'
    BY <1>1 DEF AdminInv, AccessNeedsAPath, Allowed, Path
  <1>8. QED
    BY <1>1, <1>3, <1>5, <1>6, <1>7, SteadyStep

LEMMA AddPolicyKeeps ==
    ASSUME AdminInv, NEW a \in Application, NEW g \in Group, AddPolicy(a, g)
    PROVE  AdminInv'
  <1>1. /\ g \in group /\ ~GroupHeld(g)
        /\ policy' = policy \cup {<<a, g>>}
        /\ raced' = raced \cup StaleGroup(g, {"dissolve", "leave"})
        /\ UNCHANGED <<user, group, member, application, uris, token, request>>
    BY DEF AddPolicy, Note
  <1>2. StaleGroup(g, {"dissolve", "leave"}) \subseteq {"paths"}
    BY DEF StaleGroup
  <1>3. TypeOK'
    <2>1. policy' \subseteq Policy
      BY <1>1 DEF AdminInv, TypeOK, Policy
    <2>2. \A w \in policy' : w[2] \in group'
      BY <1>1 DEF AdminInv, TypeOK
    <2>3. QED
      BY <1>1, <1>2, <2>1, <2>2 DEF AdminInv, TypeOK
  <1>4. \A v \in User : Administrator(v) => Administrator(v)'
    BY <1>1 DEF Administrator
  <1>5. ASSUME NEW q \in Proc, Busy(q) PROVE Respects(request[q])
    <2>1. PICK y \in Request : y = request[q]
      BY <1>5, RequestFacts
    <2>2. y.at \in {"read", "changed"}
      BY DEF Request
    <2>3. y.form.op = "dissolve" /\ y.form.group = g => y.at = "read"
      BY <1>1, <1>5, <2>1, <2>2 DEF GroupHeld, Op, Changing
    <2>4. y.form.op \in {"dissolve", "leave"} /\ y.at = "read" /\ y.form.group = g
            => "paths" \in raced'
      BY <1>1, <1>5, <2>1 DEF StaleGroup, Reading, Op
    <2>5. \/ y.form.op = "dissolve" /\ (y.at = "changed" \/ "paths" \notin raced')
          \/ y.form.op = "leave" /\ y.at = "read" /\ "paths" \notin raced'
          => \A w \in policy' : w[2] = y.form.group => w \in policy
      BY <1>1, <2>3, <2>4
    <2>6. QED
      BY <1>1, <1>4, <2>1, <2>5 DEF Respects
  <1>6. AnAdministratorRemains' /\ AccessNeedsActivity'
    BY <1>1, <1>4 DEF AdminInv, AnAdministratorRemains, Guarded, AccessNeedsActivity
  <1>7. AccessNeedsAPath'
    BY <1>1 DEF AdminInv, AccessNeedsAPath, Allowed, Path
  <1>8. QED
    BY <1>1, <1>3, <1>5, <1>6, <1>7, SteadyStep

LEMMA UpdatePasswordKeeps ==
    ASSUME AdminInv, NEW u \in User, UpdatePassword(u)
    PROVE  AdminInv'
  <1>1. token' = token \ TokensOf({u}) /\ UNCHANGED <<directory, request, raced>>
    BY DEF UpdatePassword
  <1>2. TypeOK'
    BY <1>1 DEF AdminInv, TypeOK, directory
  <1>3. \A v \in User : Administrator(v) => Administrator(v)'
    BY <1>1 DEF Administrator, directory
  <1>4. \A q \in Proc : Busy(q) => Respects(request[q])
    BY <1>1, <1>3 DEF Respects, directory
  <1>5. AnAdministratorRemains' /\ AccessNeedsAPath' /\ AccessNeedsActivity'
    BY <1>1, <1>3 DEF AdminInv, AnAdministratorRemains, Guarded, AccessNeedsAPath, Allowed,
                      AccessNeedsActivity, directory
  <1>6. QED
    BY <1>1, <1>2, <1>4, <1>5, SteadyStep

LEMMA EndStep ==
    ASSUME AdminInv, NEW p \in Proc, End(p),
           \A q \in Proc \ {p} : Busy(q) => Respects(request[q]),
           TypeOK', AnAdministratorRemains', AccessNeedsAPath', AccessNeedsActivity'
    PROVE  AdminInv'
  <1>1. \A q \in Proc : request'[q] = IF q \in {p} THEN None ELSE request[q]
    BY DEF End, Set, AdminInv, TypeOK
  <1>2. QED
    BY <1>1, DirectoryStep

LEMMA UpdateStatusKeeps ==
    ASSUME AdminInv, NEW p \in Proc, UpdateStatus(p)
    PROVE  AdminInv'
  <1>1. Busy(p) /\ request[p].form.op = "status"
    BY DEF UpdateStatus, Reading, Op
  <1>2. PICK f \in Form : /\ f = request[p].form /\ f.op = "status"
                          /\ f.user \in User /\ f.to \in {"ACTIVE", "INACTIVE"}
    BY <1>1, RequestFacts, FormFacts
  <1>3. /\ user' = [user EXCEPT ![f.user] = f.to]
        /\ token' = IF f.to = "INACTIVE" THEN token \ TokensOf({f.user}) ELSE token
        /\ raced' = raced \cup AdminRace(p)
        /\ End(p)
        /\ UNCHANGED <<group, member, policy, application, uris>>
    BY <1>2 DEF UpdateStatus, Note
  <1>4. AdminRace(p) \subseteq {"administrators"} /\ token' \subseteq token
    BY <1>3 DEF AdminRace
  <1>5. TypeOK'
    <2>1. request' \in [Proc -> Request \cup {None}]
      BY <1>3 DEF End, Set, AdminInv, TypeOK
    <2>2. user' \in [User -> Status]
      BY <1>2, <1>3 DEF AdminInv, TypeOK, Status
    <2>3. \A m \in member' : user'[m[1]] # "absent" /\ m[2] \in group'
      BY <1>2, <1>3 DEF AdminInv, TypeOK, Membership
    <2>4. QED
      BY <1>3, <1>4, <2>1, <2>2, <2>3 DEF AdminInv, TypeOK
  <1>6. \A v \in User : Administrator(v) /\ (f.to = "INACTIVE" => v # f.user) => Administrator(v)'
    BY <1>2, <1>3 DEF AdminInv, TypeOK, Administrator
  <1>7. ASSUME NEW q \in Proc \ {p}, Busy(q) PROVE Respects(request[q])
    <2>1. RemovesAdmin(request[q].form) /\ "administrators" \notin raced' => f.to # "INACTIVE"
      BY <1>2, <1>3, <1>7 DEF AdminRace, RemovesAdmin
    <2>2. QED
      BY <1>3, <1>4, <1>6, <2>1 DEF Respects
  <1>8. AnAdministratorRemains'
    <2> SUFFICES ASSUME "administrators" \notin raced' PROVE Guarded'
      BY DEF AnAdministratorRemains
    <2>1. CASE f.to = "INACTIVE"
      <3>1. AnotherAdministrator(f.user)
        BY <1>1, <1>2, <1>3, <2>1, RequestFacts DEF SparesAdmin, RemovesAdmin
      <3>2. QED
        BY <1>6, <3>1 DEF AnotherAdministrator, Guarded
    <2>2. CASE f.to # "INACTIVE"
      BY <1>3, <1>6, <2>2 DEF AdminInv, AnAdministratorRemains, Guarded
    <2>3. QED
      BY <2>1, <2>2
  <1>9. AccessNeedsAPath'
    BY <1>3, <1>4 DEF AdminInv, AccessNeedsAPath, Allowed
  <1>10. AccessNeedsActivity'
    <2> SUFFICES ASSUME NEW t \in token'
                 PROVE  user'[t[1]] = "ACTIVE"
                        /\ ("status" \notin raced' => application'[t[2]] = "ACTIVE")
      BY DEF AccessNeedsActivity
    <2>1. t \in token /\ t[1] \in User
      BY <1>4 DEF AdminInv, TypeOK, Token
    <2>2. user[t[1]] = "ACTIVE" /\ ("status" \notin raced => application[t[2]] = "ACTIVE")
      BY <2>1 DEF AdminInv, AccessNeedsActivity
    <2>3. f.to = "INACTIVE" => t[1] # f.user
      BY <1>3, <2>1 DEF TokensOf
    <2>4. QED
      BY <1>2, <1>3, <2>1, <2>2, <2>3 DEF AdminInv, TypeOK
  <1>11. QED
    BY <1>3, <1>5, <1>7, <1>8, <1>9, <1>10, EndStep

LEMMA UpdateApplicationKeeps ==
    ASSUME AdminInv, NEW p \in Proc, UpdateApplication(p)
    PROVE  AdminInv'
  <1>1. Busy(p) /\ request[p].form.op = "application"
    BY DEF UpdateApplication, Reading, Op
  <1>2. PICK f \in Form : /\ f = request[p].form /\ f.op = "application"
                          /\ f.application \in Application /\ f.to \in {"ACTIVE", "INACTIVE"}
    BY <1>1, RequestFacts, FormFacts
  <1>3. application[f.application] # "absent"
    BY <1>1, <1>2, RequestFacts DEF RowsKept
  <1>4. PICK was : was = request[p].was
    OBVIOUS
  <1>5. /\ application' = [application EXCEPT ![f.application] = f.to]
        /\ token' = IF was = "ACTIVE" /\ f.to = "INACTIVE"
                      THEN {t \in token : t[2] # f.application} ELSE token
        /\ raced' = raced \cup (IF was # application[f.application] THEN {"status"} ELSE {})
        /\ End(p)
        /\ UNCHANGED <<user, group, member, policy, uris>>
    BY <1>2, <1>4 DEF UpdateApplication, Note
  <1>6. token' \subseteq token
    BY <1>5
  <1>7. TypeOK'
    <2>1. request' \in [Proc -> Request \cup {None}]
      BY <1>5 DEF End, Set, AdminInv, TypeOK
    <2>2. application' \in [Application -> Status]
      BY <1>2, <1>5 DEF AdminInv, TypeOK, Status
    <2>3. \A a \in Application : (uris'[a] = 0 <=> application'[a] = "absent")
      BY <1>2, <1>3, <1>5 DEF AdminInv, TypeOK
    <2>4. raced' \subseteq {"administrators", "paths", "status"}
      BY <1>5 DEF AdminInv, TypeOK
    <2>5. QED
      BY <1>5, <1>6, <2>1, <2>2, <2>3, <2>4 DEF AdminInv, TypeOK
  <1>8. \A v \in User : Administrator(v) => Administrator(v)'
    BY <1>5 DEF Administrator
  <1>9. ASSUME NEW q \in Proc \ {p}, Busy(q) PROVE Respects(request[q])
    <2>1. PICK g \in Form : g = request[q].form
      BY <1>9, RequestFacts
    <2>2. g.op = "application" => g.application \in Application
      BY FormFacts
    <2>3. g.op = "application" /\ application[g.application] # "absent"
            => application'[g.application] # "absent"
      BY <1>2, <1>5, <2>2 DEF AdminInv, TypeOK
    <2>4. QED
      BY <1>5, <1>6, <1>8, <2>1, <2>3 DEF Respects
  <1>10. AnAdministratorRemains'
    BY <1>5, <1>8 DEF AdminInv, AnAdministratorRemains, Guarded
  <1>11. AccessNeedsAPath'
    BY <1>5, <1>6 DEF AdminInv, AccessNeedsAPath, Allowed
  <1>12. AccessNeedsActivity'
    <2> SUFFICES ASSUME NEW t \in token'
                 PROVE  user'[t[1]] = "ACTIVE"
                        /\ ("status" \notin raced' => application'[t[2]] = "ACTIVE")
      BY DEF AccessNeedsActivity
    <2>1. t \in token /\ t[2] \in Application
      BY <1>6 DEF AdminInv, TypeOK, Token
    <2>2. user[t[1]] = "ACTIVE" /\ ("status" \notin raced => application[t[2]] = "ACTIVE")
      BY <2>1 DEF AdminInv, AccessNeedsActivity
    <2>3. "status" \notin raced' => "status" \notin raced /\ was = application[f.application]
      BY <1>5
    <2>4. "status" \notin raced' /\ t[2] = f.application => f.to = "ACTIVE"
      BY <1>2, <1>5, <2>2, <2>3
    <2>5. QED
      BY <1>2, <1>5, <2>1, <2>2, <2>3, <2>4 DEF AdminInv, TypeOK
  <1>13. QED
    BY <1>5, <1>7, <1>9, <1>10, <1>11, <1>12, EndStep

LEMMA CommitKeeps ==
    ASSUME AdminInv, NEW p \in Proc, Commit(p)
    PROVE  AdminInv'
  <1>1. Busy(p) /\ request[p].at = "changed"
    BY DEF Commit, Changing
  <1>2. PICK r \in Request : /\ r = request[p] /\ r.at = "changed" /\ r.form \in Form
                             /\ Shape(r) /\ RowsKept(r) /\ SparesAdmin(r) /\ LeavesPaths(r)
    BY <1>1, RequestFacts
  <1>3. PICK f \in Form : f = r.form
    BY <1>2
  <1>4. /\ member' = member \ r.members
        /\ policy' = policy \ r.policies
        /\ token' = token \ r.revoked
        /\ group' = IF f.op = "dissolve" THEN group \ {f.group} ELSE group
        /\ raced' = raced \cup AdminRace(p) \cup PathRace(p)
        /\ End(p)
        /\ UNCHANGED <<user, application>>
    BY <1>1, <1>2, <1>3 DEF Commit, Note, Op
  <1>5. /\ AdminRace(p) \subseteq {"administrators"} /\ PathRace(p) \subseteq {"paths"}
        /\ member' \subseteq member /\ policy' \subseteq policy /\ token' \subseteq token
        /\ raced \subseteq raced'
    BY <1>4 DEF AdminRace, PathRace
  <1>6. /\ uris' \in [Application -> Int]
        /\ \A a \in Application :
             uris'[a] = uris[a] + (IF f.op = "addUri" /\ f.application = a THEN 1
                                   ELSE IF f.op = "removeUri" /\ f.application = a THEN -1
                                   ELSE 0)
    <2>1. uris' = [a \in Application |-> uris[a] + UriChange(p, a)]
      BY DEF Commit
    <2>2. \A a \in Application :
            UriChange(p, a) = IF f.op = "addUri" /\ f.application = a THEN 1
                              ELSE IF f.op = "removeUri" /\ f.application = a THEN -1
                              ELSE 0
      BY <1>1, <1>2, <1>3 DEF UriChange, Op
    <2>3. \A a \in Application : uris[a] \in Int
      BY AdminAssumption DEF AdminInv, TypeOK
    <2>4. QED
      BY <2>1, <2>2, <2>3
  <1>7. TypeOK'
    <2>1. request' \in [Proc -> Request \cup {None}]
      BY <1>4 DEF End, Set, AdminInv, TypeOK
    <2>2. ASSUME NEW a \in Application
          PROVE  uris'[a] \in 0 .. MaxUris /\ (uris'[a] = 0 <=> application[a] = "absent")
      <3>1. uris[a] \in 0 .. MaxUris /\ (uris[a] = 0 <=> application[a] = "absent")
        BY DEF AdminInv, TypeOK
      <3>2. f.op = "addUri" /\ f.application = a => uris[a] \in 1 .. MaxUris - 1
        BY <1>2, <1>3 DEF RowsKept
      <3>3. f.op = "removeUri" /\ f.application = a => uris[a] > 1
        BY <1>2, <1>3 DEF RowsKept
      <3>4. QED
        BY <1>6, <3>1, <3>2, <3>3, AdminAssumption
    <2>3. uris' \in [Application -> 0 .. MaxUris]
      BY <1>6, <2>2
    <2>4. \A m \in member' : user'[m[1]] # "absent" /\ m[2] \in group'
      BY <1>2, <1>3, <1>4 DEF AdminInv, TypeOK, RowsKept
    <2>5. \A w \in policy' : w[2] \in group'
      BY <1>2, <1>3, <1>4 DEF AdminInv, TypeOK, RowsKept
    <2>6. QED
      BY <1>4, <1>5, <2>1, <2>2, <2>3, <2>4, <2>5 DEF AdminInv, TypeOK
  <1>8. \A v \in User :
          Administrator(v) /\ ~(f.op = "leave" /\ f.group = Admins /\ v = f.user)
            => Administrator(v)'
    <2> SUFFICES ASSUME NEW v \in User, Administrator(v),
                        ~(f.op = "leave" /\ f.group = Admins /\ v = f.user)
                 PROVE  <<v, Admins>> \notin r.members
      BY <1>4 DEF Administrator
    <2>1. CASE f.op = "leave"
      BY <1>2, <1>3, <2>1 DEF Shape
    <2>2. CASE f.op = "dissolve"
      BY <1>2, <1>3, <2>2 DEF Shape
    <2>3. CASE f.op \notin {"leave", "dissolve"}
      BY <1>2, <1>3, <2>3 DEF Shape
    <2>4. QED
      BY <2>1, <2>2, <2>3
  <1>9. ASSUME NEW q \in Proc \ {p}, Busy(q) PROVE Respects(request[q])
    <2>1. PICK y \in Request : y = request[q] /\ y.form \in Form /\ Shape(y)
      BY <1>9, RequestFacts
    <2>2. PICK g \in Form : g = y.form
      BY <2>1
    <2>3. g.op \in {"addUri", "removeUri"} => g.application \in Application
      BY FormFacts
    <2>4. g.op \in {"addUri", "removeUri"} => uris'[g.application] = uris[g.application]
      <3> SUFFICES ASSUME g.op \in {"addUri", "removeUri"}
                   PROVE  uris'[g.application] = uris[g.application]
        OBVIOUS
      <3>1. Apart(r, y)
        BY <1>2, <2>1 DEF AdminInv
      <3>2. r # None /\ y # None
        BY <1>1, <1>2, <1>9, <2>1 DEF Busy
      <3>3. ~(f.op \in {"addUri", "removeUri"} /\ f.application = g.application)
        BY <1>3, <2>2, <3>1, <3>2 DEF Apart, Locking
      <3>4. uris[g.application] \in Int
        BY <2>3 DEF AdminInv, TypeOK
      <3>5. QED
        BY <1>6, <2>3, <3>3, <3>4
    <2>5. RemovesAdmin(g) /\ "administrators" \notin raced' =>
            ~(f.op = "leave" /\ f.group = Admins)
      BY <1>2, <1>3, <1>4, <1>9, <2>1, <2>2 DEF AdminRace, RemovesAdmin
    <2>6. y.at = "changed" /\ y.members \cup y.policies # {} /\ "paths" \notin raced' =>
            r.members = {} /\ r.policies = {}
      BY <1>1, <1>2, <1>4, <1>9, <2>1 DEF PathRace, Unsettled, Changing
    <2>7. y.at = "changed" /\ y.members \cup y.policies # {} /\ "paths" \notin raced' =>
            member \subseteq member' /\ policy \subseteq policy' /\ token' \subseteq token
      BY <1>4, <2>6
    <2>8. RemovesAdmin(g) /\ "administrators" \notin raced' =>
            \A v \in User : Administrator(v) => Administrator(v)'
      BY <1>8, <2>5
    <2>9. QED
      BY <1>4, <1>5, <2>1, <2>2, <2>4, <2>7, <2>8 DEF Respects
  <1>10. AnAdministratorRemains'
    <2> SUFFICES ASSUME "administrators" \notin raced' PROVE Guarded'
      BY DEF AnAdministratorRemains
    <2>1. CASE f.op = "leave" /\ f.group = Admins
      <3>1. AnotherAdministrator(f.user)
        BY <1>2, <1>3, <1>5, <2>1 DEF SparesAdmin, RemovesAdmin
      <3>2. QED
        BY <1>8, <3>1 DEF AnotherAdministrator, Guarded
    <2>2. CASE ~(f.op = "leave" /\ f.group = Admins)
      BY <1>5, <1>8, <2>2 DEF AdminInv, AnAdministratorRemains, Guarded
    <2>3. QED
      BY <2>1, <2>2
  <1>11. AccessNeedsAPath'
    <2> SUFFICES ASSUME "paths" \notin raced', NEW t \in token'
                 PROVE  Path(t[1], t[2], member', policy')
      BY DEF AccessNeedsAPath, Allowed, Path
    <2>1. t \in token /\ t \notin r.revoked /\ "paths" \notin raced
      BY <1>4, <1>5
    <2>2. CASE r.members \cup r.policies # {}
      BY <1>2, <1>4, <2>1, <2>2 DEF LeavesPaths
    <2>3. CASE r.members \cup r.policies = {}
      <3>1. member' = member /\ policy' = policy
        BY <1>4, <2>3
      <3>2. QED
        BY <2>1, <3>1 DEF AdminInv, AccessNeedsAPath, Allowed
    <2>4. QED
      BY <2>2, <2>3
  <1>12. AccessNeedsActivity'
    BY <1>4, <1>5 DEF AdminInv, AccessNeedsActivity
  <1>13. QED
    BY <1>4, <1>7, <1>9, <1>10, <1>11, <1>12, EndStep

-----------------------------------------------------------------------------
(* A token that is issued                                                  *)

\* A request is as it was but for what it revokes, and relies on that only when its
\* deletions are uncommitted.
LEMMA SparedToken ==
    ASSUME AdminInv, UNCHANGED directory, NEW x \in Request, NEW y \in Request, RequestOK(x),
           x # None,
           y.form = x.form, y.at = x.at, y.users = x.users, y.applications = x.applications,
           y.members = x.members, y.policies = x.policies, raced \subseteq raced',
           x.at = "changed" /\ x.members \cup x.policies # {} => "paths" \in raced'
    PROVE  RequestOK(y)'
  <1>1. Shape(x) /\ RowsKept(x) /\ SparesAdmin(x) /\ KnowsPaths(x)
    BY DEF RequestOK
  <1>2. Shape(y)'
    BY <1>1 DEF Shape
  <1>3. RowsKept(y)'
    BY <1>1 DEF RowsKept, directory
  <1>4. SparesAdmin(y)'
    BY <1>1 DEF SparesAdmin, AnotherAdministrator, Administrator, directory
  <1>5. KnowsPaths(y)'
    BY <1>1 DEF KnowsPaths, ApplicationsOf, MembersOf, directory
  <1>6. LeavesPaths(y)'
    BY DEF LeavesPaths
  <1>7. QED
    BY <1>2, <1>3, <1>4, <1>5, <1>6 DEF RequestOK

LEMMA AuthorizeKeeps ==
    ASSUME AdminInv, NEW u \in User, NEW a \in Application, Authorize(u, a)
    PROVE  AdminInv'
  <1>1. /\ user[u] = "ACTIVE" /\ application[a] = "ACTIVE" /\ Allowed(u, a)
        /\ token' = token \cup {<<u, a>>}
        /\ raced' = raced \cup (IF \E p \in Proc : Unsettled(p) THEN {"paths"} ELSE {})
        /\ UNCHANGED directory
    BY DEF Authorize, Note
  <1>2. request' = [p \in Proc |->
                      IF Busy(p) THEN [request[p] EXCEPT !.revoked = @ \ {<<u, a>>}] ELSE None]
    BY DEF Authorize
  <1>3. ASSUME NEW q \in Proc, Busy(q)
        PROVE  \E y \in Request :
                 /\ y = request'[q] /\ y.form = request[q].form /\ y.at = request[q].at
                 /\ y.users = request[q].users /\ y.applications = request[q].applications
                 /\ y.members = request[q].members /\ y.policies = request[q].policies
    <2>1. PICK x \in Request : x = request[q]
      BY <1>3, RequestFacts
    <2>2. PICK y : y = [x EXCEPT !.revoked = @ \ {<<u, a>>}]
      OBVIOUS
    <2>3. /\ y \in Request /\ y.form = x.form /\ y.at = x.at /\ y.users = x.users
          /\ y.applications = x.applications /\ y.members = x.members /\ y.policies = x.policies
      BY <2>2 DEF Request
    <2>4. y = request'[q]
      BY <1>2, <1>3, <2>1, <2>2
    <2>5. QED
      BY <2>1, <2>3, <2>4
  <1>4. \A q \in Proc : ~Busy(q) => request'[q] = None
    BY <1>2
  <1>5. TypeOK'
    <2>1. \A q \in Proc : request'[q] \in Request \cup {None}
      BY <1>3, <1>4
    <2>2. request' \in [Proc -> Request \cup {None}]
      BY <1>2, <2>1
    <2>3. token' \subseteq Token
      BY <1>1 DEF AdminInv, TypeOK, Token
    <2>4. raced' \subseteq {"administrators", "paths", "status"}
      BY <1>1 DEF AdminInv, TypeOK
    <2>5. QED
      BY <1>1, <2>2, <2>3, <2>4 DEF AdminInv, TypeOK, directory
  <1>6. ASSUME NEW q \in Proc PROVE RequestOK(request[q])'
    <2>1. CASE Busy(q)
      <3>1. PICK y \in Request :
              /\ y = request'[q] /\ y.form = request[q].form /\ y.at = request[q].at
              /\ y.users = request[q].users /\ y.applications = request[q].applications
              /\ y.members = request[q].members /\ y.policies = request[q].policies
        BY <1>3, <2>1
      <3>2. PICK x \in Request : x = request[q]
        BY <2>1, RequestFacts
      <3>3. RequestOK(x) /\ x # None
        BY <2>1, <3>2 DEF AdminInv, Busy
      <3>4. x.at = "changed" /\ x.members \cup x.policies # {} => "paths" \in raced'
        BY <1>1, <2>1, <3>2 DEF Unsettled, Changing
      <3>5. raced \subseteq raced'
        BY <1>1
      <3>6. RequestOK(y)'
        BY <1>1, <3>1, <3>2, <3>3, <3>4, <3>5, SparedToken
      <3>7. QED
        BY <3>1, <3>6, SameRequest
    <2>2. CASE ~Busy(q)
      <3>1. PICK y : y = None
        OBVIOUS
      <3>2. RequestOK(y)'
        BY <3>1 DEF RequestOK
      <3>3. QED
        BY <1>4, <2>2, <3>1, <3>2, SameRequest
    <2>3. QED
      BY <2>1, <2>2
  <1>7. ASSUME NEW q \in Proc, NEW s \in Proc, q # s PROVE Apart(request'[q], request'[s])
    <2> SUFFICES ASSUME Busy(q), Busy(s) PROVE Apart(request'[q], request'[s])
      BY <1>4 DEF Apart
    <2>1. Apart(request[q], request[s])
      BY <1>7 DEF AdminInv
    <2>2. request'[q].form = request[q].form /\ request'[s].form = request[s].form
      BY <1>3
    <2>3. QED
      BY <2>1, <2>2 DEF Apart, Busy
  <1>8. \A q, s \in Proc : q # s => Apart(request[q], request[s])'
    BY <1>7 DEF Apart
  <1>9. AnAdministratorRemains'
    BY <1>1 DEF AdminInv, AnAdministratorRemains, Guarded, Administrator, directory
  <1>10. AccessNeedsAPath'
    BY <1>1 DEF AdminInv, AccessNeedsAPath, Allowed, directory
  <1>11. AccessNeedsActivity'
    BY <1>1 DEF AdminInv, AccessNeedsActivity, directory
  <1>12. QED
    BY <1>5, <1>6, <1>8, <1>9, <1>10, <1>11 DEF AdminInv

-----------------------------------------------------------------------------
(* The invariant                                                           *)

LEMMA AdminInit == Init => AdminInv
  <1> SUFFICES ASSUME Init PROVE AdminInv
    OBVIOUS
  <1>1. PICK seeded \in SUBSET Application :
          /\ user = [u \in User |-> IF u = SeedAdmin THEN "ACTIVE" ELSE "absent"]
          /\ group = {Admins} \cup {GroupOf[a] : a \in seeded}
          /\ member = {<<SeedAdmin, g>> : g \in group}
          /\ policy = {<<a, GroupOf[a]>> : a \in seeded}
          /\ application = [a \in Application |-> IF a \in seeded THEN "ACTIVE" ELSE "absent"]
          /\ uris = [a \in Application |-> IF a \in seeded THEN 1 ELSE 0]
          /\ token = {}
          /\ request = [p \in Proc |-> None]
          /\ raced = {}
    BY DEF Init
  <1>2. TypeOK
    <2>1. group \subseteq Group
      BY <1>1, AdminAssumption
    <2>2. user \in [User -> Status] /\ application \in [Application -> Status]
      BY <1>1 DEF Status
    <2>3. 0 \in 0 .. MaxUris /\ 1 \in 0 .. MaxUris
      BY AdminAssumption
    <2>4. uris \in [Application -> 0 .. MaxUris]
      BY <1>1, <2>3
    <2>5. \A a \in Application : uris[a] = 0 <=> application[a] = "absent"
      BY <1>1
    <2>6. member \subseteq Membership
      BY <1>1, <2>1, AdminAssumption DEF Membership
    <2>7. \A a \in seeded : <<a, GroupOf[a]>> \in Policy
      BY AdminAssumption DEF Policy
    <2>8. policy \subseteq Policy
      BY <1>1, <2>7
    <2>9. request \in [Proc -> Request \cup {None}]
      BY <1>1
    <2>10. \A m \in member : user[m[1]] # "absent" /\ m[2] \in group
      BY <1>1, AdminAssumption
    <2>11. \A w \in policy : w[2] \in group
      BY <1>1
    <2>12. QED
      BY <1>1, <2>1, <2>2, <2>4, <2>5, <2>6, <2>8, <2>9, <2>10, <2>11 DEF TypeOK
  <1>3. Administrator(SeedAdmin)
    BY <1>1, AdminAssumption DEF Administrator
  <1>4. AnAdministratorRemains /\ AccessNeedsAPath /\ AccessNeedsActivity
    BY <1>1, <1>3, AdminAssumption
    DEF AnAdministratorRemains, Guarded, AccessNeedsAPath, AccessNeedsActivity
  <1>5. \A p \in Proc : request[p] = None
    BY <1>1
  <1>6. QED
    BY <1>2, <1>4, <1>5 DEF AdminInv, RequestOK, Apart

LEMMA AdminStep == AdminInv /\ [Next]_vars => AdminInv'
  <1> SUFFICES ASSUME AdminInv, [Next]_vars PROVE AdminInv'
    OBVIOUS
  <1>1. CASE UserRoutes
    <2>1. JoinForm = User \X Group /\ NewUserForm = User /\ PasswordForm = User
      BY DEF JoinForm, NewUserForm, PasswordForm
    <2>2. ASSUME NEW m \in JoinForm, AddGroupMembership(m[1], m[2]) PROVE AdminInv'
      BY <2>1, <2>2, AddGroupMembershipKeeps
    <2>3. QED
      BY <1>1, <2>1, <2>2, CreateUserKeeps, UpdatePasswordKeeps, BeginUpdateStatusKeeps,
         UpdateStatusKeeps, BeginRemoveMembershipKeeps, RemoveMembershipKeeps DEF UserRoutes
  <1>2. CASE GroupRoutes
    BY <1>2, CreateGroupKeeps, BeginDeleteGroupKeeps, DeleteGroupKeeps
    DEF GroupRoutes, NewGroupForm
  <1>3. CASE ApplicationRoutes
    <2>1. AllowForm = Application \X Group /\ NewApplicationForm = Application
      BY DEF AllowForm, NewApplicationForm
    <2>2. ASSUME NEW w \in AllowForm, AddPolicy(w[1], w[2]) PROVE AdminInv'
      BY <2>1, <2>2, AddPolicyKeeps
    <2>3. QED
      BY <1>3, <2>1, <2>2, CreateApplicationKeeps, BeginUpdateApplicationKeeps,
         UpdateApplicationKeeps, RemovePolicyKeeps, AddRedirectUriKeeps, RemoveRedirectUriKeeps
      DEF ApplicationRoutes
  <1>4. CASE \E p \in Proc : Commit(p) \/ Abort(p)
    BY <1>4, CommitKeeps, AbortKeeps
  <1>5. CASE \E u \in User, a \in Application : Authorize(u, a)
    BY <1>5, AuthorizeKeeps
  <1>6. CASE UNCHANGED vars
    <2>1. UNCHANGED <<directory, token, raced>> /\ UNCHANGED request
      BY <1>6 DEF vars
    <2>2. \A q \in Proc : Busy(q) => Respects(request[q])
      BY <2>1 DEF Respects, Administrator, directory
    <2>3. TypeOK' /\ AnAdministratorRemains' /\ AccessNeedsAPath' /\ AccessNeedsActivity'
      BY <2>1 DEF AdminInv, TypeOK, AnAdministratorRemains, Guarded, Administrator,
                  AccessNeedsAPath, Allowed, AccessNeedsActivity, directory
    <2>4. QED
      BY <2>1, <2>2, <2>3, SteadyStep
  <1>7. QED
    BY <1>1, <1>2, <1>3, <1>4, <1>5, <1>6 DEF Next

THEOREM AdminInvariant == Spec => []AdminInv
  <1>1. QED
    BY AdminInit, AdminStep, PTL DEF Spec

\* Every variable has its type, rows refer to what exists, and an application that exists has
\* between one redirect URI and MaxUris of them however many requests add and remove URIs at
\* once: they count under the lock of the application.
THEOREM AdminTypes == Spec => []TypeOK
  <1>1. AdminInv => TypeOK
    BY DEF AdminInv
  <1>2. QED
    BY <1>1, AdminInvariant, PTL

\* Whatever administrators do to each other, one who is active remains, as long as no two
\* requests that each take an administrator away overlap.
THEOREM AdministratorRemains == Spec => []AnAdministratorRemains
  <1>1. AdminInv => AnAdministratorRemains
    BY DEF AdminInv
  <1>2. QED
    BY <1>1, AdminInvariant, PTL

\* A user who has lost the last path to an application has lost access to it as well, as long
\* as no removal of paths overlaps another, a path that is added to a group it has read, or a
\* sign-in between its revocation and its commit.
THEOREM PathsGiveAccess == Spec => []AccessNeedsAPath
  <1>1. AdminInv => AccessNeedsAPath
    BY DEF AdminInv
  <1>2. QED
    BY <1>1, AdminInvariant, PTL

\* A user who is deactivated has lost access, and so has everybody to an application that is,
\* as long as no status of an application changed between the reading and the update.
THEOREM ActivityGivesAccess == Spec => []AccessNeedsActivity
  <1>1. AdminInv => AccessNeedsActivity
    BY DEF AdminInv
  <1>2. QED
    BY <1>1, AdminInvariant, PTL

==============================================================================
