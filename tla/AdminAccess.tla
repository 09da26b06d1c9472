----------------------------- MODULE AdminAccess -----------------------------
(***************************************************************************)
(* Who may do what, and how an administrator of the control panel changes  *)
(* it: users, groups, memberships, policies, redirect URIs and the status  *)
(* of users and applications.  Access is a path of a membership and an     *)
(* ALLOW policy; whoever loses the last path to an application is to lose  *)
(* the tokens and sessions that the path gave.                             *)
(*                                                                         *)
(* A request of a form is checked on what is read before its transaction.  *)
(* Under READ COMMITTED a transaction sees its own deletions, and those of *)
(* others only once they are committed.  Names, e-mail addresses and other *)
(* texts are left out, and so are the ids of rows that are created again.  *)
(***************************************************************************)
EXTENDS Integers, FiniteSets

CONSTANTS
    User, Group, Application,
    Proc,         \* requests under way at once
    SeedAdmin,    \* the user that the seed creates
    Admins,       \* CONTROL_PANEL_ADMIN_GROUP_NAME
    GroupOf,      \* the group that the seed gives to an application of its own
    MaxUris,      \* 20: the redirect URIs of an application
    MaxRaced,     \* bound: kinds of overlaps, as in raced, in a behaviour
    None

ASSUME AdminAssumption ==
    /\ SeedAdmin \in User /\ Admins \in Group
    /\ GroupOf \in [Application -> Group \ {Admins}]
    /\ MaxUris \in Nat \ {0} /\ MaxRaced \in Nat

Status == {"absent", "ACTIVE", "INACTIVE"}
Membership == User \X Group
Policy == Application \X Group
Token == User \X Application

\* The forms of the control panel, with what an administrator picks in them.
StatusForm == [op : {"status"}, user : User, to : Status \ {"absent"}]
LeaveForm == [op : {"leave"}, user : User, group : Group]
DissolveForm == [op : {"dissolve"}, group : Group]
PolicyForm == [op : {"unpolicy"}, application : Application, group : Group]
ApplicationForm == [op : {"application"}, application : Application,
                    to : Status \ {"absent"}]
AddUriForm == [op : {"addUri"}, application : Application]
RemoveUriForm == [op : {"removeUri"}, application : Application]
Form == StatusForm \cup LeaveForm \cup DissolveForm \cup PolicyForm \cup ApplicationForm
        \cup AddUriForm \cup RemoveUriForm

\* The forms that take effect in one step.
NewUserForm == User
NewGroupForm == Group
NewApplicationForm == Application
PasswordForm == User
JoinForm == User \X Group
AllowForm == Application \X Group

\* A request: its form, what was read before the transaction, and what the transaction
\* has deleted and revoked without having committed.
Request == [form : Form, at : {"read", "changed"}, was : Status \cup {None},
            users : SUBSET User, applications : SUBSET Application,
            members : SUBSET Membership, policies : SUBSET Policy, revoked : SUBSET Token]
Asked(f) == [form |-> f, at |-> "read", was |-> None, users |-> {}, applications |-> {},
             members |-> {}, policies |-> {}, revoked |-> {}]

VARIABLES
    user,         \* the status of each user
    group,        \* the groups that exist
    member,       \* user_groups
    policy,       \* application_group_policies with effect ALLOW
    application,  \* the status of each application
    uris,         \* the number of redirect URIs of each application
    token,        \* ACTIVE access tokens, each with the ACTIVE session it belongs to
    request,      \* the requests under way, or None
    raced         \* history: overlaps of the kinds that the properties make an exception of

directory == <<user, group, member, policy, application, uris>>
vars == <<directory, token, request, raced>>

\* The database after the seed has run; its applications are among those here, the others
\* are created in the control panel.
Init == \E seeded \in SUBSET Application :
    /\ user = [u \in User |-> IF u = SeedAdmin THEN "ACTIVE" ELSE "absent"]
    /\ group = {Admins} \cup {GroupOf[a] : a \in seeded}
    /\ member = {<<SeedAdmin, g>> : g \in group}
    /\ policy = {<<a, GroupOf[a]>> : a \in seeded}
    /\ application = [a \in Application |-> IF a \in seeded THEN "ACTIVE" ELSE "absent"]
    /\ uris = [a \in Application |-> IF a \in seeded THEN 1 ELSE 0]
    /\ token = {}
    /\ request = [p \in Proc |-> None]
    /\ raced = {}

-----------------------------------------------------------------------------
(* Helpers                                                                 *)

\* canAccess() and the guard of the admin routes, which every request passes first.
Administrator(u) == user[u] = "ACTIVE" /\ <<u, Admins>> \in member
Guarded == \E u \in User : Administrator(u)
\* Mutant: the administrator that is to be removed counts as another one.
AnyAdministrator(u) == \E v \in User : Administrator(v)

\* assertAnotherActiveAdministratorExists()
AnotherAdministrator(u) == \E v \in User \ {u} : Administrator(v)

Path(u, a, members, policies) ==
    \E g \in Group : <<u, g>> \in members /\ <<a, g>> \in policies
Allowed(u, a) == Path(u, a, member, policy)

ApplicationsOf(g) == {a \in Application : <<a, g>> \in policy}
MembersOf(g) == {u \in User : <<u, g>> \in member}
TokensOf(us) == {t \in token : t[1] \in us}

Busy(p) == request[p] # None
Op(p) == IF Busy(p) THEN request[p].form.op ELSE "none"
Reading(p, op) == Op(p) = op /\ request[p].at = "read"
Changing(p) == Busy(p) /\ request[p].at = "changed"
Set(p, r) == request' = [request EXCEPT ![p] = r]
End(p) == Set(p, None)

\* Rows that uncommitted transactions have locked.
MemberHeld(p, m) == \E q \in Proc \ {p} : Busy(q) /\ m \in request[q].members
PolicyHeld(p, w) == \E q \in Proc \ {p} : Busy(q) /\ w \in request[q].policies
GroupHeld(g) == \E q \in Proc : Op(q) = "dissolve" /\ Changing(q) /\ request[q].form.group = g
\* SELECT ... FOR UPDATE of the application.
Locking == {"unpolicy", "addUri", "removeUri"}
ApplicationHeld(a) ==
    \E q \in Proc : Op(q) \in Locking /\ Changing(q) /\ request[q].form.application = a

\* Paths that a transaction has deleted and others still see.
Unsettled(q) == Changing(q) /\ request[q].members \cup request[q].policies # {}

Note(kinds) ==
    /\ raced' = raced \cup kinds
    /\ Cardinality(raced') <= MaxRaced

\* Requests that would take an administrator away, once their check has passed.
RemovesAdmin(f) ==
    \/ f.op = "leave" /\ f.group = Admins
    \/ f.op = "status" /\ f.to = "INACTIVE"
AdminRace(p) ==
    IF RemovesAdmin(request[p].form)
       /\ \E q \in Proc \ {p} : Busy(q) /\ RemovesAdmin(request[q].form)
      THEN {"administrators"} ELSE {}
\* Two removals of paths that are both uncommitted: neither sees the other.
PathRace(p) ==
    IF Unsettled(p) /\ \E q \in Proc \ {p} : Unsettled(q) THEN {"paths"} ELSE {}
\* A request that has read the group g, and has yet to change anything.
StaleGroup(g, ops) ==
    IF \E q \in Proc, op \in ops : Reading(q, op) /\ request[q].form.group = g
      THEN {"paths"} ELSE {}

-----------------------------------------------------------------------------
(* Requests that only add, decided by constraints of the database whatever  *)
(* was read before                                                          *)

CreateUser(u) ==
    /\ user[u] = "absent" /\ Guarded
    /\ user' = [user EXCEPT ![u] = "ACTIVE"]
    /\ UNCHANGED <<group, member, policy, application, uris, token, request, raced>>

CreateGroup(g) ==
    /\ g \notin group /\ Guarded
    /\ group' = group \cup {g}
    /\ UNCHANGED <<user, member, policy, application, uris, token, request, raced>>

\* The redirect URIs are created with their application.
CreateApplication(a) ==
    /\ application[a] = "absent" /\ Guarded
    /\ application' = [application EXCEPT ![a] = "ACTIVE"]
    /\ \E n \in 1 .. MaxUris : uris' = [uris EXCEPT ![a] = n]
    /\ UNCHANGED <<user, group, member, policy, token, request, raced>>

AddGroupMembership(u, g) ==
    /\ user[u] # "absent" /\ g \in group /\ <<u, g>> \notin member
    /\ Guarded /\ ~GroupHeld(g)
    /\ member' = member \cup {<<u, g>>}
    /\ Note(StaleGroup(g, {"dissolve"}))
    /\ UNCHANGED <<user, group, policy, application, uris, token, request>>

\* The application is locked FOR UPDATE, and the group FOR KEY SHARE.
AddPolicy(a, g) ==
    /\ application[a] # "absent" /\ g \in group /\ <<a, g>> \notin policy
    /\ Guarded /\ ~ApplicationHeld(a) /\ ~GroupHeld(g)
    /\ policy' = policy \cup {<<a, g>>}
    /\ Note(StaleGroup(g, {"dissolve", "leave"}))
    /\ UNCHANGED <<user, group, member, application, uris, token, request>>

-----------------------------------------------------------------------------
(* Status                                                                  *)

\* revokeSecurityState() for every session of the user
UpdatePassword(u) ==
    /\ Guarded /\ user[u] # "absent"
    /\ token' = token \ TokensOf({u})
    /\ UNCHANGED <<directory, request, raced>>

BeginUpdateStatus(p) ==
    /\ ~Busy(p) /\ Guarded
    /\ \E f \in StatusForm :
         /\ user[f.user] \notin {"absent", f.to}
         /\ f.to = "INACTIVE" /\ Administrator(f.user) => AnotherAdministrator(f.user)
         /\ Set(p, Asked(f))
    /\ UNCHANGED <<directory, token, raced>>

\* Mutant: a deactivation revokes nothing.
UpdateStatusOnly(p) ==
    /\ Reading(p, "status")
    /\ LET f == request[p].form
       IN  user' = [user EXCEPT ![f.user] = f.to]
    /\ Note(AdminRace(p))
    /\ End(p)
    /\ UNCHANGED <<group, member, policy, application, uris, token>>

UpdateStatus(p) ==
    /\ Reading(p, "status")
    /\ LET f == request[p].form
       IN  /\ user' = [user EXCEPT ![f.user] = f.to]
           /\ token' = IF f.to = "INACTIVE" THEN token \ TokensOf({f.user}) ELSE token
    /\ Note(AdminRace(p))
    /\ End(p)
    /\ UNCHANGED <<group, member, policy, application, uris>>

BeginUpdateApplication(p) ==
    /\ ~Busy(p) /\ Guarded
    /\ \E f \in ApplicationForm :
         /\ application[f.application] # "absent"
         /\ Set(p, [Asked(f) EXCEPT !.was = application[f.application]])
    /\ UNCHANGED <<directory, token, raced>>

\* Tokens are revoked if the application was ACTIVE when it was read, not when it is
\* updated.
UpdateApplication(p) ==
    /\ Reading(p, "application")
    /\ LET f == request[p].form
           a == f.application
       IN  /\ ~ApplicationHeld(a)
           /\ application' = [application EXCEPT ![a] = f.to]
           /\ token' = IF request[p].was = "ACTIVE" /\ f.to = "INACTIVE"
                         THEN {t \in token : t[2] # a} ELSE token
           /\ Note(IF request[p].was # application[a] THEN {"status"} ELSE {})
    /\ End(p)
    /\ UNCHANGED <<user, group, member, policy, uris>>

-----------------------------------------------------------------------------
(* Requests that take paths away                                           *)

BeginRemoveMembership(p) ==
    /\ ~Busy(p) /\ Guarded
    /\ \E f \in LeaveForm :
         /\ <<f.user, f.group>> \in member
         /\ f.group = Admins => AnotherAdministrator(f.user)
         /\ Set(p, [Asked(f) EXCEPT !.users = {f.user},
                                    !.applications = ApplicationsOf(f.group)])
    /\ UNCHANGED <<directory, token, raced>>

BeginDeleteGroup(p) ==
    /\ ~Busy(p) /\ Guarded
    /\ \E f \in DissolveForm :
         /\ f.group \in group \ {Admins}
         /\ Set(p, [Asked(f) EXCEPT !.users = MembersOf(f.group),
                                    !.applications = ApplicationsOf(f.group)])
    /\ UNCHANGED <<directory, token, raced>>

\* Mutant: the remaining policies are read before the rows are deleted.
LostAccessBefore(users, applications, members, policies) ==
    {u \in users : \E a \in applications : ~Path(u, a, member, policy)}

\* revokeUsersWhoLostAccess(), in a transaction that has deleted these rows: users without
\* another path to one of the applications lose all that they have.
LostAccess(users, applications, members, policies) ==
    {u \in users : \E a \in applications :
        ~Path(u, a, member \ members, policy \ policies)}
Change(p, r, members, policies) ==
    /\ \A m \in members : ~MemberHeld(p, m)
    /\ \A w \in policies : ~PolicyHeld(p, w)
    /\ Set(p, [r EXCEPT !.at = "changed", !.members = members, !.policies = policies,
                        !.revoked = TokensOf(LostAccess(r.users, r.applications,
                                                        members, policies))])
    /\ UNCHANGED <<directory, token, raced>>

RemoveMembership(p) ==
    /\ Reading(p, "leave")
    /\ LET row == <<request[p].form.user, request[p].form.group>>
       IN  row \in member /\ Change(p, request[p], {row}, {})

DeleteGroup(p) ==
    /\ Reading(p, "dissolve")
    /\ LET g == request[p].form.group
       IN  /\ g \in group /\ ~GroupHeld(g)
           /\ Change(p, request[p], {<<u, g>> : u \in MembersOf(g)},
                                    {<<a, g>> : a \in ApplicationsOf(g)})

\* removePolicy() reads everything in its transaction, with the application locked.
RemovePolicy(p) ==
    /\ ~Busy(p) /\ Guarded
    /\ \E f \in PolicyForm :
         /\ ~ApplicationHeld(f.application)
         /\ <<f.application, f.group>> \in policy
         /\ Change(p, [Asked(f) EXCEPT !.users = MembersOf(f.group),
                                       !.applications = {f.application}],
                   {}, {<<f.application, f.group>>})

\* Mutant: the redirect URIs are counted before the application is locked.
AddRedirectUriUnlocked(p) ==
    /\ ~Busy(p) /\ Guarded
    /\ \E f \in AddUriForm :
         /\ uris[f.application] \in 1 .. MaxUris - 1
         /\ Set(p, [Asked(f) EXCEPT !.at = "changed"])
    /\ UNCHANGED <<directory, token, raced>>

\* The redirect URIs are counted under the lock.  CentralAccess has what becomes of the codes
\* that were issued for a URI that is removed.
AddRedirectUri(p) ==
    /\ ~Busy(p) /\ Guarded
    /\ \E f \in AddUriForm :
         /\ ~ApplicationHeld(f.application)
         /\ uris[f.application] \in 1 .. MaxUris - 1
         /\ Set(p, [Asked(f) EXCEPT !.at = "changed"])
    /\ UNCHANGED <<directory, token, raced>>

RemoveRedirectUri(p) ==
    /\ ~Busy(p) /\ Guarded
    /\ \E f \in RemoveUriForm :
         /\ ~ApplicationHeld(f.application)
         /\ uris[f.application] > 1
         /\ Set(p, [Asked(f) EXCEPT !.at = "changed"])
    /\ UNCHANGED <<directory, token, raced>>

UriChange(p, a) ==
    CASE Op(p) = "addUri" /\ request[p].form.application = a -> 1
      [] Op(p) = "removeUri" /\ request[p].form.application = a -> -1
      [] OTHER -> 0

Commit(p) ==
    /\ Changing(p)
    /\ member' = member \ request[p].members
    /\ policy' = policy \ request[p].policies
    /\ token' = token \ request[p].revoked
    /\ group' = IF Op(p) = "dissolve" THEN group \ {request[p].form.group} ELSE group
    /\ uris' = [a \in Application |-> uris[a] + UriChange(p, a)]
    /\ Note(AdminRace(p) \cup PathRace(p))
    /\ End(p)
    /\ UNCHANGED <<user, application>>

\* A row that is gone (P2025), a constraint, a lost connection: nothing has happened.
Abort(p) ==
    /\ Busy(p)
    /\ End(p)
    /\ UNCHANGED <<directory, token, raced>>

-----------------------------------------------------------------------------

\* A user signs in, is authorised for an application, and its code is exchanged.  A token
\* that is issued between the revocation and the commit of a request is not revoked by it:
\* that is an overlap too.
Authorize(u, a) ==
    /\ user[u] = "ACTIVE" /\ application[a] = "ACTIVE" /\ ~ApplicationHeld(a)
    /\ <<u, a>> \notin token \/ \E p \in Proc : Busy(p) /\ <<u, a>> \in request[p].revoked
    /\ Allowed(u, a)
    /\ token' = token \cup {<<u, a>>}
    /\ request' = [p \in Proc |-> IF Busy(p) THEN [request[p] EXCEPT !.revoked = @ \ {<<u, a>>}]
                                  ELSE None]
    /\ Note(IF \E p \in Proc : Unsettled(p) THEN {"paths"} ELSE {})
    /\ UNCHANGED directory

\* The routes of the admin API, with the transactions of the requests that they start.
UserRoutes ==
    \/ \E u \in NewUserForm : CreateUser(u)
    \/ \E u \in PasswordForm : UpdatePassword(u)
    \/ \E m \in JoinForm : AddGroupMembership(m[1], m[2])
    \/ \E p \in Proc : BeginUpdateStatus(p) \/ UpdateStatus(p)
    \/ \E p \in Proc : BeginRemoveMembership(p) \/ RemoveMembership(p)
GroupRoutes ==
    \/ \E g \in NewGroupForm : CreateGroup(g)
    \/ \E p \in Proc : BeginDeleteGroup(p) \/ DeleteGroup(p)
ApplicationRoutes ==
    \/ \E a \in NewApplicationForm : CreateApplication(a)
    \/ \E w \in AllowForm : AddPolicy(w[1], w[2])
    \/ \E p \in Proc : BeginUpdateApplication(p) \/ UpdateApplication(p)
    \/ \E p \in Proc : RemovePolicy(p) \/ AddRedirectUri(p) \/ RemoveRedirectUri(p)

Next == \/ UserRoutes \/ GroupRoutes \/ ApplicationRoutes
        \/ \E p \in Proc : Commit(p) \/ Abort(p)
        \/ \E u \in User, a \in Application : Authorize(u, a)

Spec == Init /\ [][Next]_vars

-----------------------------------------------------------------------------
(* Properties                                                              *)

\* Every variable has its type; rows refer to users, groups and applications that exist;
\* redirect URIs are within their limits, however many requests add and remove them at once.
TypeOK ==
    /\ user \in [User -> Status] /\ application \in [Application -> Status]
    /\ group \subseteq Group /\ uris \in [Application -> 0 .. MaxUris]
    /\ \A a \in Application : uris[a] = 0 <=> application[a] = "absent"
    /\ member \subseteq Membership /\ policy \subseteq Policy /\ token \subseteq Token
    /\ request \in [Proc -> Request \cup {None}]
    /\ raced \subseteq {"administrators", "paths", "status"}
    /\ \A m \in member : user[m[1]] # "absent" /\ m[2] \in group
    /\ \A w \in policy : w[2] \in group

\* The control panel keeps an active administrator, unless two requests that each take one
\* away overlapped: the check for another administrator runs before the transaction.
AnAdministratorRemains ==
    "administrators" \notin raced => Guarded

\* Nobody keeps access to an application without a path to it, unless two removals of paths
\* were uncommitted at once, a removal was based on a group that has gained a member or a
\* policy since, or the user signed in between the revocation and its commit.
AccessNeedsAPath ==
    "paths" \notin raced => \A t \in token : Allowed(t[1], t[2])

\* Nobody who is inactive has access, and nobody has access to an inactive application,
\* unless its status had changed since the request that made it inactive read it.
AccessNeedsActivity ==
    \A t \in token :
        /\ user[t[1]] = "ACTIVE"
        /\ "status" \notin raced => application[t[2]] = "ACTIVE"

=============================================================================
