------------------------------ MODULE Accounts ------------------------------
(***************************************************************************)
(* Who has an account, who is a member of which team, with which role and  *)
(* permissions: users, invitations, teams, roles and members (crates/      *)
(* models/src/models/user.rs, invite.rs, team.rs, role.rs, team_member.rs) *)
(* and the handlers that change them (rest-api/src/teams.rs, users.rs,     *)
(* pages/src/lib.rs, and the commands of cli/src/team.rs and user.rs).     *)
(*                                                                         *)
(* A user stands for their email address too: addresses are unique and     *)
(* never change.  Names of users and teams are left out.  Requests that    *)
(* look rows up and later, in a transaction of their own, act on what they *)
(* found are two actions; requests holds what the first one found, so that *)
(* several may hold one and the same invitation.                           *)
(***************************************************************************)
EXTENDS Naturals, FiniteSets, Functions

CONSTANTS Teams, Users,
          RoleNames,
          Permissions, \* the permissions that requests ask for
          NoRole,
          Requests,    \* the requests that may be between their two steps
          Idle,        \* what a request that is not under way has looked up
          MaxRoles,    \* bound: roles ever created
          MaxInvites   \* bound: invitations ever created

VARIABLES teams,       \* the teams that exist
          accounts,    \* the users that exist
          roles,       \* roles, by id
          members,     \* team_members, by team and user
          invites,     \* invites, by id
          created,     \* how many roles and invitations there ever were
          requests,    \* what each request under way has looked up
          stranded     \* ghost: invitations stored while their addressee,
                       \* looked up before, was given an account

vars == <<teams, accounts, roles, members, invites, created, requests, stranded>>

AddsMembers == "member:add"
RemovesMembers == "member:remove"
EditsPermissions == "member:edit-permissions"
AssignsRoles == "member:assign-role"
EditsRoles == "role:edit"
TeamPermissions ==
    {AddsMembers, RemovesMembers, EditsPermissions, AssignsRoles, EditsRoles,
     "book:edit", "module:edit", "editing-process:edit",
     "editing-process:manage", "resources:manage"}

ASSUME PermissionsAssumption == Permissions \subseteq TeamPermissions
ASSUME NoRoleAssumption == NoRole \notin Nat
ASSUME BoundsAssumption == MaxRoles \in Nat /\ MaxInvites \in Nat

Init ==
    /\ teams = {} /\ accounts = {}
    /\ roles = << >> /\ members = << >> /\ invites = << >>
    /\ created = [roles |-> 0, invites |-> 0]
    /\ requests = [q \in Requests |-> Idle]
    /\ stranded = {}

-----------------------------------------------------------------------------
(***************************************************************************)
(* Lookups.                                                                *)
(***************************************************************************)
RolesOf(t) == {r \in DOMAIN roles : roles[r].team = t}
MembersOf(t) == {u \in accounts : <<t, u>> \in DOMAIN members}

\* What a member may do: their own permissions and those of their role.
PermissionsOf(m) ==
    members[m].permissions \cup
        UNION {roles[r].permissions : r \in {members[m].role} \ {NoRole}}

\* TeamScoped: what a request may do in a team.  An elevated session may do
\* everything, another what its user may do as a member.
Elevated == [elevated |-> TRUE, permissions |-> TeamPermissions]
Scopes(t) ==
    {Elevated} \cup
    {[elevated |-> FALSE, permissions |-> PermissionsOf(<<t, u>>)] : u \in MembersOf(t)}

\* The team and scope of a request that needs a permission.
Allowed(permission) ==
    {s \in [team : teams, scope : UNION {Scopes(t) : t \in teams}] :
        s.scope \in Scopes(s.team) /\ permission \in s.scope.permissions}

Without(f, keys) == Restrict(f, DOMAIN f \ keys)
With(f, key, value) == [k \in DOMAIN f \cup {key} |-> IF k = key THEN value ELSE f[k]]

-----------------------------------------------------------------------------
(***************************************************************************)
(* Teams and roles.                                                        *)
(***************************************************************************)
CreateTeam ==
    \E t \in Teams \ teams :
        /\ teams' = teams \cup {t}
        /\ UNCHANGED <<accounts, roles, members, invites, created, requests,
                       stranded>>

NameTaken(t, name, r) == \E other \in RolesOf(t) \ {r} : roles[other].name = name

UnchangedButRoles ==
    UNCHANGED <<teams, accounts, members, invites, requests, stranded>>

CreateRole ==
    \E s \in Allowed(EditsRoles), name \in RoleNames, may \in SUBSET Permissions :
        LET r == created.roles + 1
        IN  /\ r <= MaxRoles
            /\ ~NameTaken(s.team, name, r)
            /\ roles' = With(roles, r, [team |-> s.team, name |-> name,
                                        permissions |-> may])
            /\ created' = [created EXCEPT !.roles = r]
            /\ UnchangedButRoles

\* A name, permissions or both.
UpdateRole ==
    \E s \in Allowed(EditsRoles) : \E r \in RolesOf(s.team) :
    \E name \in RoleNames, may \in SUBSET Permissions :
        /\ ~NameTaken(s.team, name, r)
        /\ roles' = [roles EXCEPT ![r].name = name, ![r].permissions = may]
        /\ UNCHANGED created /\ UnchangedButRoles

\* Members and invitations refer to roles: one that is in use stays.  (So
\* does one that a slot of an editing process is limited to.)
DeleteRole ==
    \E s \in Allowed(EditsRoles) : \E r \in RolesOf(s.team) :
        /\ \A m \in DOMAIN members : members[m].role # r
        /\ \A i \in DOMAIN invites : invites[i].role # r
        /\ roles' = Without(roles, {r})
        /\ UNCHANGED created /\ UnchangedButRoles

-----------------------------------------------------------------------------
(***************************************************************************)
(* Making invitations.                                                     *)
(***************************************************************************)
\* A request looks something up, and ends.
Begin(found) ==
    \E q \in Requests :
        /\ requests[q] = Idle
        /\ requests' = [requests EXCEPT ![q] = found]

UnderWay == {q \in Requests : requests[q] # Idle}
End(q) == requests' = [requests EXCEPT ![q] = Idle]

\* What create and create_for_existing are given.  For a new address, create
\* looks for an account once more; user says what that lookup found.
Offer(t, u, role, may) ==
    [is |-> "invite", team |-> t, email |-> u, role |-> role,
     permissions |-> may, user |-> u \in accounts]

\* POST /users/invite, and the command that invites: the role may be of any
\* team, and only elevated sessions invite people who have no account.
CreateInvitation ==
    \E s \in Allowed(AddsMembers), u \in Users, role \in DOMAIN roles \cup {NoRole} :
    \E asked \in SUBSET Permissions :
        /\ s.scope.elevated \/ u \in accounts
        /\ Begin(Offer(s.team, u, role, asked \cap s.scope.permissions))
        /\ UNCHANGED <<teams, accounts, roles, members, invites, created,
                       stranded>>

\* POST /teams/:id/members: for people who have an account, with a role of
\* the team.
AddMember ==
    \E s \in Allowed(AddsMembers), u \in accounts :
    \E role \in RolesOf(s.team) \cup {NoRole}, asked \in SUBSET Permissions :
        /\ Begin(Offer(s.team, u, role, asked \cap s.scope.permissions))
        /\ UNCHANGED <<teams, accounts, roles, members, invites, created,
                       stranded>>

\* The row is inserted.  A role that was deleted in between fails its key.
StoreInvitation ==
    \E q \in UnderWay :
        LET r == requests[q]
            i == created.invites + 1
        IN  /\ r.is = "invite" /\ i <= MaxInvites
            /\ End(q)
            /\ IF r.role \in DOMAIN roles \cup {NoRole}
               THEN /\ invites' = With(invites, i,
                           [team |-> r.team, email |-> r.email, role |-> r.role,
                            permissions |-> r.permissions, user |-> r.user,
                            expired |-> FALSE])
                    /\ created' = [created EXCEPT !.invites = i]
                    /\ stranded' = stranded \cup
                           {x \in {i} : ~r.user /\ r.email \in accounts}
               ELSE UNCHANGED <<invites, created, stranded>>
            /\ UNCHANGED <<teams, accounts, roles, members>>

\* Seven days pass.
Expire ==
    \E i \in DOMAIN invites :
        /\ invites' = [invites EXCEPT ![i].expired = TRUE]
        /\ UNCHANGED <<teams, accounts, roles, members, created, requests,
                       stranded>>

-----------------------------------------------------------------------------
(***************************************************************************)
(* Accounts and using invitations.                                         *)
(***************************************************************************)
InvitesTo(u) == {i \in DOMAIN invites : invites[i].email = u}

\* Team::add_member.  A role of another team is refused.
RoleFits(t, role) == role = NoRole \/ roles[role].team = t
Join(t, u, role, may) ==
    members' = With(members, <<t, u>>, [permissions |-> may, role |-> role])

\* User::create, for an address that has no account: every invitation to it
\* goes, of whichever team.
CreateUser(u) ==
    /\ accounts' = accounts \cup {u}
    /\ invites' = Without(invites, InvitesTo(u))
    /\ stranded' = stranded \ InvitesTo(u)

\* The command that adds a user.
AddUser ==
    \E u \in Users \ accounts :
        /\ CreateUser(u)
        /\ UNCHANGED <<teams, roles, members, created, requests>>

\* Invite::from_code: an invitation that has not expired is loaded, to
\* register with or, in a session of the user it is for, to join the team.
LoadInvite ==
    \E i \in DOMAIN invites :
        /\ ~invites[i].expired
        /\ Begin([is |-> IF invites[i].user THEN "join" ELSE "register",
                  id |-> i, invite |-> invites[i]])
        /\ UNCHANGED <<teams, accounts, roles, members, invites, created,
                       stranded>>

\* Mutant of Usable: roles of any team will do.
UsableRole(r) == r.invite.role \in DOMAIN roles \cup {NoRole}

\* The role is looked up first (the request panics when it is gone) and must
\* be of the team.
Usable(r) ==
    /\ r.invite.role \in DOMAIN roles \cup {NoRole}
    /\ RoleFits(r.invite.team, r.invite.role)

\* Invite::fulfil_new: nothing is kept when the address has an account by
\* now or the role is not usable.
FulfilNew ==
    \E q \in UnderWay :
        LET r == requests[q]
            offer == r.invite
        IN  /\ r.is = "register"
            /\ End(q)
            /\ IF offer.email \notin accounts /\ Usable(r)
               THEN /\ CreateUser(offer.email)
                    /\ Join(offer.team, offer.email, offer.role, offer.permissions)
               ELSE UNCHANGED <<accounts, members, invites, stranded>>
            /\ UNCHANGED <<teams, roles, created>>

\* Mutant of FulfilExisting: the invitation stays.
FulfilExistingKept ==
    \E q \in UnderWay :
        LET r == requests[q]
            offer == r.invite
        IN  /\ r.is = "join"
            /\ End(q)
            /\ IF <<offer.team, offer.email>> \notin DOMAIN members /\ Usable(r)
               THEN Join(offer.team, offer.email, offer.role, offer.permissions)
               ELSE UNCHANGED members
            /\ UNCHANGED <<teams, accounts, roles, invites, created, stranded>>

\* Invite::fulfil_existing: nobody is a member twice.  Deleting an
\* invitation that is gone already is no error.
FulfilExisting ==
    \E q \in UnderWay :
        LET r == requests[q]
            offer == r.invite
        IN  /\ r.is = "join"
            /\ End(q)
            /\ IF <<offer.team, offer.email>> \notin DOMAIN members /\ Usable(r)
               THEN /\ Join(offer.team, offer.email, offer.role, offer.permissions)
                    /\ invites' = Without(invites, {r.id})
                    /\ stranded' = stranded \ {r.id}
               ELSE UNCHANGED <<members, invites, stranded>>
            /\ UNCHANGED <<teams, accounts, roles, created>>

\* The user declines.
Decline ==
    \E q \in UnderWay :
        LET r == requests[q]
        IN  /\ r.is = "join"
            /\ End(q)
            /\ invites' = Without(invites, {r.id})
            /\ stranded' = stranded \ {r.id}
            /\ UNCHANGED <<teams, accounts, roles, members, created>>

-----------------------------------------------------------------------------
(***************************************************************************)
(* Members.                                                                *)
(***************************************************************************)
\* The command that adds a member without asking them.
Enrol ==
    \E t \in teams, u \in accounts, may \in SUBSET Permissions :
    \E role \in RolesOf(t) \cup {NoRole} :
        /\ <<t, u>> \notin DOMAIN members
        /\ Join(t, u, role, may)
        /\ UNCHANGED <<teams, accounts, roles, invites, created, requests, stranded>>

\* What a request asks for a member: permissions, a role, or both.
Asked == [permissions : {{p} : p \in SUBSET Permissions} \cup {{}},
          role : {{r} : r \in DOMAIN roles \cup {NoRole}} \cup {{}}]

\* PUT /teams/:id/members/:member, up to its transaction.  The permissions
\* to write are worked out from those the member has been loaded with, the
\* role's included: what the request may not touch stays.
LoadMember ==
    \E t \in teams, asked \in Asked : \E u \in MembersOf(t), scope \in Scopes(t) :
        /\ asked.permissions # {} => EditsPermissions \in scope.permissions
        /\ asked.role # {} => AssignsRoles \in scope.permissions
        /\ Begin([is |-> "update", member |-> <<t, u>>, asked |-> asked,
                  permissions |->
                      {(PermissionsOf(<<t, u>>) \ scope.permissions) \cup p :
                           p \in asked.permissions}])
        /\ UNCHANGED <<teams, accounts, roles, members, invites, created,
                       stranded>>

\* The transaction of the update: the member must still be there, and the
\* role a role of the team.
UpdateMember ==
    \E q \in UnderWay :
        LET r == requests[q]
        IN  /\ r.is = "update"
            /\ End(q)
            /\ IF r.member \in DOMAIN members /\ r.asked.role \ {NoRole} \subseteq RolesOf(r.member[1])
               THEN LET old == members[r.member]
                        Set(to, was) == IF to = {} THEN was ELSE CHOOSE x \in to : TRUE
                    IN  members' = [members EXCEPT ![r.member] =
                            [permissions |-> Set(r.permissions, old.permissions),
                             role |-> Set(r.asked.role, old.role)]]
               ELSE UNCHANGED members
            /\ UNCHANGED <<teams, accounts, roles, invites, created, stranded>>

DeleteMember ==
    \E s \in Allowed(RemovesMembers) : \E u \in MembersOf(s.team) :
        /\ members' = Without(members, {<<s.team, u>>})
        /\ UNCHANGED <<teams, accounts, roles, invites, created, requests, stranded>>

Next ==
    \/ CreateTeam \/ CreateRole \/ UpdateRole \/ DeleteRole
    \/ CreateInvitation \/ AddMember \/ StoreInvitation \/ Expire
    \/ AddUser \/ LoadInvite \/ FulfilNew \/ FulfilExisting \/ Decline
    \/ Enrol \/ LoadMember \/ UpdateMember \/ DeleteMember

Spec == Init /\ [][Next]_vars

-----------------------------------------------------------------------------
(***************************************************************************)
(* Properties.                                                             *)
(***************************************************************************)
\* What the columns hold.
Row == [team : Teams, email : Users, role : Nat \cup {NoRole},
        permissions : SUBSET TeamPermissions, user : BOOLEAN, expired : BOOLEAN]
TypeOK ==
    /\ teams \subseteq Teams /\ accounts \subseteq Users
    /\ roles \in [DOMAIN roles -> [team : Teams, name : RoleNames,
                                   permissions : SUBSET TeamPermissions]]
    /\ DOMAIN roles \subseteq 1..created.roles
    /\ members \in [DOMAIN members -> [permissions : SUBSET TeamPermissions,
                                       role : Nat \cup {NoRole}]]
    /\ DOMAIN members \subseteq teams \X accounts
    /\ invites \in [DOMAIN invites -> Row]
    /\ DOMAIN invites \subseteq 1..created.invites
    /\ created \in [roles : Nat, invites : Nat]

\* A member's role is there and is a role of the member's team, and the role
\* of a pending invitation is there, although invitations may offer roles of
\* other teams, and roles are deleted, changed and looked up by other
\* requests meanwhile: permissions never come from another team's role.
RolesKept ==
    /\ \A m \in DOMAIN members :
        members[m].role # NoRole => members[m].role \in RolesOf(m[1])
    /\ \A i \in DOMAIN invites : invites[i].role \in DOMAIN roles \cup {NoRole}

\* People join a team on the terms of an invitation to them that a request
\* of theirs has loaded, or are enrolled by an administrator; who joins by
\* an invitation leaves none that asks them to register, nor the one used.
JoinsTakeUpAnOffer ==
    [][\A m \in DOMAIN members' \ DOMAIN members :
        \/ requests' = requests
        \/ \E q \in UnderWay :
            LET r == requests[q]
            IN  /\ requests'[q] = Idle
                /\ r.is \in {"register", "join"}
                /\ <<r.invite.team, r.invite.email>> = m
                /\ members'[m] = [permissions |-> r.invite.permissions,
                                  role |-> r.invite.role]
                /\ r.id \notin DOMAIN invites'
                /\ \A i \in DOMAIN invites' :
                    invites'[i].email = m[2] /\ ~invites'[i].user => i \in stranded]_vars

(***************************************************************************)
(* The inductive invariant.  What requests remember has its type too, and  *)
(* stays true where that is needed: teams and accounts are never deleted,  *)
(* ids of invitations are not given twice, and an invitation that asks     *)
(* somebody with an account to register is known to be stranded.           *)
(***************************************************************************)
Role == Nat \cup {NoRole}
Request ==
    [is : {"invite"}, team : Teams, email : Users, role : Role,
     permissions : SUBSET TeamPermissions, user : BOOLEAN]
    \cup [is : {"register", "join"}, id : Nat, invite : Row]
    \cup [is : {"update"}, member : Teams \X Users,
          asked : [permissions : SUBSET SUBSET TeamPermissions, role : SUBSET Role],
          permissions : SUBSET SUBSET TeamPermissions]

RequestSound(r) ==
    /\ r.is = "invite" =>
        /\ r.team \in teams
        /\ r.user => r.email \in accounts
    /\ r.is \in {"register", "join"} =>
        /\ r.id \in 1..created.invites
        /\ r.id \in DOMAIN invites => invites[r.id].email = r.invite.email
        /\ r.invite.team \in teams
        /\ r.is = "join" => r.invite.email \in accounts

RequestsSound ==
    /\ requests \in [Requests -> Request \cup {Idle}]
    /\ \A q \in UnderWay : RequestSound(requests[q])

InviteSound(i) ==
    /\ invites[i].team \in teams
    /\ invites[i].user => invites[i].email \in accounts
    /\ ~invites[i].user /\ invites[i].email \in accounts => i \in stranded

AccountsInvariant ==
    /\ TypeOK
    /\ RequestsSound
    /\ \A i \in DOMAIN invites : InviteSound(i)
    /\ RolesKept
=============================================================================
