--------------------------- MODULE AccountsProofs ---------------------------
(***************************************************************************)
(* Proofs about Accounts, for any teams, users, permissions and bounds:    *)
(* its inductive invariant, that roles stay where they are needed, and     *)
(* that who joins a team has been offered to.                              *)
(***************************************************************************)
EXTENDS Accounts, TLAPS

-----------------------------------------------------------------------------
(***************************************************************************)
(* Tables with a row more, a row changed or rows less.                     *)
(***************************************************************************)
LEMMA WithTyped ==
    ASSUME NEW S, NEW f, f \in [DOMAIN f -> S], NEW key, NEW value \in S
    PROVE  With(f, key, value) \in [DOMAIN With(f, key, value) -> S]
BY DEF With

LEMMA WithoutTyped ==
    ASSUME NEW S, NEW f, f \in [DOMAIN f -> S], NEW keys
    PROVE  Without(f, keys) \in [DOMAIN Without(f, keys) -> S]
BY DEF Without, Restrict

-----------------------------------------------------------------------------
(***************************************************************************)
(* What a request may do in a team.                                        *)
(***************************************************************************)
LEMMA PermissionsTyped ==
    ASSUME AccountsInvariant, NEW m \in DOMAIN members
    PROVE  PermissionsOf(m) \subseteq TeamPermissions
<1>1. members[m].permissions \subseteq TeamPermissions
  BY DEF AccountsInvariant, TypeOK
<1>2. ASSUME NEW r \in {members[m].role} \ {NoRole}
      PROVE  roles[r].permissions \subseteq TeamPermissions
  <2>1. r \in DOMAIN roles
    BY DEF AccountsInvariant, RolesKept, RolesOf
  <2> QED BY <2>1 DEF AccountsInvariant, TypeOK
<1> QED BY <1>1, <1>2 DEF PermissionsOf

LEMMA ScopesTyped ==
    ASSUME AccountsInvariant, NEW t \in teams, NEW scope \in Scopes(t)
    PROVE  scope.permissions \subseteq TeamPermissions
<1>1. CASE scope = Elevated
  BY <1>1 DEF Elevated
<1>2. ASSUME NEW u \in MembersOf(t),
             scope = [elevated |-> FALSE, permissions |-> PermissionsOf(<<t, u>>)]
      PROVE  scope.permissions \subseteq TeamPermissions
  BY <1>2, PermissionsTyped DEF MembersOf
<1> QED BY <1>1, <1>2 DEF Scopes

LEMMA AllowedTyped ==
    ASSUME AccountsInvariant, NEW permission, NEW s \in Allowed(permission)
    PROVE  /\ s.team \in teams /\ s.team \in Teams
           /\ s.scope.permissions \subseteq TeamPermissions
<1>1. s.team \in teams /\ s.scope \in Scopes(s.team)
  BY DEF Allowed
<1> QED BY <1>1, ScopesTyped DEF AccountsInvariant, TypeOK

-----------------------------------------------------------------------------
(***************************************************************************)
(* What steps that change one table keep.                                  *)
(***************************************************************************)
\* What a request under way has looked up.
LEMMA HeldSound ==
    ASSUME AccountsInvariant, NEW q \in UnderWay
    PROVE  requests[q] \in Request /\ RequestSound(requests[q])
BY DEF AccountsInvariant, RequestsSound, UnderWay

\* No request begins, and those that go on hold what they held.
NoneBegins ==
    /\ requests' \in [Requests -> Request \cup {Idle}]
    /\ \A q \in UnderWay' : q \in UnderWay /\ requests'[q] = requests[q]

LEMMA EndBeginsNone ==
    ASSUME AccountsInvariant, NEW q \in UnderWay, End(q) PROVE NoneBegins
BY DEF AccountsInvariant, RequestsSound, End, UnderWay, NoneBegins

LEMMA SameBeginsNone ==
    ASSUME AccountsInvariant, requests' = requests PROVE NoneBegins
BY DEF AccountsInvariant, RequestsSound, UnderWay, NoneBegins

\* A request has looked something up.
LEMMA BeginPreserves ==
    ASSUME AccountsInvariant, NEW r \in Request, RequestSound(r), Begin(r),
           UNCHANGED <<teams, accounts, roles, members, invites, created, stranded>>
    PROVE  AccountsInvariant'
<1>1. PICK q \in Requests : requests' = [requests EXCEPT ![q] = r]
  BY DEF Begin
<1>2. requests' \in [Requests -> Request \cup {Idle}]
  BY <1>1 DEF AccountsInvariant, RequestsSound
<1>3. ASSUME NEW p \in UnderWay' PROVE RequestSound(requests'[p])
  <2>1. p = q \/ (p \in UnderWay /\ requests'[p] = requests[p])
    BY <1>1, <1>2, <1>3 DEF AccountsInvariant, RequestsSound, UnderWay
  <2>2. p = q => requests'[p] = r
    BY <1>1 DEF AccountsInvariant, RequestsSound
  <2> QED BY <2>1, <2>2, HeldSound
<1>4. RequestsSound'
  BY <1>2, <1>3 DEF RequestsSound, RequestSound
<1> QED BY <1>4 DEF AccountsInvariant, TypeOK, InviteSound, RolesKept, RolesOf, Row

\* What the invariant says of members, and what a new member must be for it.
MembersSound(table, people) ==
    /\ table \in [DOMAIN table -> [permissions : SUBSET TeamPermissions, role : Role]]
    /\ DOMAIN table \subseteq teams \X people
    /\ \A m \in DOMAIN table : table[m].role # NoRole => table[m].role \in RolesOf(m[1])

LEMMA MembersAreSound ==
    ASSUME AccountsInvariant PROVE MembersSound(members, accounts)
BY DEF AccountsInvariant, TypeOK, RolesKept, MembersSound, Role

LEMMA JoinIsSound ==
    ASSUME AccountsInvariant, NEW people, accounts \subseteq people,
           NEW t \in teams, NEW u \in people, NEW role \in Role,
           role # NoRole => role \in RolesOf(t), NEW may \in SUBSET TeamPermissions,
           Join(t, u, role, may)
    PROVE  MembersSound(members', people)
<1> DEFINE MemberRow == [permissions : SUBSET TeamPermissions, role : Role]
           row == [permissions |-> may, role |-> role]
<1>1. /\ members \in [DOMAIN members -> MemberRow]
      /\ DOMAIN members \subseteq teams \X people
      /\ \A m \in DOMAIN members : members[m].role # NoRole => members[m].role \in RolesOf(m[1])
  BY MembersAreSound DEF MembersSound
<1>2. row \in MemberRow
  OBVIOUS
<1>3. members' = With(members, <<t, u>>, row)
  BY DEF Join
<1>4. row.role = role
  OBVIOUS
<1> HIDE DEF MemberRow, row
<1>5. With(members, <<t, u>>, row) \in [DOMAIN With(members, <<t, u>>, row) -> MemberRow]
  BY <1>1, <1>2, WithTyped
<1>6. /\ DOMAIN members' = DOMAIN members \cup {<<t, u>>}
      /\ members'[<<t, u>>] = row
      /\ \A m \in DOMAIN members : m # <<t, u>> => members'[m] = members[m]
  BY <1>3 DEF With
<1>7. \A m \in DOMAIN members' : members'[m].role # NoRole => members'[m].role \in RolesOf(m[1])
  BY <1>1, <1>4, <1>6
<1> QED BY <1>1, <1>3, <1>5, <1>6, <1>7 DEF MembersSound, MemberRow

\* Members change, and requests end.
LEMMA MembersPreserve ==
    ASSUME AccountsInvariant, MembersSound(members', accounts),
           NoneBegins,
           UNCHANGED <<teams, accounts, roles, invites, created, stranded>>
    PROVE  AccountsInvariant'
<1>1. TypeOK'
  BY DEF AccountsInvariant, TypeOK, MembersSound, Role, Row
<1>2. RolesKept'
  BY DEF AccountsInvariant, RolesKept, RolesOf, MembersSound
<1>3. RequestsSound'
  BY DEF AccountsInvariant, RequestsSound, RequestSound, NoneBegins
<1>4. \A i \in DOMAIN invites' : InviteSound(i)'
  BY DEF AccountsInvariant, InviteSound
<1> QED BY <1>1, <1>2, <1>3, <1>4 DEF AccountsInvariant

\* Roles change; those in use stay in their team.
LEMMA RolesPreserve ==
    ASSUME AccountsInvariant, UnchangedButRoles,
           roles' \in [DOMAIN roles' -> [team : Teams, name : RoleNames,
                                         permissions : SUBSET TeamPermissions]],
           created' \in [roles : Nat, invites : Nat],
           created'.invites = created.invites,
           DOMAIN roles' \subseteq 1..created'.roles,
           \A m \in DOMAIN members : members[m].role # NoRole =>
               /\ members[m].role \in DOMAIN roles'
               /\ roles'[members[m].role].team = roles[members[m].role].team,
           \A i \in DOMAIN invites : invites[i].role \in DOMAIN roles' \cup {NoRole}
    PROVE  AccountsInvariant'
<1>1. TypeOK'
  BY DEF AccountsInvariant, TypeOK, UnchangedButRoles, Row
<1>2. RolesKept'
  BY DEF AccountsInvariant, RolesKept, RolesOf, UnchangedButRoles
<1>3. RequestsSound'
  BY DEF AccountsInvariant, RequestsSound, RequestSound, UnderWay, UnchangedButRoles
<1>4. \A i \in DOMAIN invites' : InviteSound(i)'
  BY DEF AccountsInvariant, InviteSound, UnchangedButRoles
<1> QED BY <1>1, <1>2, <1>3, <1>4 DEF AccountsInvariant

\* Invitations go, perhaps since their addressee has an account now, and
\* members may come.
LEMMA FewerInvitesPreserve ==
    ASSUME AccountsInvariant, NEW gone, NEW u \in Users,
           invites' = Without(invites, gone),
           stranded' = stranded \ gone,
           accounts' = accounts \/ (accounts' = accounts \cup {u} /\ gone = InvitesTo(u)),
           MembersSound(members', accounts'),
           NoneBegins,
           UNCHANGED <<teams, roles, created>>
    PROVE  AccountsInvariant'
<1>1. /\ DOMAIN invites' = DOMAIN invites \ gone
      /\ \A i \in DOMAIN invites' : invites'[i] = invites[i]
      /\ invites' \in [DOMAIN invites' -> Row]
  <2>1. invites \in [DOMAIN invites -> Row]
    BY DEF AccountsInvariant, TypeOK
  <2>2. Without(invites, gone) \in [DOMAIN Without(invites, gone) -> Row]
    BY <2>1, WithoutTyped
  <2>3. /\ DOMAIN invites' = DOMAIN invites \ gone
        /\ \A i \in DOMAIN invites' : invites'[i] = invites[i]
    BY DEF Without, Restrict
  <2> QED BY <2>2, <2>3
<1>2. accounts \subseteq accounts' /\ accounts' \subseteq Users
  BY DEF AccountsInvariant, TypeOK
<1>3. TypeOK'
  BY <1>1, <1>2 DEF AccountsInvariant, TypeOK, MembersSound, Role
<1>4. RolesKept'
  BY <1>1 DEF AccountsInvariant, RolesKept, RolesOf, MembersSound
<1>5. RequestsSound'
  BY <1>1, <1>2 DEF AccountsInvariant, RequestsSound, RequestSound, NoneBegins
<1>6. \A i \in DOMAIN invites' : InviteSound(i)'
  BY <1>1, <1>2 DEF AccountsInvariant, InviteSound, InvitesTo
<1> QED BY <1>3, <1>4, <1>5, <1>6 DEF AccountsInvariant

-----------------------------------------------------------------------------
(***************************************************************************)
(* Every action keeps the invariant.                                       *)
(***************************************************************************)
LEMMA CreateTeamPreserves ==
    ASSUME AccountsInvariant, CreateTeam PROVE AccountsInvariant'
<1>1. PICK t \in Teams : teams' = teams \cup {t}
  BY DEF CreateTeam
<1>2. UNCHANGED <<accounts, roles, members, invites, created, requests, stranded>>
  BY DEF CreateTeam
<1>3. TypeOK'
  <2>1. teams \X accounts \subseteq teams' \X accounts'
    BY <1>1, <1>2
  <2> QED BY <1>1, <1>2, <2>1 DEF AccountsInvariant, TypeOK, Row
<1>4. RolesKept'
  BY <1>2 DEF AccountsInvariant, RolesKept, RolesOf
<1>5. RequestsSound'
  BY <1>1, <1>2 DEF AccountsInvariant, RequestsSound, RequestSound, UnderWay
<1>6. \A i \in DOMAIN invites' : InviteSound(i)'
  BY <1>1, <1>2 DEF AccountsInvariant, InviteSound
<1> QED BY <1>3, <1>4, <1>5, <1>6 DEF AccountsInvariant

LEMMA CreateRolePreserves ==
    ASSUME AccountsInvariant, CreateRole PROVE AccountsInvariant'
<1> DEFINE r == created.roles + 1
           RoleRow == [team : Teams, name : RoleNames, permissions : SUBSET TeamPermissions]
<1>1. PICK s \in Allowed(EditsRoles), name \in RoleNames, may \in SUBSET Permissions :
          /\ roles' = With(roles, r, [team |-> s.team, name |-> name, permissions |-> may])
          /\ created' = [created EXCEPT !.roles = r]
          /\ UnchangedButRoles
  BY DEF CreateRole
<1> DEFINE row == [team |-> s.team, name |-> name, permissions |-> may]
<1>2. row \in RoleRow
  BY AllowedTyped, PermissionsAssumption
<1>3. roles' \in [DOMAIN roles' -> RoleRow]
  <2> HIDE DEF RoleRow, row
  <2>1. roles \in [DOMAIN roles -> RoleRow]
    BY DEF AccountsInvariant, TypeOK, RoleRow
  <2>2. With(roles, r, row) \in [DOMAIN With(roles, r, row) -> RoleRow]
    BY <1>2, <2>1, WithTyped
  <2> QED BY <1>1, <2>2 DEF row
<1>4. /\ created' \in [roles : Nat, invites : Nat]
      /\ created'.roles = r /\ created'.invites = created.invites
      /\ r \notin DOMAIN roles /\ DOMAIN roles \cup {r} \subseteq 1..r
  BY <1>1 DEF AccountsInvariant, TypeOK
<1>5. /\ DOMAIN roles' = DOMAIN roles \cup {r}
      /\ \A k \in DOMAIN roles : roles'[k] = roles[k]
  BY <1>1, <1>4 DEF With
<1> HIDE DEF r
<1>6. /\ DOMAIN roles' \subseteq 1..created'.roles
      /\ \A m \in DOMAIN members : members[m].role # NoRole =>
            /\ members[m].role \in DOMAIN roles'
            /\ roles'[members[m].role].team = roles[members[m].role].team
      /\ \A i \in DOMAIN invites : invites[i].role \in DOMAIN roles' \cup {NoRole}
  BY <1>4, <1>5 DEF AccountsInvariant, RolesKept, RolesOf
<1> QED BY <1>1, <1>3, <1>4, <1>6, RolesPreserve

LEMMA UpdateRolePreserves ==
    ASSUME AccountsInvariant, UpdateRole PROVE AccountsInvariant'
<1> DEFINE RoleRow == [team : Teams, name : RoleNames, permissions : SUBSET TeamPermissions]
<1>1. PICK r \in DOMAIN roles, name \in RoleNames, may \in SUBSET Permissions :
          /\ roles' = [roles EXCEPT ![r].name = name, ![r].permissions = may]
          /\ UNCHANGED created /\ UnchangedButRoles
  BY DEF UpdateRole, RolesOf
<1>2. roles \in [DOMAIN roles -> RoleRow]
  BY DEF AccountsInvariant, TypeOK
<1>3. /\ roles' \in [DOMAIN roles' -> RoleRow] /\ DOMAIN roles' = DOMAIN roles
      /\ \A k \in DOMAIN roles : roles'[k].team = roles[k].team
  BY <1>1, <1>2, PermissionsAssumption
<1>4. /\ \A m \in DOMAIN members : members[m].role # NoRole => members[m].role \in DOMAIN roles
      /\ \A i \in DOMAIN invites : invites[i].role \in DOMAIN roles' \cup {NoRole}
      /\ created' \in [roles : Nat, invites : Nat] /\ DOMAIN roles \subseteq 1..created'.roles
  BY <1>1, <1>3 DEF AccountsInvariant, RolesKept, RolesOf, TypeOK
<1> HIDE DEF RoleRow
<1>5. \A m \in DOMAIN members : members[m].role # NoRole =>
          /\ members[m].role \in DOMAIN roles'
          /\ roles'[members[m].role].team = roles[members[m].role].team
  BY <1>3, <1>4
<1> QED BY <1>1, <1>3, <1>4, <1>5, RolesPreserve DEF RoleRow

LEMMA DeleteRolePreserves ==
    ASSUME AccountsInvariant, DeleteRole PROVE AccountsInvariant'
<1> DEFINE RoleRow == [team : Teams, name : RoleNames, permissions : SUBSET TeamPermissions]
<1>1. PICK r \in DOMAIN roles :
          /\ \A m \in DOMAIN members : members[m].role # r
          /\ \A i \in DOMAIN invites : invites[i].role # r
          /\ roles' = Without(roles, {r})
          /\ UNCHANGED created /\ UnchangedButRoles
  BY DEF DeleteRole, RolesOf
<1>2. roles' \in [DOMAIN roles' -> RoleRow]
  <2> HIDE DEF RoleRow
  <2>1. roles \in [DOMAIN roles -> RoleRow]
    BY DEF AccountsInvariant, TypeOK, RoleRow
  <2>2. Without(roles, {r}) \in [DOMAIN Without(roles, {r}) -> RoleRow]
    BY <2>1, WithoutTyped
  <2> QED BY <1>1, <2>2
<1>3. /\ DOMAIN roles' = DOMAIN roles \ {r}
      /\ \A k \in DOMAIN roles' : roles'[k] = roles[k]
  BY <1>1 DEF Without, Restrict
<1>4. /\ created' \in [roles : Nat, invites : Nat] /\ created'.invites = created.invites
      /\ DOMAIN roles' \subseteq 1..created'.roles
  BY <1>1, <1>3 DEF AccountsInvariant, TypeOK
<1>5. /\ \A m \in DOMAIN members : members[m].role # NoRole =>
            /\ members[m].role \in DOMAIN roles'
            /\ roles'[members[m].role].team = roles[members[m].role].team
      /\ \A i \in DOMAIN invites : invites[i].role \in DOMAIN roles' \cup {NoRole}
  BY <1>1, <1>3 DEF AccountsInvariant, RolesKept, RolesOf
<1> QED BY <1>1, <1>2, <1>4, <1>5, RolesPreserve

\* A request has looked up what an invitation is to say.
LEMMA OfferPreserves ==
    ASSUME AccountsInvariant, NEW permission, NEW s \in Allowed(permission), NEW u \in Users,
           NEW role \in DOMAIN roles \cup {NoRole}, NEW asked,
           Begin(Offer(s.team, u, role, asked \cap s.scope.permissions)),
           UNCHANGED <<teams, accounts, roles, members, invites, created, stranded>>
    PROVE  AccountsInvariant'
<1> DEFINE known == u \in accounts
           may == asked \cap s.scope.permissions
           r == [is |-> "invite", team |-> s.team, email |-> u, role |-> role,
                 permissions |-> may, user |-> known]
<1>1. s.team \in teams /\ s.team \in Teams /\ may \in SUBSET TeamPermissions
  BY AllowedTyped
<1>2. role \in Role
  BY DEF AccountsInvariant, TypeOK, Role
<1>3. known \in BOOLEAN /\ (known => u \in accounts)
  OBVIOUS
<1>4. Begin(r)
  BY DEF Offer
<1> HIDE DEF known, may
<1>5. r \in Request
  BY <1>1, <1>2, <1>3 DEF Request
<1>6. r.is = "invite" /\ r.team = s.team /\ r.user = known /\ r.email = u
  OBVIOUS
<1> HIDE DEF r
<1>7. RequestSound(r)
  BY <1>1, <1>3, <1>6 DEF RequestSound
<1> QED BY <1>4, <1>5, <1>7, BeginPreserves

LEMMA CreateInvitationPreserves ==
    ASSUME AccountsInvariant, CreateInvitation PROVE AccountsInvariant'
<1>1. PICK s \in Allowed(AddsMembers), u \in Users, role \in DOMAIN roles \cup {NoRole},
          asked \in SUBSET Permissions :
          /\ Begin(Offer(s.team, u, role, asked \cap s.scope.permissions))
          /\ UNCHANGED <<teams, accounts, roles, members, invites, created, stranded>>
  BY DEF CreateInvitation
<1> QED BY <1>1, OfferPreserves

LEMMA AddMemberPreserves ==
    ASSUME AccountsInvariant, AddMember PROVE AccountsInvariant'
<1>1. PICK s \in Allowed(AddsMembers), u \in accounts, role \in DOMAIN roles \cup {NoRole},
          asked \in SUBSET Permissions :
          /\ Begin(Offer(s.team, u, role, asked \cap s.scope.permissions))
          /\ UNCHANGED <<teams, accounts, roles, members, invites, created, stranded>>
  BY DEF AddMember, RolesOf
<1>2. u \in Users
  BY DEF AccountsInvariant, TypeOK
<1> QED BY <1>1, <1>2, OfferPreserves

LEMMA LoadInvitePreserves ==
    ASSUME AccountsInvariant, LoadInvite PROVE AccountsInvariant'
<1>1. PICK i \in DOMAIN invites :
          /\ Begin([is |-> IF invites[i].user THEN "join" ELSE "register",
                    id |-> i, invite |-> invites[i]])
          /\ UNCHANGED <<teams, accounts, roles, members, invites, created, stranded>>
  BY DEF LoadInvite
<1> DEFINE r == [is |-> IF invites[i].user THEN "join" ELSE "register",
                 id |-> i, invite |-> invites[i]]
<1>2. invites[i] \in Row /\ i \in Nat /\ i \in 1..created.invites /\ InviteSound(i)
  BY DEF AccountsInvariant, TypeOK
<1>3. r \in Request
  BY <1>2 DEF Request
<1>4. RequestSound(r)
  BY <1>2 DEF RequestSound, InviteSound
<1> HIDE DEF r
<1> QED BY <1>1, <1>3, <1>4, BeginPreserves DEF r

LEMMA LoadMemberPreserves ==
    ASSUME AccountsInvariant, LoadMember PROVE AccountsInvariant'
<1>1. PICK t \in teams, asked \in Asked : \E u \in MembersOf(t), scope \in Scopes(t) :
          /\ Begin([is |-> "update", member |-> <<t, u>>, asked |-> asked,
                    permissions |->
                        {(PermissionsOf(<<t, u>>) \ scope.permissions) \cup p :
                             p \in asked.permissions}])
          /\ UNCHANGED <<teams, accounts, roles, members, invites, created, stranded>>
  BY DEF LoadMember
<1>2. PICK u \in MembersOf(t), scope \in Scopes(t) :
          /\ Begin([is |-> "update", member |-> <<t, u>>, asked |-> asked,
                    permissions |->
                        {(PermissionsOf(<<t, u>>) \ scope.permissions) \cup p :
                             p \in asked.permissions}])
          /\ UNCHANGED <<teams, accounts, roles, members, invites, created, stranded>>
  BY <1>1
<1> DEFINE may == {(PermissionsOf(<<t, u>>) \ scope.permissions) \cup p : p \in asked.permissions}
           r == [is |-> "update", member |-> <<t, u>>, asked |-> asked, permissions |-> may]
<1>3. /\ asked.permissions \subseteq SUBSET Permissions
      /\ asked.role \subseteq DOMAIN roles \cup {NoRole}
      /\ asked = [permissions |-> asked.permissions, role |-> asked.role]
  BY DEF Asked
<1>4. asked \in [permissions : SUBSET SUBSET TeamPermissions, role : SUBSET Role]
  BY <1>3, PermissionsAssumption DEF AccountsInvariant, TypeOK, Role
<1>5. may \in SUBSET SUBSET TeamPermissions
  BY <1>3, PermissionsTyped, PermissionsAssumption DEF MembersOf
<1>6. <<t, u>> \in Teams \X Users
  BY DEF MembersOf, AccountsInvariant, TypeOK
<1> HIDE DEF may
<1>7. r \in Request
  BY <1>4, <1>5, <1>6 DEF Request
<1>8. RequestSound(r)
  BY DEF RequestSound
<1> QED BY <1>2, <1>7, <1>8, BeginPreserves DEF r, may

\* Invitations come or change, those there already keep who and what they
\* are for.
LEMMA InvitesPreserve ==
    ASSUME AccountsInvariant,
           invites' \in [DOMAIN invites' -> Row],
           created' \in [roles : Nat, invites : Nat],
           created'.roles = created.roles, created.invites <= created'.invites,
           DOMAIN invites' \subseteq 1..created'.invites,
           \A i \in DOMAIN invites' : invites'[i].role \in DOMAIN roles \cup {NoRole},
           \A i \in DOMAIN invites' :
               i \in 1..created.invites =>
                   i \in DOMAIN invites /\ invites'[i].email = invites[i].email,
           \A i \in DOMAIN invites' : InviteSound(i)',
           NoneBegins,
           UNCHANGED <<teams, accounts, roles, members>>
    PROVE  AccountsInvariant'
<1>1. TypeOK'
  BY DEF AccountsInvariant, TypeOK
<1>2. RolesKept'
  BY DEF AccountsInvariant, RolesKept, RolesOf
<1>3. created.invites \in Nat /\ created'.invites \in Nat
  BY DEF AccountsInvariant, TypeOK
<1>4. RequestsSound'
  BY <1>3 DEF AccountsInvariant, RequestsSound, RequestSound, NoneBegins
<1> QED BY <1>1, <1>2, <1>4 DEF AccountsInvariant

LEMMA StoreInvitationPreserves ==
    ASSUME AccountsInvariant, StoreInvitation PROVE AccountsInvariant'
<1> DEFINE i == created.invites + 1
<1>1. PICK q \in UnderWay, r \in {requests[p] : p \in UnderWay} :
          /\ r = requests[q]
          /\ r.is = "invite"
          /\ End(q)
          /\ IF r.role \in DOMAIN roles \cup {NoRole}
             THEN /\ invites' = With(invites, i,
                         [team |-> r.team, email |-> r.email, role |-> r.role,
                          permissions |-> r.permissions, user |-> r.user,
                          expired |-> FALSE])
                  /\ created' = [created EXCEPT !.invites = i]
                  /\ stranded' = stranded \cup
                         {x \in {i} : ~r.user /\ r.email \in accounts}
             ELSE UNCHANGED <<invites, created, stranded>>
          /\ UNCHANGED <<teams, accounts, roles, members>>
  BY DEF StoreInvitation
<1>r. r \in Request /\ RequestSound(r) /\ NoneBegins
  BY <1>1, HeldSound, EndBeginsNone
<1>2. CASE r.role \notin DOMAIN roles \cup {NoRole}
  BY <1>1, <1>2, <1>r, MembersAreSound, MembersPreserve
<1>3. CASE r.role \in DOMAIN roles \cup {NoRole}
  <2> DEFINE row == [team |-> r.team, email |-> r.email, role |-> r.role,
                     permissions |-> r.permissions, user |-> r.user, expired |-> FALSE]
  <2>2. row \in Row
    BY <1>1, <1>r DEF Request, Row, Role
  <2>3. /\ created \in [roles : Nat, invites : Nat]
        /\ invites \in [DOMAIN invites -> Row] /\ DOMAIN invites \subseteq 1..created.invites
    BY DEF AccountsInvariant, TypeOK
  <2>4. /\ created' \in [roles : Nat, invites : Nat]
        /\ created'.roles = created.roles /\ created'.invites = i
        /\ created.invites <= i /\ DOMAIN invites \cup {i} \subseteq 1..i
        /\ i \notin 1..created.invites /\ i \notin DOMAIN invites
    BY <1>1, <1>3, <2>3
  <2>5. /\ row.team = r.team /\ row.email = r.email /\ row.role = r.role /\ row.user = r.user
        /\ invites' = With(invites, i, row)
    BY <1>1, <1>3
  <2> HIDE DEF row, i
  <2>6. invites' \in [DOMAIN invites' -> Row]
    <3>1. With(invites, i, row) \in [DOMAIN With(invites, i, row) -> Row]
      BY <2>2, <2>3, WithTyped
    <3> QED BY <2>5, <3>1
  <2>7. /\ DOMAIN invites' = DOMAIN invites \cup {i}
        /\ invites'[i] = row
        /\ \A k \in DOMAIN invites : invites'[k] = invites[k]
    BY <2>4, <2>5 DEF With
  <2>8. \A k \in DOMAIN invites' : invites'[k].role \in DOMAIN roles \cup {NoRole}
    BY <1>3, <2>5, <2>7 DEF AccountsInvariant, RolesKept
  <2>9. ASSUME NEW k \in DOMAIN invites' PROVE InviteSound(k)'
    <3>1. CASE k = i
      <4>1. r.team \in teams /\ (r.user => r.email \in accounts)
        BY <1>1, <1>r DEF RequestSound
      <4>2. ~r.user /\ r.email \in accounts => i \in stranded'
        BY <1>1, <1>3
      <4> QED BY <1>1, <2>5, <2>7, <3>1, <4>1, <4>2 DEF InviteSound
    <3>2. CASE k \in DOMAIN invites
      <4>1. InviteSound(k) /\ invites'[k] = invites[k]
        BY <2>7, <3>2 DEF AccountsInvariant
      <4>2. stranded \subseteq stranded'
        BY <1>1, <1>3
      <4> QED BY <1>1, <4>1, <4>2 DEF InviteSound
    <3> QED BY <2>7, <3>1, <3>2
  <2>10. \A k \in DOMAIN invites' :
            k \in 1..created.invites =>
                k \in DOMAIN invites /\ invites'[k].email = invites[k].email
    BY <2>4, <2>7
  <2> QED BY <1>1, <2>4, <2>6, <2>7, <2>8, <2>9, <2>10, <1>r, InvitesPreserve
<1> QED BY <1>2, <1>3

LEMMA ExpirePreserves ==
    ASSUME AccountsInvariant, Expire PROVE AccountsInvariant'
<1>1. PICK i \in DOMAIN invites :
          /\ invites' = [invites EXCEPT ![i].expired = TRUE]
          /\ UNCHANGED <<teams, accounts, roles, members, created, requests, stranded>>
  BY DEF Expire
<1>2. invites \in [DOMAIN invites -> Row]
  BY DEF AccountsInvariant, TypeOK
<1>3. /\ DOMAIN invites' = DOMAIN invites /\ invites' \in [DOMAIN invites' -> Row]
      /\ \A k \in DOMAIN invites :
            /\ invites'[k].team = invites[k].team /\ invites'[k].email = invites[k].email
            /\ invites'[k].role = invites[k].role /\ invites'[k].user = invites[k].user
  BY <1>1, <1>2, ZenonT(60) DEF Row
<1>4. \A k \in DOMAIN invites' : InviteSound(k)'
  BY <1>1, <1>3 DEF AccountsInvariant, InviteSound
<1>5. \A k \in DOMAIN invites' : invites'[k].role \in DOMAIN roles \cup {NoRole}
  BY <1>3 DEF AccountsInvariant, RolesKept
<1>6. /\ created' = created /\ created \in [roles : Nat, invites : Nat]
      /\ created.invites <= created.invites /\ DOMAIN invites \subseteq 1..created.invites
  BY <1>1 DEF AccountsInvariant, TypeOK
<1>n. NoneBegins
  BY <1>1, SameBeginsNone
<1> QED BY <1>1, <1>3, <1>4, <1>5, <1>6, <1>n, InvitesPreserve

LEMMA AddUserPreserves ==
    ASSUME AccountsInvariant, AddUser PROVE AccountsInvariant'
<1>1. PICK u \in Users \ accounts :
          CreateUser(u) /\ UNCHANGED <<teams, roles, members, created, requests>>
  BY DEF AddUser
<1>2. MembersSound(members', accounts')
  <2>1. teams \X accounts \subseteq teams \X accounts'
    BY <1>1 DEF CreateUser
  <2> QED BY <1>1, <2>1, MembersAreSound DEF MembersSound
<1>n. NoneBegins
  BY <1>1, SameBeginsNone
<1> QED BY <1>1, <1>2, <1>n, FewerInvitesPreserve DEF CreateUser

\* An invitation that has been loaded, and can be used.
LEMMA UsableJoins ==
    ASSUME AccountsInvariant, NEW r \in Request, RequestSound(r), r.is \in {"register", "join"},
           NEW people, accounts \subseteq people, r.invite.email \in people,
           Usable(r),
           Join(r.invite.team, r.invite.email, r.invite.role, r.invite.permissions)
    PROVE  MembersSound(members', people)
<1>1. r.invite \in Row
  BY DEF Request
<1>2. /\ r.invite.team \in teams /\ r.invite.role \in Role
      /\ r.invite.permissions \in SUBSET TeamPermissions
  BY <1>1 DEF RequestSound, Row, Role
<1>3. r.invite.role # NoRole => r.invite.role \in RolesOf(r.invite.team)
  BY DEF Usable, RoleFits, RolesOf
<1> QED BY <1>2, <1>3, JoinIsSound

LEMMA FulfilNewPreserves ==
    ASSUME AccountsInvariant, FulfilNew PROVE AccountsInvariant'
<1>1. PICK q \in UnderWay, r \in {requests[p] : p \in UnderWay} :
          /\ r = requests[q]
          /\ r.is = "register"
          /\ End(q)
          /\ IF r.invite.email \notin accounts /\ Usable(r)
             THEN /\ CreateUser(r.invite.email)
                  /\ Join(r.invite.team, r.invite.email, r.invite.role, r.invite.permissions)
             ELSE UNCHANGED <<accounts, members, invites, stranded>>
          /\ UNCHANGED <<teams, roles, created>>
  BY DEF FulfilNew
<1>r. r \in Request /\ RequestSound(r) /\ NoneBegins
  BY <1>1, HeldSound, EndBeginsNone
<1>2. CASE r.invite.email \notin accounts /\ Usable(r)
  <2>1. r.invite.email \in Users
    BY <1>1, <1>r DEF Request, Row
  <2>2. accounts' = accounts \cup {r.invite.email}
    BY <1>1, <1>2 DEF CreateUser
  <2>3. MembersSound(members', accounts')
    BY <1>1, <1>2, <2>2, <1>r, UsableJoins
  <2> QED BY <1>1, <1>2, <2>1, <2>2, <2>3, <1>r, FewerInvitesPreserve DEF CreateUser
<1>3. CASE ~(r.invite.email \notin accounts /\ Usable(r))
  BY <1>1, <1>3, <1>r, MembersAreSound, MembersPreserve
<1> QED BY <1>2, <1>3

LEMMA FulfilExistingPreserves ==
    ASSUME AccountsInvariant, FulfilExisting PROVE AccountsInvariant'
<1>1. PICK q \in UnderWay, r \in {requests[p] : p \in UnderWay} :
          /\ r = requests[q]
          /\ r.is = "join"
          /\ End(q)
          /\ IF <<r.invite.team, r.invite.email>> \notin DOMAIN members /\ Usable(r)
             THEN /\ Join(r.invite.team, r.invite.email, r.invite.role, r.invite.permissions)
                  /\ invites' = Without(invites, {r.id})
                  /\ stranded' = stranded \ {r.id}
             ELSE UNCHANGED <<members, invites, stranded>>
          /\ UNCHANGED <<teams, accounts, roles, created>>
  BY DEF FulfilExisting
<1>r. r \in Request /\ RequestSound(r) /\ NoneBegins
  BY <1>1, HeldSound, EndBeginsNone
<1>2. CASE <<r.invite.team, r.invite.email>> \notin DOMAIN members /\ Usable(r)
  <2>1. r.invite.email \in Users /\ r.invite.email \in accounts
    BY <1>1, <1>r DEF Request, Row, RequestSound
  <2>2. MembersSound(members', accounts)
    BY <1>1, <1>2, <2>1, <1>r, UsableJoins
  <2> QED BY <1>1, <1>2, <2>1, <2>2, <1>r, FewerInvitesPreserve
<1>3. CASE ~(<<r.invite.team, r.invite.email>> \notin DOMAIN members /\ Usable(r))
  BY <1>1, <1>3, <1>r, MembersAreSound, MembersPreserve
<1> QED BY <1>2, <1>3

LEMMA DeclinePreserves ==
    ASSUME AccountsInvariant, Decline PROVE AccountsInvariant'
<1>1. PICK q \in UnderWay, r \in {requests[p] : p \in UnderWay} :
          /\ r = requests[q]
          /\ r.is = "join"
          /\ End(q)
          /\ invites' = Without(invites, {r.id})
          /\ stranded' = stranded \ {r.id}
          /\ UNCHANGED <<teams, accounts, roles, members, created>>
  BY DEF Decline
<1>r. r \in Request /\ RequestSound(r) /\ NoneBegins
  BY <1>1, HeldSound, EndBeginsNone
<1>2. r.invite.email \in Users
  BY <1>1, <1>r DEF Request, Row
<1>3. MembersSound(members', accounts')
  BY <1>1, MembersAreSound
<1> QED BY <1>1, <1>2, <1>3, <1>r, FewerInvitesPreserve

LEMMA EnrolPreserves ==
    ASSUME AccountsInvariant, Enrol PROVE AccountsInvariant'
<1>1. PICK t \in teams, u \in accounts, may \in SUBSET Permissions, role \in Role :
          /\ role # NoRole => role \in RolesOf(t)
          /\ Join(t, u, role, may)
          /\ UNCHANGED <<teams, accounts, roles, invites, created, requests, stranded>>
  BY DEF Enrol, RolesOf, Role, AccountsInvariant, TypeOK
<1>2. may \in SUBSET TeamPermissions
  BY PermissionsAssumption
<1>3. MembersSound(members', accounts)
  BY <1>1, <1>2, JoinIsSound
<1>n. NoneBegins
  BY <1>1, SameBeginsNone
<1> QED BY <1>1, <1>3, <1>n, MembersPreserve

LEMMA UpdateMemberPreserves ==
    ASSUME AccountsInvariant, UpdateMember PROVE AccountsInvariant'
<1> DEFINE Set(to, was) == IF to = {} THEN was ELSE CHOOSE x \in to : TRUE
           MemberRow == [permissions : SUBSET TeamPermissions, role : Role]
<1>1. PICK q \in UnderWay, r \in {requests[p] : p \in UnderWay} :
          /\ r = requests[q]
          /\ r.is = "update"
          /\ End(q)
          /\ IF r.member \in DOMAIN members /\ r.asked.role \ {NoRole} \subseteq RolesOf(r.member[1])
             THEN members' = [members EXCEPT ![r.member] =
                      [permissions |-> Set(r.permissions, members[r.member].permissions),
                       role |-> Set(r.asked.role, members[r.member].role)]]
             ELSE UNCHANGED members
          /\ UNCHANGED <<teams, accounts, roles, invites, created, stranded>>
  BY DEF UpdateMember
<1>r. r \in Request /\ RequestSound(r) /\ NoneBegins
  BY <1>1, HeldSound, EndBeginsNone
<1>2. CASE r.member \in DOMAIN members /\ r.asked.role \ {NoRole} \subseteq RolesOf(r.member[1])
  <2>1. /\ members \in [DOMAIN members -> MemberRow]
        /\ DOMAIN members \subseteq teams \X accounts
        /\ \A m \in DOMAIN members : members[m].role # NoRole => members[m].role \in RolesOf(m[1])
    BY MembersAreSound DEF MembersSound
  <2>2. r.permissions \subseteq SUBSET TeamPermissions /\ r.asked.role \subseteq Role
    BY <1>1, <1>r DEF Request
  <2> DEFINE may == Set(r.permissions, members[r.member].permissions)
             role == Set(r.asked.role, members[r.member].role)
  <2>3. may \in SUBSET TeamPermissions
    BY <1>2, <2>1, <2>2
  <2>4. role \in Role /\ (role # NoRole => role \in RolesOf(r.member[1]))
    <3>1. CASE r.asked.role = {}
      BY <1>2, <2>1, <3>1
    <3>2. CASE r.asked.role # {}
      <4>1. role \in r.asked.role
        BY <3>2
      <4> QED BY <1>2, <2>2, <4>1
    <3> QED BY <3>1, <3>2
  <2>5. members' = [members EXCEPT ![r.member] = [permissions |-> may, role |-> role]]
    BY <1>1, <1>2
  <2> HIDE DEF may, role
  <2>6. members' \in [DOMAIN members' -> MemberRow] /\ DOMAIN members' = DOMAIN members
    BY <1>2, <2>1, <2>3, <2>4, <2>5
  <2>7. \A m \in DOMAIN members' :
            members'[m].role # NoRole => members'[m].role \in RolesOf(m[1])
    BY <1>2, <2>1, <2>4, <2>5
  <2>8. MembersSound(members', accounts)
    BY <2>1, <2>6, <2>7 DEF MembersSound
  <2> QED BY <1>1, <2>8, <1>r, MembersPreserve
<1>3. CASE ~(r.member \in DOMAIN members /\ r.asked.role \ {NoRole} \subseteq RolesOf(r.member[1]))
  BY <1>1, <1>3, <1>r, MembersAreSound, MembersPreserve
<1> QED BY <1>2, <1>3

LEMMA DeleteMemberPreserves ==
    ASSUME AccountsInvariant, DeleteMember PROVE AccountsInvariant'
<1>1. PICK gone \in SUBSET DOMAIN members :
          /\ members' = Without(members, gone)
          /\ UNCHANGED <<teams, accounts, roles, invites, created, requests, stranded>>
  BY DEF DeleteMember, MembersOf
<1>2. MembersSound(members', accounts)
  BY <1>1, MembersAreSound DEF MembersSound, Without, Restrict
<1>n. NoneBegins
  BY <1>1, SameBeginsNone
<1> QED BY <1>1, <1>2, <1>n, MembersPreserve

-----------------------------------------------------------------------------
(***************************************************************************)
(* The theorems.                                                           *)
(***************************************************************************)
LEMMA InvariantAtFirst == Init => AccountsInvariant
<1> SUFFICES ASSUME Init PROVE AccountsInvariant
  OBVIOUS
<1>1. DOMAIN roles = {} /\ DOMAIN members = {} /\ DOMAIN invites = {}
  BY DEF Init
<1>2. /\ roles \in [DOMAIN roles -> [team : Teams, name : RoleNames,
                                    permissions : SUBSET TeamPermissions]]
      /\ members \in [DOMAIN members -> [permissions : SUBSET TeamPermissions,
                                        role : Nat \cup {NoRole}]]
      /\ invites \in [DOMAIN invites -> Row]
  BY <1>1 DEF Init
<1> QED BY <1>1, <1>2 DEF Init, AccountsInvariant, TypeOK, RolesKept, RequestsSound, UnderWay

LEMMA InvariantStays == AccountsInvariant /\ [Next]_vars => AccountsInvariant'
<1> SUFFICES ASSUME AccountsInvariant, [Next]_vars PROVE AccountsInvariant'
  OBVIOUS
<1>1. CASE UNCHANGED vars
  BY <1>1 DEF vars, AccountsInvariant, TypeOK, RequestsSound, UnderWay, RequestSound, InviteSound, RolesKept, RolesOf
<1>2. CASE Next
  BY <1>2, CreateTeamPreserves, CreateRolePreserves, UpdateRolePreserves, DeleteRolePreserves,
     CreateInvitationPreserves, AddMemberPreserves, StoreInvitationPreserves, ExpirePreserves,
     AddUserPreserves, LoadInvitePreserves, FulfilNewPreserves, FulfilExistingPreserves,
     DeclinePreserves, EnrolPreserves, LoadMemberPreserves, UpdateMemberPreserves,
     DeleteMemberPreserves DEF Next
<1> QED BY <1>1, <1>2

\* The inductive invariant: what the tables and the requests under way hold
\* fits together, whatever the requests and in whatever order they end.
THEOREM AccountsStaySound == Spec => []AccountsInvariant
BY InvariantAtFirst, InvariantStays, PTL DEF Spec

\* Members of a team have roles of that team, and the role an invitation
\* offers is there, with any number of requests that look up roles, members
\* and invitations while others delete and change them.
THEOREM RolesStay == Spec => []RolesKept
<1>1. AccountsInvariant => RolesKept
  BY DEF AccountsInvariant
<1> QED BY <1>1, AccountsStaySound, PTL

-----------------------------------------------------------------------------
(***************************************************************************)
(* Who joins has been offered to.                                          *)
(***************************************************************************)
\* What a step owes for a member it adds.
TakesUpAnOffer(m) ==
    \E q \in UnderWay :
        LET r == requests[q]
        IN  /\ requests'[q] = Idle
            /\ r.is \in {"register", "join"}
            /\ <<r.invite.team, r.invite.email>> = m
            /\ members'[m] = [permissions |-> r.invite.permissions, role |-> r.invite.role]
            /\ r.id \notin DOMAIN invites'
            /\ \A i \in DOMAIN invites' :
                invites'[i].email = m[2] /\ ~invites'[i].user => i \in stranded

\* Only these three add members.
LEMMA OthersAddNobody ==
    ASSUME [Next]_vars, ~FulfilNew, ~FulfilExisting, ~Enrol
    PROVE  DOMAIN members' \subseteq DOMAIN members
<1>1. CASE UNCHANGED vars \/ CreateTeam \/ CreateRole \/ UpdateRole \/ DeleteRole
           \/ CreateInvitation \/ AddMember \/ StoreInvitation \/ Expire
           \/ AddUser \/ LoadInvite \/ Decline \/ LoadMember
  <2>1. members' = members
    BY <1>1 DEF vars, CreateTeam, CreateRole, UpdateRole, DeleteRole, UnchangedButRoles,
       CreateInvitation, AddMember, StoreInvitation, Expire, AddUser, LoadInvite, Decline,
       LoadMember
  <2> QED BY <2>1
<1>2. CASE UpdateMember
  BY <1>2 DEF UpdateMember
<1>3. CASE DeleteMember
  BY <1>3 DEF DeleteMember, Without, Restrict
<1> QED BY <1>1, <1>2, <1>3 DEF Next

LEMMA RegisteringTakesUpAnOffer ==
    ASSUME AccountsInvariant, FulfilNew, NEW m \in DOMAIN members' \ DOMAIN members
    PROVE  TakesUpAnOffer(m)
<1>1. PICK q \in UnderWay, r \in {requests[p] : p \in UnderWay} :
          /\ r = requests[q]
          /\ r.is = "register"
          /\ End(q)
          /\ IF r.invite.email \notin accounts /\ Usable(r)
             THEN /\ CreateUser(r.invite.email)
                  /\ Join(r.invite.team, r.invite.email, r.invite.role, r.invite.permissions)
             ELSE UNCHANGED <<accounts, members, invites, stranded>>
  BY DEF FulfilNew
<1>r. r \in Request /\ RequestSound(r) /\ NoneBegins
  BY <1>1, HeldSound, EndBeginsNone
<1>2. /\ CreateUser(r.invite.email)
      /\ Join(r.invite.team, r.invite.email, r.invite.role, r.invite.permissions)
  BY <1>1
<1>3. /\ m = <<r.invite.team, r.invite.email>>
      /\ members'[m] = [permissions |-> r.invite.permissions, role |-> r.invite.role]
  BY <1>2 DEF Join, With
<1>4. \A i \in DOMAIN invites' :
          /\ i \in DOMAIN invites /\ invites'[i] = invites[i]
          /\ invites[i].email # r.invite.email
  BY <1>2 DEF CreateUser, Without, Restrict, InvitesTo
<1>5. r.id \in DOMAIN invites => invites[r.id].email = r.invite.email
  BY <1>1, <1>r DEF RequestSound
<1>6. m[2] = r.invite.email
  BY <1>3
<1>7. requests'[q] = Idle
  BY <1>1 DEF AccountsInvariant, RequestsSound, End, UnderWay
<1>8. r.id \notin DOMAIN invites'
  BY <1>4, <1>5
<1>9. \A i \in DOMAIN invites' :
          invites'[i].email = m[2] /\ ~invites'[i].user => i \in stranded
  BY <1>4, <1>5, <1>6
<1> QED BY <1>1, <1>3, <1>7, <1>8, <1>9 DEF TakesUpAnOffer

LEMMA AcceptingTakesUpAnOffer ==
    ASSUME AccountsInvariant, FulfilExisting, NEW m \in DOMAIN members' \ DOMAIN members
    PROVE  TakesUpAnOffer(m)
<1>1. PICK q \in UnderWay, r \in {requests[p] : p \in UnderWay} :
          /\ r = requests[q]
          /\ r.is = "join"
          /\ End(q)
          /\ IF <<r.invite.team, r.invite.email>> \notin DOMAIN members /\ Usable(r)
             THEN /\ Join(r.invite.team, r.invite.email, r.invite.role, r.invite.permissions)
                  /\ invites' = Without(invites, {r.id})
             ELSE UNCHANGED <<members, invites, stranded>>
  BY DEF FulfilExisting
<1>r. r \in Request /\ RequestSound(r) /\ NoneBegins
  BY <1>1, HeldSound, EndBeginsNone
<1>2. /\ Join(r.invite.team, r.invite.email, r.invite.role, r.invite.permissions)
      /\ invites' = Without(invites, {r.id})
  BY <1>1
<1>3. /\ m = <<r.invite.team, r.invite.email>>
      /\ members'[m] = [permissions |-> r.invite.permissions, role |-> r.invite.role]
  BY <1>2 DEF Join, With
<1>4. r.id \notin DOMAIN invites' /\ r.invite.email \in accounts
  BY <1>1, <1>2, <1>r DEF RequestSound, Without, Restrict
<1>5. \A i \in DOMAIN invites' :
          /\ invites'[i] = invites[i]
          /\ ~invites[i].user /\ invites[i].email \in accounts => i \in stranded
  BY <1>2 DEF AccountsInvariant, InviteSound, Without, Restrict
<1>6. m[2] = r.invite.email
  BY <1>3
<1>7. requests'[q] = Idle
  BY <1>1 DEF AccountsInvariant, RequestsSound, End, UnderWay
<1>8. r.id \notin DOMAIN invites'
  BY <1>4, <1>5
<1>9. \A i \in DOMAIN invites' :
          invites'[i].email = m[2] /\ ~invites'[i].user => i \in stranded
  BY <1>4, <1>5, <1>6
<1> QED BY <1>1, <1>3, <1>7, <1>8, <1>9 DEF TakesUpAnOffer

\* Who joins a team does so on the terms of an invitation to them, or is
\* enrolled; and no invitation that asks them to register is left, nor the
\* one used.
THEOREM OffersAreTakenUp == Spec => JoinsTakeUpAnOffer
<1> DEFINE Offered ==
             \A m \in DOMAIN members' \ DOMAIN members :
                \/ requests' = requests
                \/ \E q \in UnderWay :
                    LET r == requests[q]
                    IN  /\ requests'[q] = Idle
                        /\ r.is \in {"register", "join"}
                        /\ <<r.invite.team, r.invite.email>> = m
                        /\ members'[m] = [permissions |-> r.invite.permissions,
                                          role |-> r.invite.role]
                        /\ r.id \notin DOMAIN invites'
                        /\ \A i \in DOMAIN invites' :
                            invites'[i].email = m[2] /\ ~invites'[i].user => i \in stranded
<1>1. ASSUME AccountsInvariant, [Next]_vars, NEW m \in DOMAIN members' \ DOMAIN members
      PROVE  requests' = requests \/ TakesUpAnOffer(m)
  <2>1. ASSUME Enrol PROVE requests' = requests
    BY <2>1 DEF Enrol
  <2> QED BY <1>1, <2>1, OthersAddNobody, RegisteringTakesUpAnOffer, AcceptingTakesUpAnOffer
<1>2. AccountsInvariant /\ [Next]_vars => [Offered]_vars
  BY <1>1 DEF TakesUpAnOffer
<1> QED BY <1>2, AccountsStaySound, PTL DEF Spec, JoinsTakeUpAnOffer
=============================================================================
