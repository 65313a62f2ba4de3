------------------------ MODULE OrganizationsProofs ------------------------
(***************************************************************************)
(* Proofs about Organizations, for any number of users, organizations,     *)
(* roles and requests, with and without faults.                            *)
(***************************************************************************)
EXTENDS Organizations, TLAPS

USE RolesAssumption, NobodyAssumption, FaultsAssumption

AnyRole == Roles \union {"none"}

\* What a request has been admitted for: Ask and Signup leave no field open
\* that a later step reads.
StateSound(s) ==
    /\ s.pc \in {"create"} \union AcceptPCs => s.user \in Users
    /\ s.pc = "drop" => s.org \in Orgs
    /\ s.pc \in {"lookUp", "add", "invite", "remove", "setRole"} =>
         s.user \in Users /\ s.org \in Orgs /\ s.actor \in Users
    /\ s.pc \in {"lookUp", "add", "invite", "setRole"} => s.as \in Roles
    /\ s.pc = "remove" => s.actor # s.user

IInv == TypeOK /\ \A r \in Requests : StateSound(req[r])

-----------------------------------------------------------------------------
\* One membership changes, or none.
LEMMA OneMembership ==
    ASSUME TypeOK, NEW o \in Orgs, NEW u \in Users, NEW p \in AnyRole, SetMember(o, u, p)
    PROVE  /\ role' \in [Orgs -> [Users -> AnyRole]]
           /\ \A x \in Orgs, y \in Users :
                role'[x][y] = IF x = o /\ y = u THEN p ELSE role[x][y]
BY DEF TypeOK, SetMember, AnyRole

LEMMA OnlyNewMembers ==
    ASSUME TypeOK, NEW o \in Orgs, NEW u \in Users, NEW p \in Roles, AddOrgMember(o, u, p)
    PROVE  /\ role' \in [Orgs -> [Users -> AnyRole]]
           /\ \A x \in Orgs, y \in Users : role[x][y] # "none" => role'[x][y] = role[x][y]
<1>1. CASE role[o][u] = "none"
  <2>1. SetMember(o, u, p)
    BY <1>1 DEF AddOrgMember
  <2>2. QED BY <1>1, <2>1, OneMembership DEF AnyRole
<1>2. CASE role[o][u] # "none"
  BY <1>2 DEF AddOrgMember, TypeOK, AnyRole
<1>3. QED BY <1>1, <1>2

\* A new organization comes with a member of its own.
LEMMA NewHasMember ==
    ASSUME TypeOK, NEW u \in Users, NEW p \in Roles, CreateOwned(u, p)
    PROVE  /\ role' \in [Orgs -> [Users -> AnyRole]]
           /\ orgs \subseteq orgs' /\ orgs' \subseteq Orgs
           /\ \A o \in orgs : role'[o] = role[o]
           /\ \A o \in orgs' \ orgs : role'[o][u] = p
<1>1. PICK o \in Orgs \ orgs : orgs' = orgs \union {o} /\ SetMember(o, u, p)
  BY DEF CreateOwned
<1>2. /\ role' \in [Orgs -> [Users -> AnyRole]]
      /\ \A x \in Orgs, y \in Users :
           role'[x][y] = IF x = o /\ y = u THEN p ELSE role[x][y]
  BY <1>1, OneMembership DEF AnyRole
<1>3. \A x \in Orgs \ {o} : role'[x] = role[x]
  BY <1>1 DEF SetMember, TypeOK
<1>4. QED BY <1>1, <1>2, <1>3 DEF TypeOK

\* The invitation of one address goes away.
LEMMA OneInvitation ==
    ASSUME TypeOK, NEW o \in Orgs, NEW u \in Users, DeleteInvitation(o, u)
    PROVE  /\ invited' \in [Orgs -> [Users -> AnyRole]]
           /\ missed' \subseteq Orgs \X Users
           /\ \A x \in Orgs, y \in Users :
                invited'[x][y] = IF x = o /\ y = u THEN "none" ELSE invited[x][y]
           /\ \A x \in Orgs, y \in Users : <<x, y>> \in missed => <<x, y>> \in missed' \/ (x = o /\ y = u)
BY DEF TypeOK, DeleteInvitation, AnyRole

\* A request changes its own state alone.
LEMMA OneRequest ==
    ASSUME IInv, NEW r \in Requests, NEW s \in RequestStates, StateSound(s), Become(r, s)
    PROVE  /\ req' \in [Requests -> RequestStates]
           /\ req'[r] = s
           /\ \A x \in Requests \ {r} : req'[x] = req[x]
           /\ \A x \in Requests : StateSound(req'[x])
BY DEF IInv, TypeOK, Become

LEMMA IdleIsAState == Idle \in RequestStates /\ Idle.pc = "idle" /\ StateSound(Idle)
BY DEF Idle, RequestStates, NoOffers, PCs, StateSound, AcceptPCs

LEMMA OneFinishes ==
    ASSUME IInv, NEW r \in Requests, Finish(r)
    PROVE  /\ req' \in [Requests -> RequestStates]
           /\ req'[r] = Idle
           /\ \A x \in Requests \ {r} : req'[x] = req[x]
           /\ \A x \in Requests : StateSound(req'[x])
BY OneRequest, IdleIsAState DEF Finish

\* One offer of a signup is handled, and nothing else of it changes.
LEMMA HandledIsAState ==
    ASSUME NEW s \in RequestStates, NEW o \in Orgs, s.user \in Users
    PROVE  /\ Handled(s, o) \in RequestStates /\ StateSound(Handled(s, o))
           /\ Handled(s, o).pc = "accept" /\ Handled(s, o).user = s.user
           /\ \A x \in Orgs \ {o} : Handled(s, o).offers[x] = s.offers[x]
BY DEF Handled, RequestStates, PCs, StateSound, AcceptPCs

-----------------------------------------------------------------------------
LEMMA IInvInit == Init => IInv
<1> SUFFICES ASSUME Init PROVE IInv
  OBVIOUS
<1>1. req \in [Requests -> RequestStates] /\ \A r \in Requests : StateSound(req[r])
  BY IdleIsAState DEF Init
<1>2. QED BY <1>1 DEF Init, IInv, TypeOK, Nothing

\* The requests that begin with the role check.
LEMMA AskStep ==
    ASSUME IInv, NEW r \in Requests, NEW a \in Users, NEW o \in Orgs,
           NEW u \in Users \union {NoUser}, NEW p \in AnyRole, NEW next \in PCs,
           next \in {"lookUp", "setRole"} => u \in Users /\ p \in Roles,
           next = "remove" => u \in Users /\ a # u,
           next \in {"lookUp", "setRole", "remove", "rename"},
           Ask(r, a, o, u, p, next)
    PROVE  IInv'
<1> DEFINE s == [Idle EXCEPT !.pc = next, !.actor = a, !.org = o, !.user = u, !.as = p]
<1>1. s \in RequestStates /\ StateSound(s)
  BY DEF Idle, RequestStates, NoOffers, PCs, StateSound, AcceptPCs, AnyRole
<1>2. req' \in [Requests -> RequestStates] /\ \A x \in Requests : StateSound(req'[x])
  BY <1>1, OneRequest DEF Ask
<1>3. QED BY <1>2 DEF IInv, TypeOK, Ask, tables

LEMMA StartStep == ASSUME IInv, NEW r \in Requests, Start(r) PROVE IInv'
<1>1. ASSUME NEW u \in Users, Signup(r, u) PROVE IInv'
  <2> DEFINE s == [Idle EXCEPT !.pc = "create", !.user = u]
  <2>1. s \in RequestStates /\ StateSound(s)
    BY DEF Idle, RequestStates, NoOffers, PCs, StateSound, AcceptPCs
  <2>2. req' \in [Requests -> RequestStates] /\ \A x \in Requests : StateSound(req'[x])
    BY <1>1, <2>1, OneRequest DEF Signup
  <2>3. QED BY <1>1, <2>2 DEF IInv, TypeOK, Signup, tables
<1>2. ASSUME NEW u \in Users, NEW a \in Users, NEW o \in orgs, Remove(r, a, o, u) PROVE IInv'
  BY <1>2, AskStep DEF Remove, IInv, TypeOK, PCs, AnyRole
<1>3. ASSUME NEW a \in Users, NEW o \in orgs, UpdateOrganization(r, a, o) PROVE IInv'
  BY <1>3, AskStep DEF UpdateOrganization, IInv, TypeOK, PCs, AnyRole
<1>4. ASSUME NEW u \in Users, NEW a \in Users, NEW o \in orgs, NEW p \in Roles,
             Invite(r, a, o, u, p) \/ ChangeRole(r, a, o, u, p)
      PROVE  IInv'
  BY <1>4, AskStep DEF Invite, ChangeRole, IInv, TypeOK, PCs, AnyRole
<1>5. QED BY <1>1, <1>2, <1>3, <1>4 DEF Start

LEMMA SignupStep ==
    ASSUME IInv, NEW r \in Requests,
           \/ CreateWithOrg(r) \/ FindInvitations(r) \/ SignedUp(r)
           \/ Accept(r) \/ AcceptFails(r) \/ DropInvitation(r)
    PROVE  IInv'
<1>0. TypeOK /\ StateSound(req[r]) /\ req[r] \in RequestStates
  BY DEF IInv, TypeOK
<1>1. CASE CreateWithOrg(r)
  <2> DEFINE s == [req[r] EXCEPT !.pc = "findInvitations"]
  <2>1. req[r].user \in Users
    BY <1>0, <1>1 DEF CreateWithOrg, At, StateSound
  <2>2. s \in RequestStates /\ StateSound(s)
    BY <1>0, <2>1 DEF RequestStates, PCs, StateSound, AcceptPCs
  <2>3. req' \in [Requests -> RequestStates] /\ \A x \in Requests : StateSound(req'[x])
    BY <1>1, <2>2, OneRequest, OneFinishes DEF CreateWithOrg
  <2>4. role' \in [Orgs -> [Users -> AnyRole]] /\ orgs' \subseteq Orgs
    BY <1>0, <1>1, <2>1, NewHasMember DEF CreateWithOrg, TypeOK, AnyRole
  <2>5. QED BY <1>0, <1>1, <2>1, <2>3, <2>4 DEF IInv, TypeOK, CreateWithOrg, AnyRole
<1>2. CASE FindInvitations(r)
  <2> DEFINE s == [req[r] EXCEPT !.pc = "accept",
                                 !.offers = [o \in Orgs |-> invited[o][req[r].user]]]
  <2>1. req[r].user \in Users
    BY <1>0, <1>2 DEF FindInvitations, At, StateSound, AcceptPCs
  <2>2. s \in RequestStates /\ StateSound(s)
    <3>1. [o \in Orgs |-> invited[o][req[r].user]] \in [Orgs -> Roles \union {"none"}]
      BY <1>0, <2>1 DEF TypeOK
    <3>2. QED BY <1>0, <2>1, <3>1 DEF RequestStates, PCs, StateSound, AcceptPCs
  <2>3. req' \in [Requests -> RequestStates] /\ \A x \in Requests : StateSound(req'[x])
    BY <1>2, <2>2, OneRequest DEF FindInvitations
  <2>4. QED BY <1>0, <1>2, <2>3 DEF IInv, TypeOK, FindInvitations, tables
<1>3. CASE SignedUp(r)
  <2>1. req' \in [Requests -> RequestStates] /\ \A x \in Requests : StateSound(req'[x])
    BY <1>3, OneFinishes DEF SignedUp
  <2>2. QED BY <1>0, <1>3, <2>1 DEF IInv, TypeOK, SignedUp, tables
<1>4. CASE Accept(r)
  <2>1. PICK o \in Orgs : /\ req[r].offers[o] # "none"
                          /\ AddOrgMember(o, req[r].user, req[r].offers[o])
                          /\ Become(r, [req[r] EXCEPT !.pc = "drop", !.org = o])
    BY <1>4 DEF Accept
  <2> DEFINE s == [req[r] EXCEPT !.pc = "drop", !.org = o]
  <2>2. req[r].user \in Users /\ req[r].offers[o] \in Roles
    BY <1>0, <1>4, <2>1 DEF Accept, At, StateSound, AcceptPCs, RequestStates
  <2>3. s \in RequestStates /\ StateSound(s)
    BY <1>0, <2>2 DEF RequestStates, PCs, StateSound, AcceptPCs
  <2>4. req' \in [Requests -> RequestStates] /\ \A x \in Requests : StateSound(req'[x])
    BY <2>1, <2>3, OneRequest
  <2>5. role' \in [Orgs -> [Users -> AnyRole]]
    BY <1>0, <2>1, <2>2, OnlyNewMembers
  <2>6. QED BY <1>0, <1>4, <2>4, <2>5 DEF IInv, TypeOK, Accept, AnyRole
<1>5. CASE AcceptFails(r)
  <2>1. PICK o \in Orgs : /\ Become(r, Handled(req[r], o))
                          /\ missed' = missed \union {<<o, req[r].user>>}
    BY <1>5 DEF AcceptFails
  <2>2. req[r].user \in Users
    BY <1>0, <1>5 DEF AcceptFails, At, StateSound, AcceptPCs
  <2>3. req' \in [Requests -> RequestStates] /\ \A x \in Requests : StateSound(req'[x])
    BY <1>0, <2>1, <2>2, HandledIsAState, OneRequest
  <2>4. QED BY <1>0, <1>5, <2>1, <2>2, <2>3 DEF IInv, TypeOK, AcceptFails, tables
<1>6. CASE DropInvitation(r)
  <2>1. req[r].user \in Users /\ req[r].org \in Orgs
    BY <1>0, <1>6 DEF DropInvitation, At, StateSound, AcceptPCs
  <2>2. req' \in [Requests -> RequestStates] /\ \A x \in Requests : StateSound(req'[x])
    BY <1>0, <1>6, <2>1, HandledIsAState, OneRequest DEF DropInvitation
  <2>3. invited' \in [Orgs -> [Users -> AnyRole]] /\ missed' \subseteq Orgs \X Users
    BY <1>0, <1>6, <2>1, OneInvitation DEF DropInvitation, TypeOK, AnyRole
  <2>4. QED BY <1>0, <1>6, <2>2, <2>3 DEF IInv, TypeOK, DropInvitation, AnyRole
<1>7. QED BY <1>1, <1>2, <1>3, <1>4, <1>5, <1>6

LEMMA AdminStep ==
    ASSUME IInv, NEW r \in Requests,
           \/ LookUp(r) \/ Add(r) \/ CreateInvitation(r)
           \/ RemoveMember(r) \/ UpdateMemberRole(r) \/ Rename(r)
    PROVE  IInv'
<1>0. TypeOK /\ StateSound(req[r]) /\ req[r] \in RequestStates
  BY DEF IInv, TypeOK
<1>1. CASE LookUp(r)
  <2> DEFINE s == [req[r] EXCEPT !.pc = IF req[r].user \in accounts THEN "add" ELSE "invite"]
  <2>1. s \in RequestStates /\ StateSound(s)
    BY <1>0, <1>1 DEF LookUp, At, RequestStates, PCs, StateSound, AcceptPCs
  <2>2. req' \in [Requests -> RequestStates] /\ \A x \in Requests : StateSound(req'[x])
    BY <1>1, <2>1, OneRequest DEF LookUp
  <2>3. QED BY <1>0, <1>1, <2>2 DEF IInv, TypeOK, LookUp, tables
<1>2. CASE Add(r)
  <2>1. role' \in [Orgs -> [Users -> AnyRole]]
    BY <1>0, <1>2, OnlyNewMembers DEF Add, At, StateSound
  <2>2. req' \in [Requests -> RequestStates] /\ \A x \in Requests : StateSound(req'[x])
    BY <1>2, OneFinishes DEF Add
  <2>3. QED BY <1>0, <1>2, <2>1, <2>2 DEF IInv, TypeOK, Add, AnyRole
<1>3. CASE CreateInvitation(r)
  <2>1. req[r].user \in Users /\ req[r].org \in Orgs /\ req[r].as \in Roles
    BY <1>0, <1>3 DEF CreateInvitation, At, StateSound
  <2>2. invited' \in [Orgs -> [Users -> AnyRole]] /\ missed' \subseteq Orgs \X Users
    BY <1>0, <1>3, <2>1 DEF CreateInvitation, TypeOK, AnyRole
  <2>3. req' \in [Requests -> RequestStates] /\ \A x \in Requests : StateSound(req'[x])
    BY <1>3, OneFinishes DEF CreateInvitation
  <2>4. QED BY <1>0, <1>3, <2>2, <2>3 DEF IInv, TypeOK, CreateInvitation, AnyRole
<1>4. CASE RemoveMember(r) \/ UpdateMemberRole(r)
  <2>1. req[r].user \in Users /\ req[r].org \in Orgs /\ req[r].as \in AnyRole
    BY <1>0, <1>4 DEF RemoveMember, UpdateMemberRole, At, StateSound, RequestStates, AnyRole
  <2>2. role' \in [Orgs -> [Users -> AnyRole]]
    BY <1>0, <1>4, <2>1, OneMembership DEF RemoveMember, UpdateMemberRole, TypeOK, AnyRole
  <2>3. req' \in [Requests -> RequestStates] /\ \A x \in Requests : StateSound(req'[x])
    BY <1>4, OneFinishes DEF RemoveMember, UpdateMemberRole
  <2>4. QED BY <1>0, <1>4, <2>2, <2>3 DEF IInv, TypeOK, RemoveMember, UpdateMemberRole, AnyRole
<1>5. CASE Rename(r)
  <2>1. req' \in [Requests -> RequestStates] /\ \A x \in Requests : StateSound(req'[x])
    BY <1>5, OneFinishes DEF Rename
  <2>2. QED BY <1>0, <1>5, <2>1 DEF IInv, TypeOK, Rename, tables
<1>6. QED BY <1>1, <1>2, <1>3, <1>4, <1>5

LEMMA IInvStep == IInv /\ [Next]_vars => IInv'
<1> SUFFICES ASSUME IInv, [Next]_vars PROVE IInv'
  OBVIOUS
<1>0. TypeOK
  BY DEF IInv
<1>1. ASSUME NEW r \in Requests, Start(r) \/ Step(r) PROVE IInv'
  BY <1>1, StartStep, SignupStep, AdminStep DEF Step
<1>2. ASSUME NEW r \in Requests, Fail(r) PROVE IInv'
  <2>1. missed' \subseteq Orgs \X Users
    BY <1>0, <1>2 DEF Fail, IInv, TypeOK, StateSound, Invitations
  <2>2. req' \in [Requests -> RequestStates] /\ \A x \in Requests : StateSound(req'[x])
    BY <1>2, OneFinishes DEF Fail
  <2>3. QED BY <1>0, <1>2, <2>1, <2>2 DEF IInv, TypeOK, Fail, tables
<1>3. ASSUME NEW u \in Users, CreateOrganization(u) PROVE IInv'
  <2>1. role' \in [Orgs -> [Users -> AnyRole]] /\ orgs' \subseteq Orgs
    BY <1>0, <1>3, NewHasMember DEF CreateOrganization
  <2>2. QED BY <1>0, <1>3, <2>1 DEF IInv, TypeOK, CreateOrganization, AnyRole
<1>4. ASSUME NEW u \in Users, NEW o \in Orgs, Expire(o, u) PROVE IInv'
  <2>1. invited' \in [Orgs -> [Users -> AnyRole]] /\ missed' \subseteq Orgs \X Users
    BY <1>0, <1>4, OneInvitation DEF Expire
  <2>2. QED BY <1>0, <1>4, <2>1 DEF IInv, TypeOK, Expire, AnyRole
<1>5. CASE UNCHANGED vars
  BY <1>5 DEF IInv, TypeOK, vars, tables
<1>6. QED BY <1>1, <1>2, <1>3, <1>4, <1>5 DEF Next

LEMMA Invariance == Spec => []IInv
BY IInvInit, IInvStep, PTL DEF Spec

\* The tables and the requests keep their types.
THEOREM OrganizationsTypeCorrect == Spec => []TypeOK
<1>1. IInv => TypeOK
  BY DEF IInv
<1>2. QED BY <1>1, Invariance, PTL

-----------------------------------------------------------------------------
\* What a step may do to the members that an organization has: nothing, or
\* what a request was admitted for, to one member.
Kept == \A o \in orgs, u \in Users : role[o][u] # "none" => role'[o][u] = role[o][u]
Changes(r, o, u) ==
    /\ \A x \in Orgs, y \in Users : x # o \/ y # u => role'[x][y] = role[x][y]
    /\ \/ Performs(r, "remove", o)
       \/ Performs(r, "setRole", o) /\ role'[o][u] # "none"

LEMMA RoleStep ==
    ASSUME IInv, [Next]_vars
    PROVE  Kept \/ \E r \in Requests : Changes(r, req[r].org, req[r].user)
<1>0. TypeOK /\ orgs \subseteq Orgs
  BY DEF IInv, TypeOK
<1>1. ASSUME NEW r \in Requests, CreateWithOrg(r) PROVE Kept
  <2>1. req[r].user \in Users
    BY <1>1 DEF CreateWithOrg, At, IInv, StateSound
  <2>2. QED BY <1>0, <1>1, <2>1, NewHasMember DEF CreateWithOrg, Kept
<1>2. ASSUME NEW r \in Requests, Accept(r) PROVE Kept
  <2>1. req[r].user \in Users /\ req[r].offers \in [Orgs -> AnyRole]
    BY <1>0, <1>2 DEF Accept, At, IInv, StateSound, AcceptPCs, TypeOK, RequestStates, AnyRole
  <2>2. PICK o \in Orgs : /\ req[r].offers[o] # "none"
                          /\ AddOrgMember(o, req[r].user, req[r].offers[o])
    BY <1>2 DEF Accept
  <2>3. req[r].offers[o] \in Roles
    BY <2>1, <2>2 DEF AnyRole
  <2>4. QED BY <1>0, <2>1, <2>2, <2>3, OnlyNewMembers DEF Kept
<1>3. ASSUME NEW r \in Requests, Add(r) PROVE Kept
  <2>1. req[r].user \in Users /\ req[r].org \in Orgs /\ req[r].as \in Roles
    BY <1>3 DEF Add, At, IInv, StateSound
  <2>2. QED BY <1>0, <1>3, <2>1, OnlyNewMembers DEF Add, Kept
<1>4. ASSUME NEW r \in Requests, RemoveMember(r) PROVE Changes(r, req[r].org, req[r].user)
  <2>1. req[r].user \in Users /\ req[r].org \in Orgs
    BY <1>4 DEF RemoveMember, At, IInv, StateSound
  <2>2. req'[r] = Idle
    BY <1>4, OneFinishes DEF RemoveMember
  <2>3. Performs(r, "remove", req[r].org)
    BY <1>4, <2>2, IdleIsAState DEF RemoveMember, Performs, At
  <2>4. QED BY <1>0, <1>4, <2>1, <2>3, OneMembership DEF RemoveMember, Changes, AnyRole
<1>5. ASSUME NEW r \in Requests, UpdateMemberRole(r)
      PROVE  Kept \/ Changes(r, req[r].org, req[r].user)
  <2>1. req[r].user \in Users /\ req[r].org \in Orgs /\ req[r].as \in Roles
    BY <1>5 DEF UpdateMemberRole, At, IInv, StateSound
  <2>2. req'[r] = Idle
    BY <1>5, OneFinishes DEF UpdateMemberRole
  <2>3. Performs(r, "setRole", req[r].org)
    BY <1>5, <2>2, IdleIsAState DEF UpdateMemberRole, Performs, At
  <2>4. CASE role[req[r].org][req[r].user] # "none"
    <3>1. SetMember(req[r].org, req[r].user, req[r].as)
      BY <1>5, <2>4 DEF UpdateMemberRole
    <3>2. QED BY <1>0, <2>1, <2>3, <3>1, OneMembership DEF Changes, AnyRole
  <2>5. CASE role[req[r].org][req[r].user] = "none"
    BY <1>5, <2>5 DEF UpdateMemberRole, Kept
  <2>6. QED BY <2>4, <2>5
<1>6. ASSUME NEW u \in Users, CreateOrganization(u) PROVE Kept
  BY <1>0, <1>6, NewHasMember DEF CreateOrganization, Kept
<1>7. ASSUME NEW r \in Requests,
             \/ Start(r) \/ FindInvitations(r) \/ SignedUp(r) \/ AcceptFails(r)
             \/ DropInvitation(r) \/ LookUp(r) \/ CreateInvitation(r) \/ Rename(r) \/ Fail(r)
      PROVE  Kept
  BY <1>7 DEF Start, Signup, Remove, Invite, ChangeRole, UpdateOrganization, Ask, FindInvitations,
      SignedUp, AcceptFails, DropInvitation, LookUp, CreateInvitation, Rename, Fail, tables, Kept
<1>8. ASSUME NEW u \in Users, NEW o \in Orgs, Expire(o, u) PROVE Kept
  BY <1>8 DEF Expire, Kept
<1>9. CASE UNCHANGED vars
  BY <1>9 DEF vars, tables, Kept
<1>10. QED BY <1>1, <1>2, <1>3, <1>4, <1>5, <1>6, <1>7, <1>8, <1>9 DEF Next, Step

\* No organization goes away, and a new one comes with an admin.
LEMMA OrgStep ==
    ASSUME IInv, [Next]_vars
    PROVE  /\ orgs \subseteq orgs' /\ orgs' \subseteq Orgs
           /\ \A o \in orgs' \ orgs : \E u \in Users : role'[o][u] = "admin"
<1>0. TypeOK /\ TypeOK'
  BY IInvStep DEF IInv
<1>1. ASSUME NEW r \in Requests, CreateWithOrg(r)
      PROVE  orgs \subseteq orgs' /\ \A o \in orgs' \ orgs : \E u \in Users : role'[o][u] = "admin"
  <2>1. req[r].user \in Users
    BY <1>1 DEF CreateWithOrg, At, IInv, StateSound
  <2>2. QED BY <1>0, <1>1, <2>1, NewHasMember DEF CreateWithOrg
<1>2. ASSUME NEW u \in Users, CreateOrganization(u)
      PROVE  orgs \subseteq orgs' /\ \A o \in orgs' \ orgs : role'[o][u] = "admin"
  BY <1>0, <1>2, NewHasMember DEF CreateOrganization
<1>3. ASSUME NEW r \in Requests,
             \/ Start(r) \/ FindInvitations(r) \/ SignedUp(r) \/ Accept(r) \/ AcceptFails(r)
             \/ DropInvitation(r) \/ LookUp(r) \/ Add(r) \/ CreateInvitation(r) \/ RemoveMember(r)
             \/ UpdateMemberRole(r) \/ Rename(r) \/ Fail(r)
      PROVE  orgs' = orgs
  BY <1>3 DEF Start, Signup, Remove, Invite, ChangeRole, UpdateOrganization, Ask, FindInvitations,
      SignedUp, Accept, AcceptFails, DropInvitation, LookUp, Add, CreateInvitation, RemoveMember,
      UpdateMemberRole, Rename, Fail, tables
<1>4. ASSUME NEW u \in Users, NEW o \in Orgs, Expire(o, u) PROVE orgs' = orgs
  BY <1>4 DEF Expire
<1>5. ASSUME UNCHANGED vars PROVE orgs' = orgs
  BY <1>5 DEF vars, tables
<1>6. orgs' \subseteq Orgs
  BY <1>0 DEF TypeOK
<1>7. QED BY <1>1, <1>2, <1>3, <1>4, <1>5, <1>6 DEF Next, Step

\* Who removes somebody else and is still an admin then is a member that
\* remains: an organization loses its last member to a stale request alone.
LEMMA LastMemberStep ==
    ASSUME IInv, Next, NEW o \in orgs', Members(o)' = {}, o \notin orgs \/ Members(o) # {}
    PROVE  \E r \in Requests : Performs(r, "remove", o) /\ Stale(r)
<1>1. \A u \in Users : role'[o][u] = "none"
  BY DEF Members
<1>2. o \in orgs /\ o \in Orgs
  BY <1>1, OrgStep
<1>3. PICK u \in Users : role[o][u] # "none"
  BY <1>2 DEF Members
<1>4. PICK r \in Requests : Changes(r, req[r].org, req[r].user)
  BY <1>1, <1>2, <1>3, RoleStep DEF Kept
<1>5. o = req[r].org /\ u = req[r].user
  BY <1>1, <1>2, <1>3, <1>4 DEF Changes
<1>6. Performs(r, "remove", o)
  BY <1>1, <1>4, <1>5 DEF Changes
<1>7. req[r].actor \in Users /\ req[r].actor # u
  BY <1>5, <1>6 DEF Performs, At, IInv, StateSound
<1>8. Stale(r)
  BY <1>1, <1>2, <1>4, <1>5, <1>7 DEF Changes, Stale, IsAdmin
<1>9. QED BY <1>6, <1>8

\* An organization loses its last member only to a removal whose author has
\* ceased to be an admin since requireAdmin looked.
THEOREM OrphansAreStale == Spec => OrphanOnlyIfStale
<1> DEFINE Lost == \A o \in orgs' : Members(o)' = {} =>
        \/ o \in orgs /\ Members(o) = {}
        \/ \E r \in Requests : Performs(r, "remove", o) /\ Stale(r)
<1>1. IInv /\ [Next]_vars => [Lost]_vars
  BY LastMemberStep DEF Lost
<1>2. QED BY <1>1, Invariance, PTL DEF Spec, OrphanOnlyIfStale

\* An organization loses its last admin to a stale request, or to an admin who
\* gives up the role: whoever acts on somebody else keeps the role.
THEOREM AdminLossesAreExplained == Spec => AdminLossIsExplained
<1> DEFINE Lost == \A o \in orgs' : Admins(o)' = {} =>
        \/ o \in orgs /\ Admins(o) = {}
        \/ \E r \in Requests :
            \/ Performs(r, "remove", o) /\ Stale(r)
            \/ Performs(r, "setRole", o) /\ (Stale(r) \/ req[r].actor = req[r].user)
<1>1. IInv /\ [Next]_vars => [Lost]_vars
  <2> SUFFICES ASSUME IInv, Next, NEW o \in orgs', Admins(o)' = {}, o \notin orgs \/ Admins(o) # {}
               PROVE  \E r \in Requests :
                        \/ Performs(r, "remove", o) /\ Stale(r)
                        \/ Performs(r, "setRole", o) /\ (Stale(r) \/ req[r].actor = req[r].user)
    BY DEF Lost
  <2>1. \A u \in Users : role'[o][u] # "admin"
    BY DEF Admins, IsAdmin
  <2>2. o \in orgs /\ o \in Orgs
    BY <2>1, OrgStep
  <2>3. PICK u \in Users : role[o][u] = "admin"
    BY <2>2 DEF Admins, IsAdmin
  <2>4. PICK r \in Requests : Changes(r, req[r].org, req[r].user)
    BY <2>1, <2>2, <2>3, RoleStep DEF Kept
  <2>5. o = req[r].org /\ u = req[r].user
    BY <2>1, <2>2, <2>3, <2>4 DEF Changes
  <2>6. Performs(r, "remove", o) \/ Performs(r, "setRole", o)
    BY <2>4, <2>5 DEF Changes
  <2>7. req[r].actor \in Users
    BY <2>5, <2>6 DEF Performs, At, IInv, StateSound
  <2>8. Stale(r) \/ req[r].actor = u
    BY <2>1, <2>2, <2>4, <2>5, <2>7 DEF Changes, Stale, IsAdmin
  <2>9. Performs(r, "remove", o) => req[r].actor # u
    BY <2>5 DEF Performs, At, IInv, StateSound
  <2>10. QED BY <2>5, <2>6, <2>8, <2>9
<1>2. QED BY <1>1, Invariance, PTL DEF Spec, AdminLossIsExplained

-----------------------------------------------------------------------------
\* A request that is not finding, accepting or dropping invitations handles
\* none, so that a step of it takes no handler away.
LEMMA OthersHandle ==
    ASSUME IInv, NEW r \in Requests, NEW o \in Orgs, NEW u \in Users, Handling(o, u),
           \A x \in Requests \ {r} : req'[x] = req[x],
           req[r].pc \notin AcceptPCs \/ req[r].user # u
    PROVE  Handling(o, u)'
<1>1. PICK x \in Requests : /\ req[x].user = u
                            /\ \/ At(x, "findInvitations")
                               \/ req[x].pc \in {"accept", "drop"} /\ req[x].offers[o] # "none"
  BY DEF Handling
<1>2. x # r
  BY <1>1 DEF At, AcceptPCs
<1>3. req'[x] = req[x]
  BY <1>2
<1>4. QED BY <1>1, <1>3 DEF Handling, At

\* An invitation is accepted, dropped, lost to a fault or still to be handled
\* by the signup that it waits for.
LEMMA StrandedStep == IInv /\ StrandedOnlyIfRaced /\ [Next]_vars => StrandedOnlyIfRaced'
<1> SUFFICES ASSUME IInv, StrandedOnlyIfRaced, [Next]_vars,
                    NEW o \in Orgs, NEW u \in accounts', invited'[o][u] # "none",
                    <<o, u>> \notin missed'
             PROVE  Handling(o, u)'
  BY DEF StrandedOnlyIfRaced
<1>0. TypeOK /\ u \in Users
  BY IInvStep DEF IInv, TypeOK
<1>1. ASSUME u \in accounts, invited[o][u] # "none", <<o, u>> \notin missed PROVE Handling(o, u)
  BY <1>1 DEF StrandedOnlyIfRaced
<1>2. ASSUME NEW r \in Requests, CreateWithOrg(r) PROVE Handling(o, u)'
  <2>1. CASE req[r].user \in accounts
    <3>1. Handling(o, u)
      BY <1>1, <1>2, <2>1 DEF CreateWithOrg
    <3>2. \A x \in Requests \ {r} : req'[x] = req[x]
      BY <1>2, <2>1, OneFinishes DEF CreateWithOrg
    <3>3. QED BY <1>0, <1>2, <3>1, <3>2, OthersHandle DEF CreateWithOrg, At, AcceptPCs
  <2>2. CASE req[r].user \notin accounts
    <3>1. /\ req'[r].pc = "findInvitations" /\ req'[r].user = req[r].user
          /\ \A x \in Requests \ {r} : req'[x] = req[x]
      BY <1>0, <1>2, <2>2 DEF CreateWithOrg, Become, TypeOK, RequestStates
    <3>2. CASE u = req[r].user
      BY <3>1, <3>2 DEF Handling, At
    <3>3. CASE u # req[r].user
      <4>1. Handling(o, u)
        BY <1>1, <1>2, <2>2, <3>3 DEF CreateWithOrg
      <4>2. QED BY <1>0, <1>2, <3>1, <3>3, <4>1, OthersHandle
    <3>4. QED BY <3>2, <3>3
  <2>3. QED BY <2>1, <2>2
<1>3. ASSUME NEW r \in Requests, FindInvitations(r) PROVE Handling(o, u)'
  <2>1. Handling(o, u) /\ invited[o][u] # "none"
    BY <1>1, <1>3 DEF FindInvitations, tables
  <2>2. /\ req'[r].pc = "accept" /\ req'[r].user = req[r].user
        /\ req'[r].offers = [x \in Orgs |-> invited[x][req[r].user]]
        /\ \A x \in Requests \ {r} : req'[x] = req[x]
    BY <1>0, <1>3 DEF FindInvitations, Become, TypeOK, RequestStates
  <2>3. CASE u = req[r].user
    BY <2>1, <2>2, <2>3 DEF Handling, At
  <2>4. CASE u # req[r].user
    BY <1>0, <2>1, <2>2, <2>4, OthersHandle
  <2>5. QED BY <2>3, <2>4
<1>4. ASSUME NEW r \in Requests, Accept(r) PROVE Handling(o, u)'
  <2>1. Handling(o, u)
    BY <1>1, <1>4 DEF Accept
  <2>2. /\ req'[r].pc = "drop" /\ req'[r].user = req[r].user /\ req'[r].offers = req[r].offers
        /\ \A x \in Requests \ {r} : req'[x] = req[x]
    BY <1>0, <1>4 DEF Accept, Become, TypeOK, RequestStates
  <2>3. CASE u = req[r].user /\ req[r].offers[o] # "none"
    BY <2>2, <2>3 DEF Handling
  <2>4. CASE u = req[r].user /\ req[r].offers[o] = "none"
    BY <1>4, <2>1, <2>2, <2>4 DEF Handling, At, Accept
  <2>5. CASE u # req[r].user
    BY <1>0, <2>1, <2>2, <2>5, OthersHandle
  <2>6. QED BY <2>3, <2>4, <2>5
<1>5. ASSUME NEW r \in Requests, NEW k \in Orgs, req[r].pc \in {"accept", "drop"},
             Become(r, Handled(req[r], k)), Handling(o, u), req[r].user # u \/ k # o
      PROVE  Handling(o, u)'
  <2>1. /\ req'[r].pc = "accept" /\ req'[r].user = req[r].user
        /\ k # o => req'[r].offers[o] = req[r].offers[o]
        /\ \A x \in Requests \ {r} : req'[x] = req[x]
    BY <1>0, <1>5 DEF Handled, Become, TypeOK, RequestStates
  <2>2. CASE req[r].user # u
    BY <1>0, <1>5, <2>1, <2>2, OthersHandle
  <2>3. CASE req[r].user = u /\ k # o
    BY <1>5, <2>1, <2>3 DEF Handling, At
  <2>4. QED BY <1>5, <2>2, <2>3
<1>6. ASSUME NEW r \in Requests, AcceptFails(r) PROVE Handling(o, u)'
  <2>1. PICK k \in Orgs : /\ Become(r, Handled(req[r], k))
                          /\ missed' = missed \union {<<k, req[r].user>>}
    BY <1>6 DEF AcceptFails
  <2>2. Handling(o, u)
    BY <1>1, <1>6, <2>1 DEF AcceptFails, tables
  <2>3. QED BY <1>5, <1>6, <2>1, <2>2 DEF AcceptFails, At
<1>7. ASSUME NEW r \in Requests, DropInvitation(r) PROVE Handling(o, u)'
  <2>0. req[r].org \in Orgs /\ req[r].user \in Users
    BY <1>7 DEF DropInvitation, At, IInv, StateSound, AcceptPCs
  <2>1. \/ DeleteInvitation(req[r].org, req[r].user)
        \/ missed' = missed \union {<<req[r].org, req[r].user>>} /\ UNCHANGED invited
    BY <1>7 DEF DropInvitation
  <2>2. o # req[r].org \/ u # req[r].user
    BY <1>0, <2>0, <2>1, OneInvitation
  <2>3. invited[o][u] # "none" /\ <<o, u>> \notin missed
    BY <1>0, <2>0, <2>1, <2>2, OneInvitation
  <2>4. Handling(o, u)
    BY <1>1, <1>7, <2>3 DEF DropInvitation
  <2>5. QED BY <1>5, <1>7, <2>0, <2>2, <2>4 DEF DropInvitation, At
<1>8. ASSUME NEW r \in Requests, SignedUp(r) PROVE Handling(o, u)'
  <2>1. Handling(o, u)
    BY <1>1, <1>8 DEF SignedUp, tables
  <2>2. req[r].offers[o] = "none" /\ req[r].pc = "accept"
    BY <1>8 DEF SignedUp, NoOffers, At
  <2>3. \A x \in Requests \ {r} : req'[x] = req[x]
    BY <1>8, OneFinishes DEF SignedUp
  <2>4. QED BY <2>1, <2>2, <2>3 DEF Handling, At
<1>9. ASSUME NEW r \in Requests, CreateInvitation(r) PROVE Handling(o, u)'
  <2>0. /\ req[r].org \in Orgs /\ req[r].user \in Users
        /\ \A x \in Requests \ {r} : req'[x] = req[x]
    BY <1>9, OneFinishes DEF CreateInvitation, At, IInv, StateSound
  <2>1. Handling(o, u)
    <3>1. CASE o = req[r].org /\ u = req[r].user
      BY <1>9, <3>1 DEF CreateInvitation, Awaited, Handling
    <3>2. CASE o # req[r].org \/ u # req[r].user
      BY <1>0, <1>1, <1>9, <2>0, <3>2 DEF CreateInvitation, TypeOK
    <3>3. QED BY <3>1, <3>2
  <2>2. QED BY <1>0, <1>9, <2>0, <2>1, OthersHandle DEF CreateInvitation, At, AcceptPCs
<1>10. ASSUME NEW r \in Requests,
              \/ LookUp(r) \/ Add(r) \/ RemoveMember(r) \/ UpdateMemberRole(r) \/ Rename(r)
       PROVE  Handling(o, u)'
  <2>1. Handling(o, u)
    BY <1>1, <1>10 DEF LookUp, Add, RemoveMember, UpdateMemberRole, Rename, tables
  <2>2. req[r].pc \notin AcceptPCs /\ \A x \in Requests \ {r} : req'[x] = req[x]
    BY <1>0, <1>10 DEF LookUp, Add, RemoveMember, UpdateMemberRole, Rename, Finish, Become, At,
        AcceptPCs, TypeOK
  <2>3. QED BY <1>0, <2>1, <2>2, OthersHandle
<1>11. ASSUME NEW r \in Requests, Start(r) PROVE Handling(o, u)'
  <2>1. Handling(o, u)
    BY <1>1, <1>11 DEF Start, Signup, Remove, Invite, ChangeRole, UpdateOrganization, Ask, tables
  <2>2. req[r].pc = "idle" /\ \E s : Become(r, s)
    BY <1>11, Zenon DEF Start, Signup, Remove, Invite, ChangeRole, UpdateOrganization, Ask, At
  <2>3. \A x \in Requests \ {r} : req'[x] = req[x]
    BY <1>0, <2>2 DEF Become, TypeOK
  <2>4. QED BY <1>0, <2>1, <2>2, <2>3, OthersHandle DEF AcceptPCs
<1>12. ASSUME NEW r \in Requests, Fail(r) PROVE Handling(o, u)'
  <2>1. Handling(o, u)
    BY <1>1, <1>12 DEF Fail, tables
  <2>2. req[r].pc \notin AcceptPCs \/ req[r].user # u
    BY <1>12 DEF Fail, Invitations, tables
  <2>3. QED BY <1>0, <1>12, <2>1, <2>2, OneFinishes, OthersHandle DEF Fail
<1>13. ASSUME NEW v \in Users, CreateOrganization(v) PROVE Handling(o, u)'
  BY <1>1, <1>13 DEF CreateOrganization, Handling, At
<1>14. ASSUME NEW v \in Users, NEW k \in Orgs, Expire(k, v) PROVE Handling(o, u)'
  <2>1. Handling(o, u)
    BY <1>0, <1>1, <1>14, OneInvitation DEF Expire
  <2>2. QED BY <1>14, <2>1 DEF Expire, Handling, At
<1>15. ASSUME UNCHANGED vars PROVE Handling(o, u)'
  BY <1>1, <1>15 DEF vars, tables, Handling, At
<1>16. QED BY <1>2, <1>3, <1>4, <1>6, <1>7, <1>8, <1>9, <1>10, <1>11, <1>12, <1>13, <1>14,
        <1>15 DEF Next, Step

\* An invitation outlives the signup it waits for only if it was stored after
\* that signup had looked, or if a fault kept it from being accepted.
THEOREM StrandedAreRaced == Spec => []StrandedOnlyIfRaced
<1>1. Init => StrandedOnlyIfRaced
  BY DEF Init, StrandedOnlyIfRaced
<1>2. QED BY <1>1, StrandedStep, Invariance, PTL DEF Spec

-----------------------------------------------------------------------------
(* When the comment of CreateOrganizationWithAdmin, that no organization is  *)
(* without members, does hold.                                               *)

\* No request removes a member after its author ceased to be an admin.
RemovalsAreFresh ==
    [][\A r \in Requests, o \in Orgs : ~(Performs(r, "remove", o) /\ Stale(r))]_vars

LEMMA MembersStep ==
    ASSUME IInv, OrgsHaveMembers, [Next]_vars,
           \A r \in Requests, o \in Orgs : ~(Performs(r, "remove", o) /\ Stale(r))
    PROVE  OrgsHaveMembers'
<1> SUFFICES ASSUME NEW o \in orgs', Members(o)' = {} PROVE FALSE
  BY DEF OrgsHaveMembers
<1>1. CASE UNCHANGED vars
  BY <1>1 DEF OrgsHaveMembers, Members, vars, tables
<1>2. CASE Next
  <2>1. o \notin orgs \/ Members(o) # {}
    BY DEF OrgsHaveMembers
  <2>2. o \in Orgs
    BY OrgStep
  <2>3. QED BY <1>2, <2>1, <2>2, LastMemberStep
<1>3. QED BY <1>1, <1>2

\* Staleness is the only way to an organization without members: were the role
\* check and the DELETE of RemoveMember one step, or the check repeated in it,
\* the comment would be right, whatever else interleaves or fails.
THEOREM FreshRemovalsKeepMembers == Spec /\ RemovalsAreFresh => []OrgsHaveMembers
<1> DEFINE Fresh == \A r \in Requests, o \in Orgs : ~(Performs(r, "remove", o) /\ Stale(r))
<1>1. Init => OrgsHaveMembers
  BY DEF Init, OrgsHaveMembers
<1>2. IInv /\ OrgsHaveMembers /\ [Next]_vars /\ [Fresh]_vars => OrgsHaveMembers'
  <2>1. ASSUME IInv, OrgsHaveMembers, UNCHANGED vars PROVE OrgsHaveMembers'
    BY <2>1 DEF OrgsHaveMembers, Members, vars, tables
  <2>2. QED BY <2>1, MembersStep
<1>3. QED BY <1>1, <1>2, Invariance, PTL DEF Spec, RemovalsAreFresh

\* At most one request at a time.
Sequential == \A r, s \in Requests : r = s

\* Then an author stays an admin until the request is done.
Pending == {"lookUp", "add", "invite", "remove", "setRole"}
AuthorsAreAdmins ==
    \A r \in Requests : req[r].pc \in Pending => req[r].org \in orgs /\ ~Stale(r)

LEMMA AuthorsStep ==
    ASSUME Sequential, IInv, AuthorsAreAdmins, [Next]_vars
    PROVE  AuthorsAreAdmins'
<1> SUFFICES ASSUME NEW r \in Requests, req'[r].pc \in Pending
             PROVE  req'[r].org \in orgs' /\ role'[req'[r].org][req'[r].actor] = "admin"
  BY DEF AuthorsAreAdmins, Stale, IsAdmin
<1>0. TypeOK /\ req[r] \in RequestStates
  BY DEF IInv, TypeOK
<1>1. \A s \in Requests : s = r
  BY DEF Sequential
<1>2. req[r].pc \in Pending => req[r].org \in orgs /\ role[req[r].org][req[r].actor] = "admin"
  BY DEF AuthorsAreAdmins, Stale, IsAdmin
<1>3. CASE Start(r)
  <2>1. ASSUME NEW u \in Users, Signup(r, u) PROVE FALSE
    <3>1. Become(r, [Idle EXCEPT !.pc = "create", !.user = u])
      BY <2>1 DEF Signup
    <3>2. [Idle EXCEPT !.pc = "create", !.user = u].pc = "create"
      BY DEF Idle
    <3>3. QED BY <1>0, <3>1, <3>2 DEF Become, TypeOK, Pending
  <2>2. PICK a \in Users, o \in orgs, u \in Users \union {NoUser}, p \in AnyRole, next \in PCs :
          Ask(r, a, o, u, p, next)
    BY <1>3, <2>1 DEF Start, Remove, Invite, ChangeRole, UpdateOrganization, PCs, AnyRole
  <2>3. req'[r].org = o /\ req'[r].actor = a /\ UNCHANGED tables /\ role[o][a] = "admin"
    BY <1>0, <2>2 DEF Ask, Become, TypeOK, Idle, IsAdmin
  <2>4. QED BY <2>3 DEF tables
<1>4. CASE LookUp(r)
  <2>1. /\ req'[r].org = req[r].org /\ req'[r].actor = req[r].actor
        /\ req[r].pc \in Pending /\ UNCHANGED tables
    BY <1>0, <1>4 DEF LookUp, Become, TypeOK, RequestStates, At, Pending
  <2>2. QED BY <1>2, <2>1 DEF tables
<1>5. ASSUME NEW state, Become(r, state), state.pc \notin Pending PROVE FALSE
  BY <1>0, <1>5 DEF Become, TypeOK
<1>6. ~(CreateWithOrg(r) \/ FindInvitations(r) \/ Accept(r) \/ AcceptFails(r) \/ DropInvitation(r))
  <2>1. ~CreateWithOrg(r)
    <3>1. [req[r] EXCEPT !.pc = "findInvitations"].pc = "findInvitations"
      BY <1>0 DEF RequestStates
    <3>2. QED BY <1>5, <3>1, IdleIsAState DEF CreateWithOrg, Finish, Pending
  <2>2. ~FindInvitations(r)
    <3>1. \A x : [req[r] EXCEPT !.pc = "accept", !.offers = x].pc = "accept"
      BY <1>0 DEF RequestStates
    <3>2. QED BY <1>5, <3>1 DEF FindInvitations, Pending
  <2>3. ~Accept(r)
    <3>1. \A o : [req[r] EXCEPT !.pc = "drop", !.org = o].pc = "drop"
      BY <1>0 DEF RequestStates
    <3>2. QED BY <1>5, <3>1 DEF Accept, Pending
  <2>4. ~AcceptFails(r) /\ ~DropInvitation(r)
    <3>1. \A o : Handled(req[r], o).pc = "accept"
      BY <1>0 DEF RequestStates, Handled
    <3>2. QED BY <1>5, <3>1 DEF AcceptFails, DropInvitation, Pending
  <2>5. QED BY <2>1, <2>2, <2>3, <2>4
<1>7. ~(SignedUp(r) \/ Add(r) \/ CreateInvitation(r) \/ RemoveMember(r) \/ UpdateMemberRole(r)
        \/ Rename(r) \/ Fail(r))
  BY <1>5, IdleIsAState
     DEF SignedUp, Add, CreateInvitation, RemoveMember, UpdateMemberRole, Rename, Fail, Finish, Pending
<1>8. ASSUME NEW u \in Users, CreateOrganization(u) PROVE req' = req /\ \A o \in orgs : role'[o] = role[o]
  BY <1>0, <1>8, NewHasMember DEF CreateOrganization
<1>9. ASSUME (\E u \in Users, o \in Orgs : Expire(o, u)) \/ UNCHANGED vars
      PROVE  req' = req /\ role' = role
  BY <1>9 DEF Expire, vars, tables
<1>10. orgs \subseteq orgs'
  BY OrgStep
<1>11. CASE req' = req /\ \A o \in orgs : role'[o] = role[o]
  BY <1>2, <1>10, <1>11
<1>12. QED BY <1>1, <1>3, <1>4, <1>6, <1>7, <1>8, <1>9, <1>11 DEF Next, Step

LEMMA SequentialAuthors == ASSUME Sequential PROVE Spec => []AuthorsAreAdmins
<1>1. Init => AuthorsAreAdmins
  BY IdleIsAState DEF Init, AuthorsAreAdmins, Pending
<1>2. IInv /\ AuthorsAreAdmins /\ [Next]_vars => AuthorsAreAdmins'
  BY AuthorsStep
<1>3. QED BY <1>1, <1>2, Invariance, PTL DEF Spec

\* One request at a time, faults included, leaves no organization without
\* members: it takes two admins who remove each other.
THEOREM SequentialOrgsHaveMembers == ASSUME Sequential PROVE Spec => []OrgsHaveMembers
<1>1. AuthorsAreAdmins =>
        [\A r \in Requests, o \in Orgs : ~(Performs(r, "remove", o) /\ Stale(r))]_vars
  BY DEF AuthorsAreAdmins, Pending, Performs, At
<1>2. QED BY <1>1, SequentialAuthors, FreshRemovalsKeepMembers, PTL DEF RemovalsAreFresh

\* ... and its last admin goes only by giving up the role.
THEOREM SequentialAdminLoss ==
    ASSUME Sequential
    PROVE  Spec =>
        [][\A o \in orgs' : Admins(o)' = {} =>
              \/ o \in orgs /\ Admins(o) = {}
              \/ \E r \in Requests : Performs(r, "setRole", o) /\ req[r].actor = req[r].user]_vars
<1> DEFINE Lost == \A o \in orgs' : Admins(o)' = {} =>
              \/ o \in orgs /\ Admins(o) = {}
              \/ \E r \in Requests : Performs(r, "setRole", o) /\ req[r].actor = req[r].user
           Loss == \A o \in orgs' : Admins(o)' = {} =>
              \/ o \in orgs /\ Admins(o) = {}
              \/ \E r \in Requests :
                  \/ Performs(r, "remove", o) /\ Stale(r)
                  \/ Performs(r, "setRole", o) /\ (Stale(r) \/ req[r].actor = req[r].user)
<1>1. AuthorsAreAdmins /\ [Loss]_vars => [Lost]_vars
  BY DEF AuthorsAreAdmins, Pending, Performs, At
<1>2. QED BY <1>1, SequentialAuthors, AdminLossesAreExplained, PTL DEF AdminLossIsExplained
=============================================================================
