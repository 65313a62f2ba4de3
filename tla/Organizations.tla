--------------------------- MODULE Organizations ---------------------------
(***************************************************************************)
(* Organizations, memberships and invitations: OrgService over the tables  *)
(* users, organizations, user_organizations and pending_invitations, and   *)
(* the Signup handler, which accepts what is pending for its address.      *)
(* Every request performs one store call per step, so that concurrent      *)
(* requests interleave; a transaction is one step.                         *)
(*                                                                         *)
(* A user stands for an e-mail address.  No code deletes a users or an     *)
(* organizations row.  Names, mails and the read-only lookups of the       *)
(* inviter and of the organization's name are left out; such a lookup that *)
(* fails is Fail.                                                          *)
(*                                                                         *)
(* An operator marked "Faulty" is a plausible bug in the one after it; it  *)
(* serves to test the properties, and no specification uses it.            *)
(***************************************************************************)
EXTENDS FiniteSets

CONSTANTS
    Users, Orgs, Requests,
    Roles,          \* the valid roles; "admin" is the one the code asks about
    NoUser, NoOrg,
    Faults          \* may store calls fail and requests be cut short?

ASSUME RolesAssumption == {"admin", "member"} \subseteq Roles /\ "none" \notin Roles
ASSUME NobodyAssumption == NoUser \notin Users /\ NoOrg \notin Orgs
ASSUME FaultsAssumption == Faults \in BOOLEAN

VARIABLES
    accounts,   \* the addresses with a users row
    orgs,       \* the organizations rows
    role,       \* role[o][u]: user_organizations.role, "none": no such row
    invited,    \* invited[o][u]: the role of an unexpired pending_invitations row
    req,        \* the state of every request
    \* History, read by the properties alone:
    missed      \* <<o, u>>: the invitation of u to o came after u's signup had
                \* looked for invitations, or a fault kept it from being accepted

tables == <<accounts, orgs, role, invited>>
vars == <<tables, req, missed>>

-----------------------------------------------------------------------------
NoOffers == [o \in Orgs |-> "none"]
AcceptPCs == {"findInvitations", "accept", "drop"}
PCs == {"idle", "create", "lookUp", "add", "invite", "remove", "setRole", "rename"} \union AcceptPCs

\* actor: who asks; org, user, as: what about; offers: the invitations that a
\* signup has read and not handled yet.
RequestStates ==
    [pc : PCs, actor : Users \union {NoUser}, org : Orgs \union {NoOrg},
     user : Users \union {NoUser}, as : Roles \union {"none"},
     offers : [Orgs -> Roles \union {"none"}]]
Idle == [pc |-> "idle", actor |-> NoUser, org |-> NoOrg, user |-> NoUser,
         as |-> "none", offers |-> NoOffers]

TypeOK ==
    /\ accounts \subseteq Users
    /\ orgs \subseteq Orgs
    /\ role \in [Orgs -> [Users -> Roles \union {"none"}]]
    /\ invited \in [Orgs -> [Users -> Roles \union {"none"}]]
    /\ req \in [Requests -> RequestStates]
    /\ missed \subseteq Orgs \X Users

Nothing == [o \in Orgs |-> [u \in Users |-> "none"]]
Init ==
    /\ accounts = {}
    /\ orgs = {}
    /\ role = Nothing
    /\ invited = Nothing
    /\ req = [r \in Requests |-> Idle]
    /\ missed = {}

-----------------------------------------------------------------------------
\* The queries of user_repo.go.
IsAdmin(o, u) == role[o][u] = "admin"
SetMember(o, u, p) == role' = [role EXCEPT ![o][u] = p]

AddOrgMember(o, u, p) ==        \* ON CONFLICT DO NOTHING
    IF role[o][u] = "none" THEN SetMember(o, u, p) ELSE UNCHANGED role

DeleteInvitation(o, u) ==
    /\ invited' = [invited EXCEPT ![o][u] = "none"]
    /\ missed' = missed \ {<<o, u>>}

\* An organization comes with the membership of its first admin.
CreateOwned(u, p) ==
    \E o \in Orgs \ orgs : orgs' = orgs \union {o} /\ SetMember(o, u, p)

At(r, pc) == req[r].pc = pc
Become(r, state) == req' = [req EXCEPT ![r] = state]
Finish(r) == Become(r, Idle)
Handled(s, o) == [s EXCEPT !.pc = "accept", !.offers[o] = "none"]
-----------------------------------------------------------------------------
\* Signup: FindByEmail answers that the address is free.
Signup(r, u) ==
    /\ At(r, "idle")
    /\ u \notin accounts
    /\ Become(r, [Idle EXCEPT !.pc = "create", !.user = u])
    /\ UNCHANGED <<tables, missed>>

\* CreateWithOrg: user, personal organization and membership in one
\* transaction, which fails if the address has been taken meanwhile.
CreateWithOrg(r) ==
    /\ At(r, "create")
    /\ IF req[r].user \in accounts
       THEN Finish(r) /\ UNCHANGED <<accounts, orgs, role>>
       ELSE /\ accounts' = accounts \union {req[r].user}
            /\ CreateOwned(req[r].user, "admin")
            /\ Become(r, [req[r] EXCEPT !.pc = "findInvitations"])
    /\ UNCHANGED <<invited, missed>>

\* AcceptPendingInvitations: FindInvitationsByEmail.
FindInvitations(r) ==
    /\ At(r, "findInvitations")
    /\ Become(r, [req[r] EXCEPT !.pc = "accept",
                                !.offers = [o \in Orgs |-> invited[o][req[r].user]]])
    /\ UNCHANGED <<tables, missed>>

\* Faulty: the invitation stays.
AcceptAndKeep(r) ==
    /\ At(r, "accept")
    /\ \E o \in Orgs :
        /\ req[r].offers[o] # "none"
        /\ AddOrgMember(o, req[r].user, req[r].offers[o])
        /\ Become(r, Handled(req[r], o))
    /\ UNCHANGED <<accounts, orgs, invited, missed>>

\* ... AddOrgMember for one of them.
Accept(r) ==
    /\ At(r, "accept")
    /\ \E o \in Orgs :
        /\ req[r].offers[o] # "none"
        /\ AddOrgMember(o, req[r].user, req[r].offers[o])
        /\ Become(r, [req[r] EXCEPT !.pc = "drop", !.org = o])
    /\ UNCHANGED <<accounts, orgs, invited, missed>>

\* ... it failed: the invitation stays, the loop goes on.
AcceptFails(r) ==
    /\ Faults
    /\ At(r, "accept")
    /\ \E o \in Orgs :
        /\ req[r].offers[o] # "none"
        /\ Become(r, Handled(req[r], o))
        /\ missed' = missed \union {<<o, req[r].user>>}
    /\ UNCHANGED tables

\* ... DeleteInvitation, whose error is ignored.
DropInvitation(r) ==
    /\ At(r, "drop")
    /\ \/ DeleteInvitation(req[r].org, req[r].user)
       \/ /\ Faults
          /\ missed' = missed \union {<<req[r].org, req[r].user>>}
          /\ UNCHANGED invited
    /\ Become(r, Handled(req[r], req[r].org))
    /\ UNCHANGED <<accounts, orgs, role>>

\* ... the loop is over.
SignedUp(r) ==
    /\ At(r, "accept")
    /\ req[r].offers = NoOffers
    /\ Finish(r)
    /\ UNCHANGED <<tables, missed>>

-----------------------------------------------------------------------------
\* CreateOrganizationWithAdmin: one transaction.
CreateOrganization(u) ==
    /\ u \in accounts
    /\ CreateOwned(u, "admin")
    /\ UNCHANGED <<accounts, invited, req, missed>>

\* InviteMember, RemoveMember, UpdateMemberRole and UpdateOrganization begin
\* with GetMemberRole.
Ask(r, a, o, u, p, next) ==
    /\ At(r, "idle")
    /\ a \in accounts
    /\ IsAdmin(o, a)
    /\ Become(r, [Idle EXCEPT !.pc = next, !.actor = a, !.org = o, !.user = u, !.as = p])
    /\ UNCHANGED <<tables, missed>>

\* Faulty: admins may remove themselves.
RemoveAnyone(r, a, o, u) == u \in accounts /\ Ask(r, a, o, u, "none", "remove")

Invite(r, a, o, u, p) == Ask(r, a, o, u, p, "lookUp")
Remove(r, a, o, u) == u \in accounts /\ a # u /\ Ask(r, a, o, u, "none", "remove")
ChangeRole(r, a, o, u, p) == u \in accounts /\ Ask(r, a, o, u, p, "setRole")
UpdateOrganization(r, a, o) == Ask(r, a, o, NoUser, "none", "rename")

\* InviteMember: FindByEmail decides between a membership and an invitation.
LookUp(r) ==
    /\ At(r, "lookUp")
    /\ Become(r, [req[r] EXCEPT !.pc = IF req[r].user \in accounts THEN "add" ELSE "invite"])
    /\ UNCHANGED <<tables, missed>>

Add(r) ==
    /\ At(r, "add")
    /\ AddOrgMember(req[r].org, req[r].user, req[r].as)
    /\ Finish(r)
    /\ UNCHANGED <<accounts, orgs, invited, missed>>

\* CreateInvitation: an upsert that renews the invitation of an address.
Awaited(u) == u \notin accounts \/ \E s \in Requests : At(s, "findInvitations") /\ req[s].user = u
CreateInvitation(r) ==
    /\ At(r, "invite")
    /\ invited' = [invited EXCEPT ![req[r].org][req[r].user] = req[r].as]
    /\ missed' = IF Awaited(req[r].user) THEN missed
                 ELSE missed \union {<<req[r].org, req[r].user>>}
    /\ Finish(r)
    /\ UNCHANGED <<accounts, orgs, role>>

\* RemoveOrgMember: a DELETE that may find nothing.
RemoveMember(r) ==
    /\ At(r, "remove")
    /\ SetMember(req[r].org, req[r].user, "none")
    /\ Finish(r)
    /\ UNCHANGED <<accounts, orgs, invited, missed>>

\* UpdateMemberRole: an UPDATE that may find nothing; nobody is kept from
\* changing their own role.
UpdateMemberRole(r) ==
    /\ At(r, "setRole")
    /\ IF role[req[r].org][req[r].user] # "none"
       THEN SetMember(req[r].org, req[r].user, req[r].as)
       ELSE UNCHANGED role
    /\ Finish(r)
    /\ UNCHANGED <<accounts, orgs, invited, missed>>

\* UpdateOrganizationName: an UPDATE of the name alone.
Rename(r) ==
    /\ At(r, "rename")
    /\ Finish(r)
    /\ UNCHANGED <<tables, missed>>

-----------------------------------------------------------------------------
Invitations(u) == {o \in Orgs : invited[o][u] # "none"}

\* A store call fails, the client goes away or the server crashes: the rest of
\* the request does not happen.  The bound on Orgs is reached here as well.
Fail(r) ==
    /\ Faults \/ (At(r, "create") /\ orgs = Orgs)
    /\ ~At(r, "idle")
    /\ missed' = IF req[r].pc \in AcceptPCs
                 THEN missed \union {<<o, req[r].user>> : o \in Invitations(req[r].user)}
                 ELSE missed
    /\ Finish(r)
    /\ UNCHANGED tables

\* Seven days pass: no query finds the invitation any more.
Expire(o, u) ==
    /\ invited[o][u] # "none"
    /\ DeleteInvitation(o, u)
    /\ UNCHANGED <<accounts, orgs, role, req>>

Start(r) ==
    \E u \in Users :
        \/ Signup(r, u)
        \/ \E a \in Users, o \in orgs :
            \/ Remove(r, a, o, u) \/ UpdateOrganization(r, a, o)
            \/ \E p \in Roles : (Invite(r, a, o, u, p) \/ ChangeRole(r, a, o, u, p))

Step(r) ==
    \/ CreateWithOrg(r) \/ FindInvitations(r) \/ SignedUp(r)
    \/ Accept(r) \/ AcceptFails(r) \/ DropInvitation(r)
    \/ LookUp(r) \/ Add(r) \/ CreateInvitation(r)
    \/ RemoveMember(r) \/ UpdateMemberRole(r) \/ Rename(r)

Next ==
    \/ \E r \in Requests : Start(r) \/ Step(r) \/ Fail(r)
    \/ \E u \in Users : CreateOrganization(u)
    \/ \E u \in Users, o \in Orgs : Expire(o, u)

Spec == Init /\ [][Next]_vars

-----------------------------------------------------------------------------
(* Properties *)

Members(o) == {u \in Users : role[o][u] # "none"}
Admins(o) == {u \in Users : IsAdmin(o, u)}

\* "Org and membership in a single transaction, so that no orphan organization
\* (one without members) arises."
OrgsHaveMembers == \A o \in orgs : Members(o) # {}

\* What a request that was admitted changes now, and whether its author is
\* still an admin.
Performs(r, pc, o) == At(r, pc) /\ ~At(r, pc)' /\ req[r].org = o
Stale(r) == ~IsAdmin(req[r].org, req[r].actor)

\* An organization loses its last member only to a request that acts after its
\* author ceased to be an admin there: as long as authors stay admins, the one
\* who removes is a member that remains.
OrphanOnlyIfStale ==
    [][\A o \in orgs' : Members(o)' = {} =>
        \/ o \in orgs /\ Members(o) = {}
        \/ \E r \in Requests : Performs(r, "remove", o) /\ Stale(r)]_vars

\* An organization loses its last admin only in that way, or to an admin who
\* changes its own role: who removes or demotes somebody else is an admin.
AdminLossIsExplained ==
    [][\A o \in orgs' : Admins(o)' = {} =>
        \/ o \in orgs /\ Admins(o) = {}
        \/ \E r \in Requests :
            \/ Performs(r, "remove", o) /\ Stale(r)
            \/ Performs(r, "setRole", o) /\ (Stale(r) \/ req[r].actor = req[r].user)]_vars

\* Whether u's signup still has to handle the invitation to o.
Handling(o, u) ==
    \E r \in Requests :
        /\ req[r].user = u
        /\ \/ At(r, "findInvitations")
           \/ req[r].pc \in {"accept", "drop"} /\ req[r].offers[o] # "none"

\* An invitation outlives the signup it waits for only if it was stored after
\* that signup had looked, or if a fault kept it from being accepted.
StrandedOnlyIfRaced ==
    \A o \in Orgs, u \in accounts :
        invited[o][u] # "none" => Handling(o, u) \/ <<o, u>> \in missed
=============================================================================
