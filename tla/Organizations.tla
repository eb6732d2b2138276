--------------------------- MODULE Organizations ---------------------------
(***************************************************************************)
(* One organization, its members, invitations and workspaces: the          *)
(* validators of packages/core/src/organizations.ts and the transaction    *)
(* they are written for.                                                   *)
(*                                                                         *)
(* A client loads the records, a validator answers from them, and the      *)
(* adapter commits if what it compares still stands.  No adapter is in the *)
(* repository: Compared and Kept say what docs/organization-foundation.md  *)
(* requires of one.  Identifiers and addresses are well formed.            *)
(***************************************************************************)
EXTENDS Naturals, FiniteSets

CONSTANTS Users, TheOrganization, Founder, Holders, \* whose the workspaces are at first
           Workspaces, Invitations, Plans, Clients,
          InvitedRoles, GrantRoles,  \* what invitations propose
          MaxMemberRevision, MaxOrganizationRevision \* bounds

VARIABLES
  organization, \* state, revision
  member,       \* by user: role, status ("none": no membership), revision
  owner,        \* by workspace: its personal owner or TheOrganization, revision
  grant,        \* grants: workspace, member, role
  invitation, plan,
  client        \* each client: what it has prepared from which records

orgVars == <<organization, member, owner, grant, invitation, plan, client>>
records == <<organization, member, owner, grant, invitation, plan>>

Roles == {"owner", "administrator", "member", "billing_manager"}
Away == [at |-> "idle"]
NoMember == [role |-> "member", status |-> "none", revision |-> 0]
NoInvitation == [to |-> Founder, role |-> "member", grants |-> {}, by |-> Founder, state |-> "none"]
NoPlan == [workspace |-> CHOOSE w \in Workspaces : TRUE, workspaceRevision |-> 0, from |-> Founder,
           organizationRevision |-> 0, acceptedBy |-> Founder, state |-> "none"]

\* prepareOrganizationCreation: the organization and its first owner in one transaction
OrgInit ==
  /\ organization = [state |-> "active", revision |-> 1]
  /\ member = [u \in Users |-> IF u = Founder THEN [role |-> "owner", status |-> "active", revision |-> 1] ELSE NoMember]
  /\ owner \in [Workspaces -> {[by |-> u, revision |-> 1] : u \in Holders}]
  /\ grant = {} /\ invitation = [i \in Invitations |-> NoInvitation] /\ plan = [p \in Plans |-> NoPlan]
  /\ client = [c \in Clients |-> Away]

-----------------------------------------------------------------------------
(* The rules.                                                               *)

Active(m) == m.status = "active"
ActiveOwners == {u \in Users : Active(member[u]) /\ member[u].role = "owner"}
Privileged == {"owner", "administrator"}

Capabilities(role) ==
  CASE role = "manager" -> {"read", "edit", "download_original", "publish", "manage_connections", "manage_schedules",
                            "export", "delete_content", "assign_workspace_roles"}
    [] role = "publisher" -> {"read", "edit", "download_original", "publish"}
    [] role = "editor" -> {"read", "edit", "download_original"}
    [] role = "viewer" -> {"read"}

\* hasWorkspaceCapability
Can(u, w, capability) ==
  \/ owner[w].by = u
  \/ /\ owner[w].by = TheOrganization /\ organization.state = "active" /\ Active(member[u])
     /\ \/ member[u].role \in Privileged
        \/ /\ member[u].role = "member"
           /\ \E g \in grant : g.workspace = w /\ g.member = u /\ capability \in Capabilities(g.role)

\* The last owner may go too.
LastOwner_Unprotected(current, next, owners) == FALSE

LastOwner(current, next, owners) ==
  /\ current.role = "owner" /\ Active(current) /\ (next.role # "owner" \/ ~Active(next))
  /\ Cardinality(owners) <= 1

\* Administrators manage one another.
Above_OwnersOnly(actor, current, next) ==
  actor.role # "owner" /\ "owner" \in {current.role, next.role}

\* Only owners change owners and administrators.
Above(actor, current, next) ==
  /\ actor.role # "owner"
  /\ \/ current.role # next.role /\ {current.role, next.role} \cap Privileged # {}
     \/ current.role \notin {"member", "billing_manager"}

\* validateMembershipChange
ChangeFits(actor, current, next, owners) ==
  /\ Active(actor) /\ current.status # "none" /\ owners # {} /\ actor.role \in Privileged
  /\ next.revision = current.revision + 1
  /\ ~Above(actor, current, next) /\ ~LastOwner(current, next, owners)

\* validateWorkspaceGrant
GrantFits(g, m) == Active(m) /\ m.role = "member" /\ owner[g.workspace].by = TheOrganization

\* Whoever invited, the invitation stands.
Inviter_Once(m, role) == TRUE

\* The inviter still has the authority.
Inviter(m, role) == /\ Active(m) /\ m.role \in Privileged
                    /\ (m.role = "administrator" => role \in {"member", "billing_manager"})

\* Any membership may be taken up again.
Rejoins_Anyone(m) == ~Active(m)

Rejoins(m) == m.status \in {"none", "ended"}

Accepted(i) == [role |-> invitation[i].role, status |-> "active", revision |-> member[invitation[i].to].revision + 1]
GrantsOf(i) == {[workspace |-> g.workspace, member |-> invitation[i].to, role |-> g.role] : g \in invitation[i].grants}

\* prepareInvitationAcceptance
InvitationFits(i) ==
  LET its == invitation[i]
  IN /\ its.state = "pending" /\ organization.state = "active"
     /\ Inviter(member[its.by], its.role) /\ Rejoins(member[its.to])
     /\ Cardinality({g.workspace : g \in its.grants}) = Cardinality(its.grants)
     /\ \A g \in GrantsOf(i) : GrantFits(g, Accepted(i))

\* A plan stands whatever became of the workspace.
TransferFits_NoRevision(p) ==
  plan[p].state = "accepted" /\ organization.state = "active" /\ plan[p].acceptedBy \in ActiveOwners

\* validateOwnershipTransferCommit
TransferFits(p) ==
  LET its == plan[p]
  IN /\ its.state = "accepted" /\ organization.state = "active"
     /\ owner[its.workspace] = [by |-> its.from, revision |-> its.workspaceRevision]
     /\ organization.revision = its.organizationRevision
     /\ its.acceptedBy \in ActiveOwners

-----------------------------------------------------------------------------
(* The adapter.                                                             *)

Loaded == <<organization, member, owner, invitation>>

\* The records a commit compares: of a membership change the membership and the active
\* owners, of an acceptance everything it was prepared from.
Compared(its) ==
  IF its.at = "change" THEN its.current = member[its.user] /\ its.owners = ActiveOwners ELSE its.seen = Loaded

\* Workspace grants reference active ordinary memberships of the owning organization.
Kept(grants, members, owners) ==
  {g \in grants : Active(members[g.member]) /\ members[g.member].role = "member" /\ owners[g.workspace].by = TheOrganization}

Prepare(c, proposal) ==
  /\ client[c] = Away
  /\ client' = [client EXCEPT ![c] = proposal]
  /\ UNCHANGED records

PrepareChange(c, actor, u, role, status) ==
  LET next == [role |-> role, status |-> status, revision |-> member[u].revision + 1]
  IN /\ member[u].revision < MaxMemberRevision
     /\ <<role, status>> # <<member[u].role, member[u].status>>
     /\ ChangeFits(member[actor], member[u], next, ActiveOwners)
     /\ Prepare(c, [at |-> "change", actor |-> actor, user |-> u, next |-> next, current |-> member[u], owners |-> ActiveOwners])

PrepareAcceptance(c, i) ==
  /\ InvitationFits(i) /\ member[invitation[i].to].revision < MaxMemberRevision
  /\ Prepare(c, [at |-> "accept", invitation |-> i, seen |-> Loaded])

CommitChange(c) ==
  LET its == client[c]
      members == IF Compared(its) THEN [member EXCEPT ![its.user] = its.next] ELSE member
  IN /\ its.at = "change"
     /\ member' = members /\ grant' = Kept(grant, members, owner)
     /\ client' = [client EXCEPT ![c] = Away]
     /\ UNCHANGED <<organization, owner, invitation, plan>>

CommitAcceptance(c) ==
  LET its == client[c]
      i == its.invitation
  IN /\ its.at = "accept"
     /\ IF Compared(its)
          THEN /\ member' = [member EXCEPT ![invitation[i].to] = Accepted(i)]
               /\ grant' = grant \cup GrantsOf(i)
               /\ invitation' = [invitation EXCEPT ![i].state = "accepted"]
          ELSE UNCHANGED <<member, grant, invitation>>
     /\ client' = [client EXCEPT ![c] = Away]
     /\ UNCHANGED <<organization, owner, plan>>

\* An owner or administrator grants an ordinary member a role in a workspace.
GrantRole(actor, g) ==
  /\ Can(actor, g.workspace, "assign_workspace_roles") /\ GrantFits(g, member[g.member])
  /\ grant' = {h \in grant : h.workspace # g.workspace \/ h.member # g.member} \cup {g}
  /\ UNCHANGED <<organization, member, owner, invitation, plan, client>>

Invite(i, by, to, role, grants) ==
  /\ invitation[i].state = "none" /\ Inviter(member[by], role)
  /\ invitation' = [invitation EXCEPT ![i] = [to |-> to, role |-> role, grants |-> grants, by |-> by, state |-> "pending"]]
  /\ UNCHANGED <<organization, member, owner, grant, plan, client>>

\* It is revoked, or its time is over.
Withdraw(i, state) ==
  /\ invitation[i].state = "pending" /\ invitation' = [invitation EXCEPT ![i].state = state]
  /\ UNCHANGED <<organization, member, owner, grant, plan, client>>

\* A personal owner plans a transfer and an owner of the organization accepts it.
AcceptPlan(p, w, u) ==
  /\ plan[p].state = "none" /\ owner[w].by \in Users /\ u \in ActiveOwners
  /\ plan' = [plan EXCEPT ![p] = [workspace |-> w, workspaceRevision |-> owner[w].revision, from |-> owner[w].by,
                                  organizationRevision |-> organization.revision, acceptedBy |-> u, state |-> "accepted"]]
  /\ UNCHANGED <<organization, member, owner, grant, invitation, client>>

\* The validator runs in the transaction that moves the workspace.
CommitTransfer(p) ==
  LET w == plan[p].workspace
  IN /\ TransferFits(p)
     /\ owner' = [owner EXCEPT ![w] = [by |-> TheOrganization, revision |-> @.revision + 1]]
     /\ plan' = [plan EXCEPT ![p].state = "committed"]
     /\ UNCHANGED <<organization, member, grant, invitation, client>>

\* The organization is suspended or active again.
SetState(state) ==
  /\ organization.state # state /\ organization.revision < MaxOrganizationRevision
  /\ organization' = [state |-> state, revision |-> organization.revision + 1]
  /\ UNCHANGED <<member, owner, grant, invitation, plan, client>>

OrgNext ==
  \/ \E c \in Clients :
       \/ \E actor, u \in Users, role \in Roles, status \in {"active", "suspended", "ended"} : PrepareChange(c, actor, u, role, status)
       \/ \E i \in Invitations : PrepareAcceptance(c, i)
       \/ CommitChange(c) \/ CommitAcceptance(c)
  \/ \E actor, u \in Users, w \in Workspaces, role \in GrantRoles : GrantRole(actor, [workspace |-> w, member |-> u, role |-> role])
  \/ \E i \in Invitations : \/ \E by, to \in Users, role \in InvitedRoles, grants \in SUBSET [workspace : Workspaces, role : GrantRoles] :
                                 Invite(i, by, to, role, grants)
                            \/ \E state \in {"revoked", "expired"} : Withdraw(i, state)
  \/ \E p \in Plans : (\E w \in Workspaces, u \in Users : AcceptPlan(p, w, u)) \/ CommitTransfer(p)
  \/ \E state \in {"active", "suspended"} : SetState(state)

OrgSpec == OrgInit /\ [][OrgNext]_orgVars

-----------------------------------------------------------------------------
OrgTypeOK ==
  /\ member \in [Users -> [role : Roles, status : {"none", "active", "suspended", "ended"}, revision : 0..MaxMemberRevision]]
  /\ owner \in [Workspaces -> [by : Users \cup {TheOrganization}, revision : 1..(Cardinality(Plans) + 1)]]
  /\ grant \subseteq [workspace : Workspaces, member : Users, role : GrantRoles]

\* However many owners step down, demote or remove one another at once, an active owner
\* remains (validateMembershipChange, docs/organization-foundation.md:55-57).
OwnerRemains == ActiveOwners # {}

\* Whoever becomes or ceases to be an owner or administrator does so by an act of an owner who
\* is active then; an invitation of someone who has lost the authority gives nothing.
PrivilegeFromOwners ==
  \A u \in Users :
    LET high(m) == IF Active(m) THEN {m.role} \cap Privileged ELSE {}
    IN high(member'[u]) # high(member[u]) =>
         \E c \in Clients : /\ client[c] # Away /\ client'[c] = Away
                            /\ IF client[c].at = "change" THEN client[c].actor \in ActiveOwners
                               ELSE invitation[client[c].invitation].by \in ActiveOwners

\* Who joins, or comes back after leaving, can do what the invitation says and no more: neither
\* a suspension nor grants of an earlier membership are undone by it (prepareInvitationAcceptance).
JoinsAsInvited ==
  \A c \in Clients, u \in Users :
    /\ client[c] # Away /\ client'[c] = Away /\ client[c].at = "accept" /\ member'[u] # member[u]
    => LET i == client[c].invitation
       IN /\ member[u].status # "suspended" /\ member'[u].role = invitation[i].role
          /\ {[workspace |-> g.workspace, role |-> g.role] : g \in {h \in grant' : h.member = u}} = invitation[i].grants

\* A workspace changes hands once for what its owner and the organization agreed on: of plans
\* accepted for one revision of it at most one is carried out (validateOwnershipTransferCommit).
TransferredOnce ==
  \A p, q \in Plans : /\ p # q /\ plan[p].state = "committed" /\ plan[q].state = "committed"
    => <<plan[p].workspace, plan[p].workspaceRevision>> # <<plan[q].workspace, plan[q].workspaceRevision>>
=============================================================================
