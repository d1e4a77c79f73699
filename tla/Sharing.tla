------------------------------- MODULE Sharing ------------------------------
(***************************************************************************)
(* Invitations to a vault and the access they give                         *)
(* (crates/disk-server/src/sharing over meta_db/sharing.rs).               *)
(*                                                                         *)
(* Vaults are named within a tenant, so one name may stand for a vault of  *)
(* each tenant; the model follows one name.  Accepting an invitation takes *)
(* three statements: read it, redeem it, enter the member.                 *)
(***************************************************************************)
EXTENDS Naturals, FiniteSets

CONSTANTS
  People,     \* user accounts
  Homes,      \* tenants
  HomeOf,     \* the tenant of an account
  Invites,    \* invitations, each issued at most once
  Blank,      \* not issued, not redeemed, no request
  MaxRemovals \* bound: members removed, tenants purged, vaults created

ShareRoles == {"viewer", "editor"}
Invitation == [home : Homes, role : ShareRoles, by : People, expired : BOOLEAN,
               redeemed : People \cup {Blank}]
Acceptance == [token : Invites, at : {"redeem", "grant"}]

\* The absent value is not taken for an account, a row or a request.
ASSUME SharingAssumption ==
  /\ HomeOf \in [People -> Homes] /\ MaxRemovals \in Nat
  /\ Blank \notin People \cup Invitation \cup Acceptance

VARIABLES
  owned,     \* tenants that have a vault of the name
  invite,    \* vault_invites
  members,   \* vault_members: (tenant, user) -> role, or Blank
  accepting, \* the acceptance each account has under way
  granted,   \* history: which invitation made whom a member
  failed,    \* history: invitations whose member could not be entered
  expelled,  \* history: members removed, with no invitation redeemed since
  removals

sharingVars == <<owned, invite, members, accepting, granted, failed, expelled, removals>>

SharingInit ==
  /\ owned \in {{t} : t \in Homes}
  /\ invite = [i \in Invites |-> Blank]
  /\ members = [m \in Homes \X People |-> Blank]
  /\ accepting = [u \in People |-> Blank]
  /\ granted = {} /\ failed = {} /\ expelled = {} /\ removals = 0

-----------------------------------------------------------------------------
(* resolve_vault_access *)

\* vault_exists_for_tenant
VaultExists(t) == t \in owned

\* get_collaborator_vault_access: whichever row the database returns first.
CollaboratorAccess(u) ==
  {[home |-> m[1], kind |-> members[m]] : m \in {x \in Homes \X {u} : members[x] # Blank}}

\* The vault of the own tenant comes first; else some membership in a vault of
\* that name.
Access(u) ==
  IF VaultExists(HomeOf[u]) THEN {[home |-> HomeOf[u], kind |-> "owner"]}
  ELSE CollaboratorAccess(u)

\* require_manage
MayManage(u) == \E a \in Access(u) : a.kind = "owner"

-----------------------------------------------------------------------------
\* insert_vault_invite
InsertInvite(i, home, role, by) ==
  /\ invite[i] = Blank
  /\ invite' = [invite EXCEPT ![i] = [home |-> home, role |-> role, by |-> by,
                                      expired |-> FALSE, redeemed |-> Blank]]

\* create_invite: entered under the tenant of the one who invites.
CreateInvite(u, i, role) ==
  /\ MayManage(u)
  /\ InsertInvite(i, HomeOf[u], role, u)
  /\ UNCHANGED <<owned, members, accepting, granted, failed, expelled, removals>>

Expire(i) ==
  /\ invite[i] # Blank /\ ~invite[i].expired
  /\ invite' = [invite EXCEPT ![i].expired = TRUE]
  /\ UNCHANGED <<owned, members, accepting, granted, failed, expelled, removals>>

\* get_vault_invite_by_token_hash
FoundInvite(i) == invite[i] # Blank

\* Mutant of AcceptRead: the holder of a spent token may present it again.
AcceptReadAgain(u, i) ==
  /\ accepting[u] = Blank
  /\ FoundInvite(i) /\ invite[i].redeemed \in {Blank, u} /\ ~invite[i].expired
  /\ accepting' = [accepting EXCEPT ![u] =
                     [token |-> i, at |-> IF invite[i].redeemed = u THEN "grant" ELSE "redeem"]]
  /\ UNCHANGED <<owned, invite, members, granted, failed, expelled, removals>>

\* accept_invite, up to its checks; whoever has the token may accept.
AcceptRead(u, i) ==
  /\ accepting[u] = Blank
  /\ FoundInvite(i) /\ invite[i].redeemed = Blank /\ ~invite[i].expired
  /\ accepting' = [accepting EXCEPT ![u] = [token |-> i, at |-> "redeem"]]
  /\ UNCHANGED <<owned, invite, members, granted, failed, expelled, removals>>

\* WHERE redeemed_at IS NULL
Unredeemed(i) == invite[i].redeemed = Blank

\* redeem_vault_invite: one of the callers updates the row.
AcceptRedeem(u) ==
  /\ accepting[u] # Blank /\ accepting[u].at = "redeem"
  /\ LET i == accepting[u].token
     IN  IF Unredeemed(i)
         THEN /\ invite' = [invite EXCEPT ![i].redeemed = u]
              /\ accepting' = [accepting EXCEPT ![u].at = "grant"]
              /\ expelled' = expelled \ {<<invite[i].home, u>>}
         ELSE /\ accepting' = [accepting EXCEPT ![u] = Blank]
              /\ UNCHANGED <<invite, expelled>>
  /\ UNCHANGED <<owned, members, granted, failed, removals>>

\* upsert_vault_member: the role is that of the invitation, up or down.
UpsertMember(m, role) == members' = [members EXCEPT ![m] = role]

\* accept_invite, its last statement.
AcceptGrant(u) ==
  /\ accepting[u] # Blank /\ accepting[u].at = "grant"
  /\ LET i == accepting[u].token
     IN  /\ UpsertMember(<<invite[i].home, u>>, invite[i].role)
         /\ granted' = granted \cup {<<i, u>>}
  /\ accepting' = [accepting EXCEPT ![u] = Blank]
  /\ UNCHANGED <<owned, invite, failed, expelled, removals>>

\* The statement fails or the client goes away: a redeemed invitation is spent.
AcceptFails(u) ==
  /\ accepting[u] # Blank
  /\ failed' = IF accepting[u].at = "grant" THEN failed \cup {accepting[u].token} ELSE failed
  /\ accepting' = [accepting EXCEPT ![u] = Blank]
  /\ UNCHANGED <<owned, invite, members, granted, expelled, removals>>

Counts == removals < MaxRemovals /\ removals' = removals + 1

\* An invitation has been redeemed and its member is still to be entered.
Joining(u) == accepting[u] # Blank /\ accepting[u].at = "grant"

\* remove_vault_member: FALSE where there is no such row.
RemoveRow(m) == members[m] # Blank /\ members' = [members EXCEPT ![m] = Blank]

\* remove_member: from the vault of the manager's own tenant.
RemoveMember(u, who) ==
  /\ Counts
  /\ MayManage(u)
  /\ RemoveRow(<<HomeOf[u], who>>)
  /\ expelled' = IF Joining(who) THEN expelled ELSE expelled \cup {<<HomeOf[u], who>>}
  /\ UNCHANGED <<owned, invite, accepting, granted, failed>>

\* register_tenant_vault, and purge_tenant_metadata, which leaves invitations
\* and members of the vault alone.
RegisterTenantVault(t) ==
  /\ Counts /\ t \notin owned /\ owned' = owned \cup {t}
  /\ UNCHANGED <<invite, members, accepting, granted, failed, expelled>>

PurgeTenantVault(t) ==
  /\ Counts /\ t \in owned /\ owned' = owned \ {t}
  /\ UNCHANGED <<invite, members, accepting, granted, failed, expelled>>

SharingNext ==
  \/ \E u \in People :
       \/ \E i \in Invites : AcceptRead(u, i) \/ \E role \in ShareRoles : CreateInvite(u, i, role)
       \/ AcceptRedeem(u) \/ AcceptGrant(u) \/ AcceptFails(u)
       \/ \E who \in People : RemoveMember(u, who)
  \/ \E i \in Invites : Expire(i)
  \/ \E t \in Homes : RegisterTenantVault(t) \/ PurgeTenantVault(t)

SharingSpec == SharingInit /\ [][SharingNext]_sharingVars

-----------------------------------------------------------------------------

\* However many accounts present one token at the same time, it makes one of
\* them a member (redeem_vault_invite decides, not the check before it).
InviteAdmitsOne == \A g, h \in granted : g[1] = h[1] => g = h

\* A spent invitation has made the account that spent it a member, or is about
\* to; only a failure between the two statements wastes it.
RedeemedAdmits ==
  \A i \in Invites : invite[i] # Blank /\ invite[i].redeemed # Blank =>
    \/ <<i, invite[i].redeemed>> \in granted \/ i \in failed
    \/ accepting[invite[i].redeemed] = [token |-> i, at |-> "grant"]

\* A member that was removed stays out until another invitation is redeemed,
\* unless the acceptance of an earlier one had still to enter the member.
RemovedStaysOut == \A m \in expelled : members[m] = Blank

-----------------------------------------------------------------------------
(***************************************************************************)
(* Organisations, their members and the workspace an account works in      *)
(* (crates/disk-server/src/orgs over meta_db/orgs.rs).  An organisation is *)
(* created by two statements, its row and its owner; the row reserves the  *)
(* slug.                                                                   *)
(***************************************************************************)

CONSTANTS
  OrgUsers,   \* user accounts
  Slugs,      \* slugs of organisations, which are also their tenants
  Unset       \* no row, no request, the personal workspace

VARIABLES
  orgs,      \* organizations: slug -> who created it
  orgRole,   \* organization_members
  workspace, \* user_org_context
  founding,  \* create_org under way: the slug, and the step
  adding,    \* add_member under way
  ownerless  \* history: organisations whose owner could not be entered

orgVars == <<orgs, orgRole, workspace, founding, adding, ownerless>>
OrgRoles == {"owner", "admin", "member"}
Founding == [slug : Slugs, at : {"insert", "owner"}]

ASSUME OrgsAssumption == Unset \notin OrgUsers \cup OrgRoles \cup Founding

OrgsInit ==
  /\ orgs = [s \in Slugs |-> Unset]
  /\ orgRole = [m \in Slugs \X OrgUsers |-> Unset]
  /\ workspace = [u \in OrgUsers |-> Unset]
  /\ founding = [u \in OrgUsers |-> Unset]
  /\ adding = [u \in OrgUsers |-> Unset]
  /\ ownerless = {}

\* create_org: organization_slug_taken
CreateOrg(u, s) ==
  /\ founding[u] = Unset
  /\ orgs[s] = Unset
  /\ founding' = [founding EXCEPT ![u] = [slug |-> s, at |-> "insert"]]
  /\ UNCHANGED <<orgs, orgRole, workspace, adding, ownerless>>

\* UNIQUE (slug)
SlugUnique(s) == orgs[s] = Unset

\* create_organization
InsertOrg(u) ==
  /\ founding[u] # Unset /\ founding[u].at = "insert"
  /\ LET s == founding[u].slug
     IN  IF SlugUnique(s)
         THEN /\ orgs' = [orgs EXCEPT ![s] = u]
              /\ founding' = [founding EXCEPT ![u].at = "owner"]
         ELSE founding' = [founding EXCEPT ![u] = Unset] /\ UNCHANGED orgs
  /\ UNCHANGED <<orgRole, workspace, adding, ownerless>>

\* add_organization_member(.., Owner, ..)
InsertOwner(u) ==
  /\ founding[u] # Unset /\ founding[u].at = "owner"
  /\ orgRole' = [orgRole EXCEPT ![<<founding[u].slug, u>>] = "owner"]
  /\ founding' = [founding EXCEPT ![u] = Unset]
  /\ UNCHANGED <<orgs, workspace, adding, ownerless>>

FoundingFails(u) ==
  /\ founding[u] # Unset
  /\ ownerless' = IF founding[u].at = "owner" THEN ownerless \cup {founding[u].slug} ELSE ownerless
  /\ founding' = [founding EXCEPT ![u] = Unset]
  /\ UNCHANGED <<orgs, orgRole, workspace, adding>>

\* get_org_member_role
OrgMemberRole(s, u) == orgRole[<<s, u>>]

\* "cannot assign owner via invite"
Assignable(role) == role # "owner"

\* add_member, up to its checks: an owner or admin, and no member yet.
AddMember(u, s, who, role) ==
  /\ adding[u] = Unset
  /\ OrgMemberRole(s, u) \in {"owner", "admin"}
  /\ Assignable(role)
  /\ OrgMemberRole(s, who) = Unset
  /\ adding' = [adding EXCEPT ![u] = [slug |-> s, who |-> who, role |-> role]]
  /\ UNCHANGED <<orgs, orgRole, workspace, founding, ownerless>>

\* PRIMARY KEY (org_id, user_id)
Enters(m) == orgRole[m] = Unset

\* add_organization_member: a second row of the same member is an error.
InsertMember(u) ==
  /\ adding[u] # Unset
  /\ LET m == <<adding[u].slug, adding[u].who>>
     IN  orgRole' = IF Enters(m) THEN [orgRole EXCEPT ![m] = adding[u].role] ELSE orgRole
  /\ adding' = [adding EXCEPT ![u] = Unset]
  /\ UNCHANGED <<orgs, workspace, founding, ownerless>>

\* set_user_org_context
SetOrgContext(u, s) == workspace' = [workspace EXCEPT ![u] = s]

\* put_org_context
PutOrgContext(u, s) ==
  /\ s # Unset => OrgMemberRole(s, u) # Unset
  /\ SetOrgContext(u, s)
  /\ UNCHANGED <<orgs, orgRole, founding, adding, ownerless>>

\* get_org_context: a workspace the account is no member of is left.
GetOrgContext(u) ==
  /\ workspace[u] # Unset
  /\ SetOrgContext(u, IF OrgMemberRole(workspace[u], u) = Unset THEN Unset ELSE workspace[u])
  /\ UNCHANGED <<orgs, orgRole, founding, adding, ownerless>>

OrgsNext ==
  \E u \in OrgUsers :
    \/ \E s \in Slugs : \/ CreateOrg(u, s)
                        \/ \E who \in OrgUsers, role \in OrgRoles : AddMember(u, s, who, role)
    \/ InsertOrg(u) \/ InsertOwner(u) \/ FoundingFails(u) \/ InsertMember(u)
    \/ GetOrgContext(u)
    \/ \E s \in Slugs \cup {Unset} : PutOrgContext(u, s)

OrgsSpec == OrgsInit /\ [][OrgsNext]_orgVars

-----------------------------------------------------------------------------
\* Every organisation has exactly one owner, the account that created it,
\* however creations and additions overlap: it is there, about to be entered,
\* or could not be entered, and then nobody can ever be added (create_org).
OneOwner ==
  \A s \in Slugs :
    LET owners == {u \in OrgUsers : orgRole[<<s, u>>] = "owner"}
    IN  IF orgs[s] = Unset THEN \A u \in OrgUsers : orgRole[<<s, u>>] = Unset
        ELSE \/ owners = {orgs[s]}
             \/ /\ owners = {}
                /\ \/ s \in ownerless /\ \A u \in OrgUsers : orgRole[<<s, u>>] = Unset
                   \/ founding[orgs[s]] = [slug |-> s, at |-> "owner"]

\* Access is given once, to whom it was promised, and stays withdrawn, for the
\* invitations of a vault and for organisations (accept_invite, create_org).
AccessSound == InviteAdmitsOne /\ RedeemedAdmits /\ RemovedStaysOut /\ OneOwner
=============================================================================
