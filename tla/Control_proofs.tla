--------------------------- MODULE Control_proofs ---------------------------
(***************************************************************************)
(* The parts of the control plane and of the data the server keeps, for    *)
(* any number of users, tenants, calls, paths and requests: for each part  *)
(* its inductive invariant, the step that keeps it, and what follows; and  *)
(* at the end what follows for the parts taken together.                   *)
(***************************************************************************)
EXTENDS MCControl, FiniteSetTheorems, WellFoundedInduction, TLAPS

-----------------------------------------------------------------------------
(* The upload gate *)

Stages == {"new", "stream", "broken", "staged", "fetch", "signed", "counted", "verified",
           "refused", "quarantined", "done"}

Fetch == [at : Nat, key : Nat \cup {NoKeyU}]

GateTypes ==
  /\ stageU \in [Uploads -> Stages]
  /\ sentU \in [Uploads -> 0..ChunksU]
  /\ spoolsU \subseteq Uploads /\ quarantineU \subseteq Uploads
  /\ fileU \in Uploads \cup {0}

\* Which requests have all of their content, which were set aside, and that the
\* file comes from one that passed everything.
GateOrder ==
  /\ \A r \in Uploads : stageU[r] \notin {"new", "stream", "broken", "refused"} =>
       sentU[r] = ChunksU
  /\ \A r \in quarantineU : stageU[r] = "quarantined"
  /\ fileU # 0 => stageU[fileU] = "done"
  /\ StraySpools

GateInv == GateTypes /\ GateOrder

\* A key that came from the Vault was its key when the fetch began, or later.
Honest(e) == e.at <= clockU /\ (e.key # NoKeyU => e.key \in 1..MaxKeys /\ e.at <= retiredAt[e.key])

KeyInv ==
  /\ stageU \in [Uploads -> Stages]
  /\ fetching \in [Uploads -> Fetch \cup {NoKeyU}]
  /\ vaultKey \in 1..MaxKeys /\ clockU \in 0..MaxClockU
  /\ retiredAt \in [1..MaxKeys -> Nat]
  /\ \A r \in Uploads : stageU[r] = "fetch" => fetching[r] \in Fetch /\ Honest(fetching[r])
  /\ keyCache = NoKeyU \/ (keyCache \in Fetch /\ Honest(keyCache) /\ keyCache.key # NoKeyU)
  /\ \A k \in vaultKey..MaxKeys : retiredAt[k] = MaxClockU + 1

-----------------------------------------------------------------------------

\* Every step of a request keeps what the gate knows of it.
LEMMA GateStep == GateInv /\ [GateNext]_gateVars => GateInv'
<1> SUFFICES ASSUME GateInv, [GateNext]_gateVars
             PROVE  GateInv'
  OBVIOUS
<1> USE GateAssumption DEF GateInv, GateTypes, GateOrder, StraySpools, Stages, GotoU, InStageU,
        worldU, verifierU
<1>1. ASSUME NEW r \in Uploads, NEW k \in 0..MaxKeys, NEW c \in 1..MaxCounter,
             OpenUpload(r, k, c)
      PROVE  GateInv'
  BY <1>1 DEF OpenUpload
<1>2. ASSUME NEW r \in Uploads, SpoolChunk(r)
      PROVE  GateInv'
  BY <1>2 DEF SpoolChunk
<1>3. ASSUME NEW r \in Uploads, StreamBreaks(r)
      PROVE  GateInv'
  BY <1>3 DEF StreamBreaks, DropSpool
<1>4. ASSUME NEW r \in Uploads, StreamEnds(r)
      PROVE  GateInv'
  BY <1>4 DEF StreamEnds, ContentHashOk
<1>5. ASSUME NEW r \in Uploads, NothingToVerify(r)
      PROVE  GateInv'
  BY <1>5 DEF NothingToVerify
<1>6. ASSUME NEW r \in Uploads, KeyCached(r)
      PROVE  GateInv'
  BY <1>6 DEF KeyCached, Signed, Quarantined
<1>7. ASSUME NEW r \in Uploads, FetchStarts(r)
      PROVE  GateInv'
  BY <1>7 DEF FetchStarts, Signed
<1>8. ASSUME NEW r \in Uploads, VaultAnswers(r)
      PROVE  GateInv'
  BY <1>8 DEF VaultAnswers
<1>9. ASSUME NEW r \in Uploads, FetchFails(r)
      PROVE  GateInv'
  BY <1>9 DEF FetchFails, Quarantined
<1>10. ASSUME NEW r \in Uploads, KeyArrives(r)
       PROVE  GateInv'
  BY <1>10 DEF KeyArrives, Quarantined
<1>11. ASSUME NEW r \in Uploads, CheckCounter(r)
       PROVE  GateInv'
  BY <1>11 DEF CheckCounter, Quarantined
<1>12. ASSUME NEW r \in Uploads, AdvanceCounter(r)
       PROVE  GateInv'
  BY <1>12 DEF AdvanceCounter
<1>13. ASSUME NEW r \in Uploads, QuotaRefuses(r)
       PROVE  GateInv'
  BY <1>13 DEF QuotaRefuses
<1>14. ASSUME NEW r \in Uploads, CommitUpload(r)
       PROVE  GateInv'
  BY <1>14 DEF CommitUpload
<1>15. CASE AdmissionChanges \/ RotateKey \/ HoursPass
  BY <1>15 DEF AdmissionChanges, RotateKey, HoursPass
<1>16. CASE UNCHANGED gateVars
  BY <1>16 DEF gateVars
<1> QED
  BY <1>1, <1>2, <1>3, <1>4, <1>5, <1>6, <1>7, <1>8, <1>9, <1>10, <1>11, <1>12, <1>13,
     <1>14, <1>15, <1>16 DEF GateNext

\* The order of the gate holds throughout: whatever interleaving of requests,
\* the file and the quarantine hold what passed and what failed (delta_upload).
THEOREM GateInvariant == GateSpec => []GateInv
<1>1. GateInit => GateInv
  BY GateAssumption DEF GateInit, GateInv, GateTypes, GateOrder, StraySpools, Stages
<1> QED
  BY <1>1, GateStep, PTL DEF GateSpec

\* However many uploads break off and interleave, the file holds all of one of them
\* and never one that the publisher check set aside.
THEOREM FilesAreWhole == GateSpec => []FileIsWhole
<1>1. GateInv => FileIsWhole
  BY DEF GateInv, GateTypes, GateOrder, FileIsWhole
<1> QED
  BY <1>1, GateInvariant, PTL

\* An interrupted stream leaves no temporary file behind.
THEOREM OnlyWholeSpoolsStray == GateSpec => []StraySpools
<1>1. GateInv => StraySpools
  BY DEF GateInv, GateOrder
<1> QED
  BY <1>1, GateInvariant, PTL

-----------------------------------------------------------------------------
(* The key cache *)

\* Every step keeps the key cache honest.
LEMMA KeyStep == KeyInv /\ [GateNext]_gateVars => KeyInv'
<1> SUFFICES ASSUME KeyInv, [GateNext]_gateVars
             PROVE  KeyInv'
  OBVIOUS
<1> USE GateAssumption DEF KeyInv, Honest, Stages, GotoU, InStageU, worldU, verifierU
<1>1. ASSUME NEW r \in Uploads, FetchStarts(r)
      PROVE  KeyInv'
  <2>1. [at |-> clockU, key |-> NoKeyU] \in Fetch
    BY DEF Fetch
  <2>2. /\ fetching' = [fetching EXCEPT ![r] = [at |-> clockU, key |-> NoKeyU]]
        /\ stageU' = [stageU EXCEPT ![r] = "fetch"]
        /\ UNCHANGED <<keyCache, vaultKey, retiredAt, clockU>>
    BY <1>1 DEF FetchStarts
  <2> QED
    BY <2>1, <2>2
<1>2. ASSUME NEW r \in Uploads, VaultAnswers(r)
      PROVE  KeyInv'
  <2> DEFINE e == [fetching[r] EXCEPT !.key = vaultKey]
  <2>1. fetching[r] \in Fetch /\ Honest(fetching[r])
    BY <1>2 DEF VaultAnswers
  <2>2. e \in Fetch /\ e.at = fetching[r].at /\ e.key = vaultKey
    BY <2>1 DEF Fetch
  <2>3. e.at <= MaxClockU /\ retiredAt[vaultKey] = MaxClockU + 1 /\ e.at \in Nat
    BY <2>1, <2>2 DEF Fetch
  <2>4. Honest(e)
    BY <2>1, <2>2, <2>3
  <2>5. /\ fetching' = [fetching EXCEPT ![r] = e]
        /\ UNCHANGED <<stageU, keyCache, vaultKey, retiredAt, clockU>>
    BY <1>2 DEF VaultAnswers
  <2> HIDE DEF e
  <2> QED
    BY <2>2, <2>4, <2>5
<1>3. ASSUME NEW r \in Uploads, KeyArrives(r)
      PROVE  KeyInv'
  <2>1. fetching[r] \in Fetch /\ Honest(fetching[r]) /\ fetching[r].key # NoKeyU
    BY <1>3 DEF KeyArrives
  <2>2. /\ keyCache' \in {fetching[r], keyCache}
        /\ stageU' \in {[stageU EXCEPT ![r] = "signed"], [stageU EXCEPT ![r] = "quarantined"]}
        /\ UNCHANGED <<fetching, vaultKey, retiredAt, clockU>>
    BY <1>3 DEF KeyArrives, CacheEntry, Quarantined
  <2>3. keyCache' = NoKeyU \/ (keyCache' \in Fetch /\ Honest(keyCache)' /\ keyCache'.key # NoKeyU)
    BY <2>1, <2>2
  <2>4. /\ stageU' \in [Uploads -> Stages]
        /\ \A q \in Uploads : stageU'[q] = "fetch" => stageU[q] = "fetch"
    BY <2>2
  <2>5. \A q \in Uploads : Honest(fetching[q])' <=> Honest(fetching[q])
    BY <2>2
  <2> HIDE DEF Honest, Stages
  <2> QED
    BY <2>2, <2>3, <2>4, <2>5
<1>4. CASE RotateKey
  <2>1. /\ vaultKey' = vaultKey + 1 /\ vaultKey' \in 1..MaxKeys
        /\ retiredAt' = [retiredAt EXCEPT ![vaultKey] = clockU]
        /\ UNCHANGED <<stageU, fetching, keyCache, clockU>>
    BY <1>4 DEF RotateKey
  <2>2. ASSUME NEW e \in Fetch, Honest(e)
        PROVE  Honest(e)'
    BY <2>1, <2>2 DEF Fetch
  <2>3. retiredAt' \in [1..MaxKeys -> Nat]
    BY <2>1
  <2>4. \A k \in vaultKey'..MaxKeys : retiredAt'[k] = MaxClockU + 1
    BY <2>1
  <2>5. \A r \in Uploads : stageU'[r] = "fetch" => fetching'[r] \in Fetch /\ Honest(fetching[r])'
    BY <2>1, <2>2
  <2>6. keyCache' = NoKeyU \/ (keyCache' \in Fetch /\ Honest(keyCache)' /\ keyCache'.key # NoKeyU)
    BY <2>1, <2>2
  <2> HIDE DEF Honest
  <2> QED
    BY <2>1, <2>3, <2>4, <2>5, <2>6
<1>5. CASE HoursPass
  <2>1. /\ clockU' = clockU + 1 /\ clockU' \in 0..MaxClockU
        /\ UNCHANGED <<stageU, fetching, keyCache, vaultKey, retiredAt>>
    BY <1>5 DEF HoursPass
  <2>2. ASSUME NEW e \in Fetch, Honest(e)
        PROVE  Honest(e)'
    BY <2>1, <2>2 DEF Fetch
  <2> QED
    BY <2>1, <2>2
<1>6. ASSUME NEW r \in Uploads,
             \/ \E k \in 0..MaxKeys, c \in 1..MaxCounter : OpenUpload(r, k, c)
             \/ SpoolChunk(r) \/ StreamBreaks(r) \/ StreamEnds(r) \/ NothingToVerify(r)
             \/ KeyCached(r) \/ FetchFails(r) \/ CheckCounter(r) \/ AdvanceCounter(r)
             \/ QuotaRefuses(r) \/ CommitUpload(r)
      PROVE  KeyInv'
  <2>1. \/ UNCHANGED stageU
        \/ \E s \in Stages \ {"fetch"} : stageU' = [stageU EXCEPT ![r] = s]
    BY <1>6 DEF OpenUpload, SpoolChunk, StreamBreaks, StreamEnds, NothingToVerify, KeyCached,
       FetchFails, CheckCounter, AdvanceCounter, QuotaRefuses, CommitUpload, Quarantined
  <2>2. UNCHANGED <<fetching, keyCache, vaultKey, retiredAt, clockU>>
    BY <1>6 DEF OpenUpload, SpoolChunk, StreamBreaks, StreamEnds, NothingToVerify, KeyCached,
       FetchFails, CheckCounter, AdvanceCounter, QuotaRefuses, CommitUpload
  <2> QED
    BY <2>1, <2>2
<1>7. CASE AdmissionChanges \/ UNCHANGED gateVars
  BY <1>7 DEF AdmissionChanges, gateVars
<1> QED
  BY <1>1, <1>2, <1>3, <1>4, <1>5, <1>6, <1>7 DEF GateNext

\* A key in the cache was the Vault's key when its age began to count, whatever the
\* order in which slow fetches write it and however often keys rotate.
THEOREM CachedKeysWereCurrent == GateSpec => []CachedKeyWasCurrent
<1>1. GateInit => KeyInv
  BY GateAssumption DEF GateInit, KeyInv, Stages
<1>2. KeyInv => CachedKeyWasCurrent
  BY DEF KeyInv, Honest, CachedKeyWasCurrent
<1> QED
  BY <1>1, <1>2, KeyStep, PTL DEF GateSpec

\* The three together, as the runs check them: delta_upload takes an upload over as
\* a whole or not at all, under a key that was current, and cleans up after itself.
THEOREM GateIsSound == GateSpec => []GateSound
BY FilesAreWhole, OnlyWholeSpoolsStray, CachedKeysWereCurrent, PTL DEF GateSound

-----------------------------------------------------------------------------
(* Sharing and organisations *)

\* What AccessSound rests on: an acceptance under way is of an invitation that is
\* there; from the redeeming statement on the row names the account, and a removal
\* that the acceptance will undo is not recorded as one.
SharingTypes ==
  /\ invite \in [Invites -> Invitation \cup {Blank}]
  /\ members \in [Homes \X People -> ShareRoles \cup {Blank}]
  /\ accepting \in [People -> Acceptance \cup {Blank}]
  /\ granted \subseteq Invites \X People /\ failed \subseteq Invites
  /\ expelled \subseteq Homes \X People

AcceptanceInv ==
  /\ \A u \in People : accepting[u] # Blank => FoundInvite(accepting[u].token)
  /\ \A u \in People : Joining(u) =>
       /\ invite[accepting[u].token].redeemed = u
       /\ <<invite[accepting[u].token].home, u>> \notin expelled
  /\ \A g \in granted : FoundInvite(g[1]) /\ invite[g[1]].redeemed = g[2]

SharingInv == SharingTypes /\ AcceptanceInv /\ RedeemedAdmits /\ RemovedStaysOut

-----------------------------------------------------------------------------

\* Inviting, accepting and removing keep what an acceptance under way has read.
LEMMA InvitesStep == SharingInv /\ [SharingNext]_sharingVars => SharingInv'
<1> SUFFICES ASSUME SharingInv, [SharingNext]_sharingVars
             PROVE  SharingInv'
  OBVIOUS
<1> USE SharingAssumption DEF SharingInv, SharingTypes, AcceptanceInv, RedeemedAdmits,
        RemovedStaysOut, FoundInvite, Joining, Invitation, Acceptance, ShareRoles
<1>1. ASSUME NEW u \in People, NEW i \in Invites, NEW role \in ShareRoles,
             CreateInvite(u, i, role)
      PROVE  SharingInv'
  BY <1>1 DEF CreateInvite, InsertInvite
<1>2. ASSUME NEW u \in People, NEW i \in Invites, AcceptRead(u, i)
      PROVE  SharingInv'
  BY <1>2 DEF AcceptRead
<1>3. ASSUME NEW u \in People, AcceptRedeem(u)
      PROVE  SharingInv'
  <2>1. CASE Unredeemed(accepting[u].token)
    <3> DEFINE i == accepting[u].token
    <3>1. /\ i \in Invites /\ invite[i] \in Invitation /\ invite[i].redeemed = Blank
          /\ invite' = [invite EXCEPT ![i].redeemed = u]
          /\ accepting' = [accepting EXCEPT ![u] = [token |-> i, at |-> "grant"]]
          /\ expelled' = expelled \ {<<invite[i].home, u>>}
          /\ UNCHANGED <<members, granted, failed>>
      BY <1>3, <2>1 DEF AcceptRedeem, Unredeemed
    <3>2. /\ invite'[i] = [invite[i] EXCEPT !.redeemed = u] /\ invite'[i] \in Invitation
          /\ \A j \in Invites \ {i} : invite'[j] = invite[j]
      BY <3>1
    <3>3. SharingTypes'
      BY <3>1, <3>2
    <3>4. AcceptanceInv'
      BY <3>1, <3>2
    <3>5. RedeemedAdmits'
      BY <3>1, <3>2
    <3> QED
      BY <3>1, <3>3, <3>4, <3>5
  <2>2. CASE ~Unredeemed(accepting[u].token)
    BY <1>3, <2>2 DEF AcceptRedeem, Unredeemed
  <2> QED
    BY <2>1, <2>2
<1>4. ASSUME NEW u \in People, AcceptGrant(u)
      PROVE  SharingInv'
  BY <1>4 DEF AcceptGrant, UpsertMember
<1>5. ASSUME NEW u \in People, AcceptFails(u)
      PROVE  SharingInv'
  BY <1>5 DEF AcceptFails
<1>6. ASSUME NEW u \in People, NEW who \in People, RemoveMember(u, who)
      PROVE  SharingInv'
  BY <1>6 DEF RemoveMember, RemoveRow
<1>7. ASSUME NEW i \in Invites, Expire(i)
      PROVE  SharingInv'
  <2>1. /\ invite[i] \in Invitation /\ invite' = [invite EXCEPT ![i].expired = TRUE]
        /\ UNCHANGED <<members, accepting, granted, failed, expelled>>
    BY <1>7 DEF Expire
  <2>2. /\ invite'[i] = [invite[i] EXCEPT !.expired = TRUE] /\ invite'[i] \in Invitation
        /\ \A j \in Invites \ {i} : invite'[j] = invite[j]
    BY <2>1
  <2>3. \A j \in Invites : /\ FoundInvite(j)' = FoundInvite(j)
                           /\ FoundInvite(j) => /\ invite'[j].redeemed = invite[j].redeemed
                                               /\ invite'[j].home = invite[j].home
    BY <2>1, <2>2
  <2>4. SharingTypes'
    BY <2>1, <2>2
  <2>5. AcceptanceInv'
    <3> HIDE DEF FoundInvite
    <3>1. \A g \in granted : g[1] \in Invites
      OBVIOUS
    <3>2. \A v \in People : accepting[v] # Blank => accepting[v].token \in Invites
      OBVIOUS
    <3> QED
      BY <2>1, <2>3, <3>1, <3>2
  <2>6. RedeemedAdmits'
    BY <2>1, <2>3
  <2> QED
    BY <2>1, <2>4, <2>5, <2>6
<1>8. ASSUME NEW t \in Homes, RegisterTenantVault(t) \/ PurgeTenantVault(t)
      PROVE  SharingInv'
  BY <1>8 DEF RegisterTenantVault, PurgeTenantVault
<1>9. CASE UNCHANGED sharingVars
  BY <1>9 DEF sharingVars
<1> HIDE DEF SharingInv
<1> QED
  BY <1>1, <1>2, <1>3, <1>4, <1>5, <1>6, <1>7, <1>8, <1>9 DEF SharingNext

\* However acceptances and removals interleave, an invitation admits
\* at most the one who redeemed it, and whoever was removed stays out
\* (accept_invite, remove_member).
THEOREM InvitesHold == SharingSpec => [](InviteAdmitsOne /\ RedeemedAdmits /\ RemovedStaysOut)
<1>1. SharingInit => SharingInv
  BY SharingAssumption DEF SharingInit, SharingInv, SharingTypes, AcceptanceInv, RedeemedAdmits,
     RemovedStaysOut, FoundInvite, Joining
<1>2. SharingInv => InviteAdmitsOne /\ RedeemedAdmits /\ RemovedStaysOut
  <2> SUFFICES ASSUME SharingInv, NEW g \in granted, NEW h \in granted, g[1] = h[1]
               PROVE  g = h
    BY DEF SharingInv, InviteAdmitsOne
  <2>1. g \in Invites \X People /\ h \in Invites \X People
    BY DEF SharingInv, SharingTypes
  <2>2. g[2] = h[2]
    BY DEF SharingInv, AcceptanceInv
  <2> QED
    BY <2>1, <2>2
<1> QED
  BY <1>1, <1>2, InvitesStep, PTL DEF SharingSpec

-----------------------------------------------------------------------------
OrgTypes ==
  /\ orgs \in [Slugs -> OrgUsers \cup {Unset}]
  /\ orgRole \in [Slugs \X OrgUsers -> OrgRoles \cup {Unset}]
  /\ founding \in [OrgUsers -> Founding \cup {Unset}]
  /\ adding \in [OrgUsers -> [slug : Slugs, who : OrgUsers, role : OrgRoles \ {"owner"}]
                              \cup {Unset}]
  /\ ownerless \subseteq Slugs

Memberless(s) == \A u \in OrgUsers : orgRole[<<s, u>>] = Unset
OwnedByFounder(s) ==
  /\ orgs[s] # Unset /\ orgRole[<<s, orgs[s]>>] = "owner"
  /\ \A u \in OrgUsers : orgRole[<<s, u>>] = "owner" => u = orgs[s]

\* Only a member adds members, so an organisation without its owner has none.
FoundingInv ==
  /\ \A s \in Slugs : Memberless(s) \/ OwnedByFounder(s)
  /\ \A s \in Slugs : orgs[s] # Unset /\ Memberless(s) =>
       s \in ownerless \/ founding[orgs[s]] = [slug |-> s, at |-> "owner"]
  /\ \A u \in OrgUsers : founding[u] # Unset /\ founding[u].at = "owner" =>
       orgs[founding[u].slug] = u /\ Memberless(founding[u].slug)
  /\ \A u \in OrgUsers : adding[u] # Unset => ~Memberless(adding[u].slug)

OrgInv == OrgTypes /\ FoundingInv

\* Creating an organisation and adding members keep its one owner.
LEMMA OrgsStep == OrgInv /\ [OrgsNext]_orgVars => OrgInv'
<1> SUFFICES ASSUME OrgInv, [OrgsNext]_orgVars
             PROVE  OrgInv'
  OBVIOUS
<1> USE OrgsAssumption DEF OrgInv, OrgTypes, FoundingInv, Memberless, OwnedByFounder, Founding,
        OrgRoles
<1>1. ASSUME NEW u \in OrgUsers, NEW s \in Slugs, CreateOrg(u, s)
      PROVE  OrgInv'
  BY <1>1 DEF CreateOrg
<1>2. ASSUME NEW u \in OrgUsers, NEW s \in Slugs, NEW who \in OrgUsers, NEW role \in OrgRoles,
             AddMember(u, s, who, role)
      PROVE  OrgInv'
  BY <1>2 DEF AddMember, Assignable, OrgMemberRole
<1>3. ASSUME NEW u \in OrgUsers, InsertOrg(u)
      PROVE  OrgInv'
  <2>1. CASE SlugUnique(founding[u].slug)
    <3> DEFINE s == founding[u].slug
    <3>1. /\ s \in Slugs /\ orgs[s] = Unset /\ orgs' = [orgs EXCEPT ![s] = u]
          /\ founding' = [founding EXCEPT ![u] = [slug |-> s, at |-> "owner"]]
          /\ UNCHANGED <<orgRole, adding, ownerless>>
      BY <1>3, <2>1 DEF InsertOrg, SlugUnique
    <3>2. Memberless(s)
      BY <3>1
    <3> QED
      BY <3>1, <3>2
  <2>2. CASE ~SlugUnique(founding[u].slug)
    BY <1>3, <2>2 DEF InsertOrg, SlugUnique
  <2> QED
    BY <2>1, <2>2
<1>4. ASSUME NEW u \in OrgUsers, InsertOwner(u)
      PROVE  OrgInv'
  BY <1>4 DEF InsertOwner
<1>5. ASSUME NEW u \in OrgUsers, FoundingFails(u)
      PROVE  OrgInv'
  BY <1>5 DEF FoundingFails
<1>6. ASSUME NEW u \in OrgUsers, InsertMember(u)
      PROVE  OrgInv'
  BY <1>6 DEF InsertMember, Enters
<1>7. ASSUME NEW u \in OrgUsers, NEW s \in Slugs \cup {Unset}, GetOrgContext(u) \/ PutOrgContext(u, s)
      PROVE  OrgInv'
  BY <1>7 DEF GetOrgContext, PutOrgContext
<1>8. CASE UNCHANGED orgVars
  BY <1>8 DEF orgVars
<1> HIDE DEF OrgInv
<1> QED
  BY <1>1, <1>2, <1>3, <1>4, <1>5, <1>6, <1>7, <1>8 DEF OrgsNext

\* An organisation has one owner, the account that created it, or is still being
\* founded, or could not be (create_org, add_member).
THEOREM OwnerHolds == OrgsSpec => []OneOwner
<1>1. OrgsInit => OrgInv
  BY OrgsAssumption DEF OrgsInit, OrgInv, OrgTypes, FoundingInv, Memberless
<1>2. OrgInv => OneOwner
  <2> SUFFICES ASSUME OrgInv, NEW s \in Slugs, NEW owners,
                      owners = {u \in OrgUsers : orgRole[<<s, u>>] = "owner"}
               PROVE  IF orgs[s] = Unset THEN Memberless(s)
                      ELSE \/ owners = {orgs[s]}
                           \/ /\ owners = {}
                              /\ \/ s \in ownerless /\ Memberless(s)
                                 \/ founding[orgs[s]] = [slug |-> s, at |-> "owner"]
    BY DEF OneOwner, Memberless
  <2>1. CASE Memberless(s)
    BY <2>1, OrgsAssumption DEF OrgInv, FoundingInv, Memberless, OrgRoles
  <2>2. CASE OwnedByFounder(s)
    BY <2>2 DEF OrgInv, OrgTypes, OwnedByFounder
  <2> QED
    BY <2>1, <2>2 DEF OrgInv, FoundingInv
<1> QED
  BY <1>1, <1>2, OrgsStep, PTL DEF OrgsSpec

\* Whoever has access to a vault or an organisation was admitted to it, for any
\* number of people, invitations and organisations.
THEOREM AccessHolds == SharingSpec /\ OrgsSpec => []AccessSound
BY InvitesHold, OwnerHolds, PTL DEF AccessSound

-----------------------------------------------------------------------------
(* Accounts *)

\* A row of the users table, and the calls that are under way.
Account == [id : UserIds, email : Emails, tenant : Tenants, oauth : BOOLEAN, verified : BOOLEAN]
Under(c) == calls[c] # Nobody
Erases(c) == calls[c] # Nobody /\ calls[c].op = "delete"

CallTypes ==
  /\ calls \in [Callers -> CallA \cup {Nobody}]
  /\ \A u \in users : u.id \in drawn
  /\ \A c \in Callers : Under(c) => calls[c].user \in drawn
  /\ \A c \in Callers : Under(c) /\ calls[c].op # "delete" => calls[c].at \notin {"telemetry", "user", "count", "purge"}

\* Another request of a user whose erasure is under way is known to have crossed it.
Crossings ==
  \A c, d \in Callers : c # d /\ Under(c) /\ Erases(d) /\ calls[c].user = calls[d].user
                        => calls[c].user \in crossed

\* A request's user exists, unless an erasure took the row.
Backed ==
  \A c \in Callers : Under(c) =>
    \/ Exists(calls[c].user) \/ calls[c].user \in crossed
    \/ Erases(c) /\ calls[c].at \in {"count", "purge"}

\* What an erasure has removed stays removed.
Removed ==
  \A c \in Callers : Erases(c) /\ calls[c].user \notin crossed =>
    /\ \A x \in consents : x.user # calls[c].user
    /\ calls[c].at # "telemetry" => calls[c].user \notin telemetry

\* The tenant of the request is that of the row; a purge is for an empty tenant.
OwnTenant ==
  \A c \in Callers : Erases(c) =>
    /\ \A u \in users : u.id = calls[c].user => u.tenant = calls[c].tenant
    /\ calls[c].at = "purge" => Members(calls[c].tenant) = {} \/ calls[c].tenant \in joined

Guarded == Crossings /\ Backed /\ Removed /\ OwnTenant /\ ErasureComplete /\ NoOrphanTenant

AccountsInv == AccountsTypeOK /\ CallTypes /\ Guarded
-----------------------------------------------------------------------------

\* A call that goes on changes its step and nothing else.
LEMMA GoesCall ==
  ASSUME NEW c \in Callers, NEW step \in {"terms", "privacy", "user", "count", "purge"},
         calls \in [Callers -> CallA \cup {Nobody}], Under(c), Goes(c, step)
  PROVE  /\ calls' \in [Callers -> CallA \cup {Nobody}] /\ Under(c)'
         /\ calls'[c].op = calls[c].op /\ calls'[c].user = calls[c].user
         /\ calls'[c].tenant = calls[c].tenant /\ calls'[c].at = step
         /\ \A d \in Callers \ {c} : calls'[d] = calls[d]
<1>1. calls[c] \in CallA /\ calls'[c] = [calls[c] EXCEPT !.at = step]
  BY DEF Under, Goes
<1>2. /\ calls'[c] \in CallA /\ calls'[c].at = step /\ calls'[c].op = calls[c].op
      /\ calls'[c].user = calls[c].user /\ calls'[c].tenant = calls[c].tenant
  BY <1>1 DEF CallA
<1>3. calls'[c] # Nobody
  BY <1>2, AccountsAssumption
<1>4. calls' \in [Callers -> CallA \cup {Nobody}] /\ \A d \in Callers \ {c} : calls'[d] = calls[d]
  BY <1>2 DEF Goes
<1> QED
  BY <1>2, <1>3, <1>4 DEF Under

\* A call that ends leaves the other calls alone.
LEMMA EndsCall ==
  ASSUME NEW c \in Callers, calls \in [Callers -> CallA \cup {Nobody}], Ends(c)
  PROVE  /\ calls' \in [Callers -> CallA \cup {Nobody}] /\ ~Under(c)'
         /\ \A d \in Callers \ {c} : calls'[d] = calls[d]
  BY DEF Ends, Under

\* A call that starts leaves the other calls alone.
LEMMA StartsCall ==
  ASSUME NEW c \in Callers, NEW r \in CallA, calls \in [Callers -> CallA \cup {Nobody}],
         calls' = [calls EXCEPT ![c] = r]
  PROVE  /\ calls' \in [Callers -> CallA \cup {Nobody}] /\ Under(c)' /\ calls'[c] = r
         /\ \A d \in Callers \ {c} : calls'[d] = calls[d]
  BY AccountsAssumption DEF Under

\* A token resolves to a row of the users' table.
LEMMA ResolveType == ASSUME AccountsTypeOK, NEW tok, NEW u \in Resolve(tok)
                     PROVE  u \in users /\ u \in Account /\ u.id \in UserIds /\ u.email \in Emails /\ u.tenant \in Tenants
<1>1. u \in users
  BY DEF Resolve, ById, ByEmail
<1> QED
  BY <1>1 DEF AccountsTypeOK, Account

\* Every step keeps the types of the rows and of the calls under way.
LEMMA AccountsTypeStep == AccountsInv /\ [AccountsNext]_accountVars => AccountsTypeOK' /\ CallTypes'
<1> SUFFICES ASSUME AccountsInv, [AccountsNext]_accountVars
             PROVE  AccountsTypeOK' /\ CallTypes'
  OBVIOUS
<1> USE AccountsAssumption DEF AccountsInv
<1>0. /\ calls \in [Callers -> CallA \cup {Nobody}]
      /\ \A c \in Callers : calls[c] # Nobody => calls[c] \in CallA
  BY DEF CallTypes
<1>1. ASSUME NEW c \in Callers, NEW id \in UserIds, NEW e \in Emails, NEW t \in Tenants, NEW o \in BOOLEAN,
             CreateAccount(c, id, e, t, o)
      PROVE  AccountsTypeOK' /\ CallTypes'
  <2> DEFINE r == [op |-> IF o THEN "oauth" ELSE "signup", at |-> "plan", user |-> id, email |-> e, tenant |-> t]
             a == [id |-> id, email |-> e, tenant |-> t, oauth |-> o, verified |-> o]
  <2>1. r \in CallA /\ r.user = id /\ r.at = "plan"
    BY DEF CallA
  <2>2. calls' \in [Callers -> CallA \cup {Nobody}] /\ Under(c)' /\ calls'[c] = r
        /\ \A d \in Callers \ {c} : calls'[d] = calls[d]
    BY <1>0, <1>1, <2>1, StartsCall DEF CreateAccount
  <2>3. a \in Account /\ a.id = id /\ a.email = e
    BY DEF Account
  <2>4. /\ users' = users \cup {a} /\ drawn' = drawn \cup {id} /\ id \notin drawn
        /\ EmailFree(e) /\ started' \in 0..MaxCalls
        /\ UNCHANGED <<plan, consents, preferences, vaults, tokens, letters, crossed, orphaned>>
        /\ joined' \subseteq joined \cup {t}
    BY <1>1 DEF CreateAccount, UserAccount, Begins, AccountsTypeOK
  <2> HIDE DEF r, a
  <2>5. /\ users' \subseteq Account /\ \A u, v \in users' : u.email = v.email \/ u.id = v.id => u = v
        /\ \A u \in users' : u.id \in drawn'
    BY <2>3, <2>4 DEF AccountsTypeOK, CallTypes, EmailFree, Account
  <2>6. CallTypes'
    BY <2>1, <2>2, <2>4, <2>5 DEF CallTypes, Under
  <2>7. \A d \in Callers : calls'[d] = Nobody \/ calls'[d].user \in UserIds
    BY <2>2 DEF CallA
  <2>8. AccountsTypeOK'
    BY <2>4, <2>5, <2>7 DEF AccountsTypeOK, Account, preferences
  <2> QED
    BY <2>6, <2>8
<1>2. ASSUME NEW c \in Callers, BootstrapPlan(c) \/ RecordTerms(c)
      PROVE  AccountsTypeOK' /\ CallTypes'
  <2>2. PICK step \in {"terms", "privacy"} : Goes(c, step)
    BY <1>2 DEF BootstrapPlan, RecordTerms
  <2>3. Under(c) /\ calls[c] \in CallA /\ calls[c].op # "delete"
    BY <1>0, <1>2 DEF BootstrapPlan, RecordTerms, Signing, At, Under
  <2>4. /\ calls' \in [Callers -> CallA \cup {Nobody}] /\ Under(c)'
        /\ calls'[c].op = calls[c].op /\ calls'[c].user = calls[c].user
        /\ calls'[c].at = step /\ \A d \in Callers \ {c} : calls'[d] = calls[d]
    BY <1>0, <2>2, <2>3, GoesCall
  <2>5. UNCHANGED <<users, preferences, vaults, tokens, letters, crossed, joined, orphaned, drawn, started>>
    BY <1>2 DEF BootstrapPlan, RecordTerms
  <2>6. plan' \in [Tenants -> {"none", "free"}]
    BY <1>2, <2>3 DEF BootstrapPlan, RecordTerms, SetPlanTier, AccountsTypeOK, CallA
  <2>7. consents' \subseteq [user : UserIds, tenant : Tenants, kind : {"terms", "privacy", "analytics"}]
    BY <1>2, <2>3 DEF BootstrapPlan, RecordTerms, RecordConsent, Consent, AccountsTypeOK, CallA
  <2>8. CallTypes'
    BY <2>2, <2>3, <2>4, <2>5 DEF CallTypes, Under
  <2>9. \A d \in Callers : calls'[d] = Nobody \/ calls'[d].user \in UserIds
    BY <2>4 DEF CallA
  <2>10. AccountsTypeOK'
    BY <2>5, <2>6, <2>7, <2>9 DEF AccountsTypeOK, preferences
  <2> QED
    BY <2>8, <2>10
<1>3. ASSUME NEW c \in Callers, RecordPrivacy(c) \/ ConsentFails(c) \/ RecordAnalytics(c) \/ CallFails(c) \/ Purge(c)
      PROVE  AccountsTypeOK' /\ CallTypes'
  <2>1. Ends(c) /\ Under(c) /\ calls[c] \in CallA
    BY <1>0, <1>3 DEF RecordPrivacy, ConsentFails, RecordAnalytics, CallFails, Purge, Welcome, Signing, At, Under
  <2>2. /\ calls' \in [Callers -> CallA \cup {Nobody}] /\ ~Under(c)'
        /\ \A d \in Callers \ {c} : calls'[d] = calls[d]
    BY <1>0, <2>1, EndsCall
  <2>3. UNCHANGED <<users, preferences, crossed, joined, drawn, started>>
    BY <1>3 DEF RecordPrivacy, ConsentFails, RecordAnalytics, CallFails, Purge
  <2>4. calls[c].user \in UserIds /\ calls[c].email \in Emails /\ calls[c].tenant \in Tenants
    BY <2>1 DEF CallA
  <2>5. /\ tokens' \subseteq [sub : UserIds, email : Emails] /\ letters' \subseteq UserIds
        /\ consents' \subseteq [user : UserIds, tenant : Tenants, kind : {"terms", "privacy", "analytics"}]
    BY <1>3, <2>4 DEF RecordPrivacy, ConsentFails, RecordAnalytics, CallFails, Purge, Welcome, RecordConsent,
       Consent, PurgeTenantMetadata, AccountsTypeOK
  <2>6. plan' \in [Tenants -> {"none", "free"}] /\ vaults' \subseteq Tenants /\ orphaned' \subseteq Tenants
    BY <1>3, <2>4 DEF RecordPrivacy, ConsentFails, RecordAnalytics, CallFails, Purge, PurgeTenantMetadata, AccountsTypeOK
  <2>8. CallTypes'
    BY <2>2, <2>3 DEF CallTypes, Under
  <2>9. \A d \in Callers : calls'[d] = Nobody \/ calls'[d].user \in UserIds
    BY <2>2 DEF CallA
  <2>10. AccountsTypeOK'
    BY <2>3, <2>5, <2>6, <2>9 DEF AccountsTypeOK, preferences
  <2> QED
    BY <2>8, <2>10
<1>4. ASSUME NEW c \in Callers, NEW tok \in tokens, PutTelemetry(c, tok) \/ DeleteAccount(c, tok)
      PROVE  AccountsTypeOK' /\ CallTypes'
  <2>1. PICK u \in Resolve(tok), op \in {"telemetry", "delete"}, at \in {"consent", "telemetry"} :
          /\ calls' = [calls EXCEPT ![c] = [op |-> op, at |-> at, user |-> u.id,
                                            email |-> u.email, tenant |-> u.tenant]]
          /\ op # "delete" => at = "consent"
          /\ telemetry' \subseteq telemetry \cup {u.id} /\ crossed' \subseteq crossed \cup {u.id}
          /\ consents' \subseteq consents
    BY <1>4 DEF PutTelemetry, DeleteAccount, UpsertTelemetry, DeleteConsentEvents, preferences
  <2>2. u \in users /\ u.id \in UserIds /\ u.email \in Emails /\ u.tenant \in Tenants
    BY ResolveType
  <2> DEFINE r == [op |-> op, at |-> at, user |-> u.id, email |-> u.email, tenant |-> u.tenant]
  <2>3. r \in CallA /\ r.op = op /\ r.user = u.id /\ r.at = at
    BY <2>2 DEF CallA
  <2>4. calls' \in [Callers -> CallA \cup {Nobody}] /\ Under(c)' /\ calls'[c] = r
        /\ \A d \in Callers \ {c} : calls'[d] = calls[d]
    BY <1>0, <2>1, <2>3, StartsCall
  <2> HIDE DEF r
  <2>5. /\ UNCHANGED <<users, plan, dismissed, referenced, vaults, tokens, letters, joined, orphaned, drawn>>
        /\ started' \in 0..MaxCalls
    BY <1>4 DEF PutTelemetry, DeleteAccount, Begins, preferences, AccountsTypeOK
  <2>6. CallTypes'
    BY <2>1, <2>2, <2>3, <2>4, <2>5 DEF CallTypes, Under
  <2>7. \A d \in Callers : calls'[d] = Nobody \/ calls'[d].user \in UserIds
    BY <2>4 DEF CallA
  <2>8. AccountsTypeOK'
    BY <2>1, <2>2, <2>5, <2>7 DEF AccountsTypeOK
  <2> QED
    BY <2>6, <2>8
<1>5. ASSUME NEW c \in Callers, NEW tok \in tokens, PutOnboarding(c, tok) \/ PutReference(c, tok)
      PROVE  AccountsTypeOK' /\ CallTypes'
  <2>1. /\ UNCHANGED <<users, plan, consents, telemetry, vaults, tokens, letters, calls, crossed, joined, orphaned, drawn>>
        /\ started' \in 0..MaxCalls
    BY <1>5 DEF PutOnboarding, PutReference, Begins, AccountsTypeOK
  <2>2. dismissed' \subseteq UserIds /\ referenced' \subseteq UserIds
    BY <1>5, ResolveType DEF PutOnboarding, PutReference, UpsertOnboarding, ReplaceSyncIncludes, AccountsTypeOK
  <2> QED
    BY <2>1, <2>2 DEF AccountsTypeOK, CallTypes, Under
<1>6. ASSUME NEW c \in Callers, DeleteTelemetry(c) \/ DeleteUser(c) \/ CountUsers(c)
      PROVE  AccountsTypeOK' /\ CallTypes'
  <2>1. Under(c) /\ calls[c] \in CallA /\ calls[c].op = "delete"
    BY <1>0, <1>6 DEF DeleteTelemetry, DeleteUser, CountUsers, At, Under
  <2>2. Ends(c) \/ \E step \in {"user", "count", "purge"} : Goes(c, step)
    BY <1>6 DEF DeleteTelemetry, DeleteUser, CountUsers
  <2>3. /\ calls' \in [Callers -> CallA \cup {Nobody}]
        /\ \A d \in Callers \ {c} : calls'[d] = calls[d]
        /\ Under(c)' => calls'[c].op = "delete" /\ calls'[c].user = calls[c].user
    BY <1>0, <2>1, <2>2, GoesCall, EndsCall
  <2>4. /\ UNCHANGED <<plan, consents, dismissed, referenced, vaults, tokens, letters, crossed, orphaned, drawn, started>>
        /\ telemetry' \subseteq telemetry /\ users' \subseteq users /\ joined' \subseteq joined
    BY <1>6 DEF DeleteTelemetry, DeleteUser, CountUsers, DeleteUserTelemetry, preferences
  <2>5. CallTypes'
    BY <2>1, <2>3, <2>4 DEF CallTypes, Under
  <2>6. \A d \in Callers : calls'[d] = Nobody \/ calls'[d].user \in UserIds
    BY <2>3 DEF CallA
  <2> QED
    BY <2>4, <2>5, <2>6 DEF AccountsTypeOK
<1>7. ASSUME NEW u \in users, Login(u) \/ OauthLogin(u) \/ VerifyEmail(u)
      PROVE  AccountsTypeOK' /\ CallTypes'
  <2>1. /\ UNCHANGED <<plan, consents, telemetry, dismissed, referenced, letters, vaults, calls, crossed, joined, orphaned, drawn, started>>
        /\ tokens' = tokens \cup {[sub |-> u.id, email |-> u.email]}
    BY <1>7 DEF Login, OauthLogin, VerifyEmail, SignsIn, AccessToken, preferences
  <2>2. u \in Account /\ u.id \in UserIds /\ u.email \in Emails
    BY DEF AccountsTypeOK, Account
  <2> DEFINE w == [u EXCEPT !.verified = TRUE]
  <2>3. w \in Account /\ w.id = u.id /\ w.email = u.email
    BY <2>2 DEF Account
  <2>4. users' = users \/ users' = (users \ {u}) \cup {w}
    BY <1>7 DEF Login, OauthLogin, VerifyEmail, SetEmailVerified
  <2> HIDE DEF w
  <2>5. /\ users' \subseteq Account /\ \A x \in users' : x.id \in drawn
        /\ \A x, v \in users' : x.email = v.email \/ x.id = v.id => x = v
    BY <2>2, <2>3, <2>4 DEF AccountsTypeOK, CallTypes, Account
  <2>6. CallTypes'
    BY <2>1, <2>5 DEF CallTypes, Under
  <2> QED
    BY <2>1, <2>2, <2>5, <2>6 DEF AccountsTypeOK, Account
<1>8. ASSUME NEW tok \in tokens, ResendVerification(tok)
      PROVE  AccountsTypeOK' /\ CallTypes'
  BY <1>8, ResolveType DEF ResendVerification, AccountsTypeOK, CallTypes, Under, preferences
<1>9. ASSUME NEW t \in Tenants, RegisterVault(t)
      PROVE  AccountsTypeOK' /\ CallTypes'
  BY <1>9 DEF RegisterVault, AccountsTypeOK, CallTypes, Under, preferences
<1>10. CASE UNCHANGED accountVars
  BY <1>10 DEF accountVars, AccountsTypeOK, CallTypes, Under, preferences
<1> QED
  <2>1. \A e \in Emails : DefaultTenant[e] \in Tenants
    OBVIOUS
  <2>2. ASSUME NEW c \in Callers, NEW id \in UserIds, NEW e \in Emails,
               OauthSignup(c, id, e) \/ \E t \in Tenants : Signup(c, id, e, t)
        PROVE  AccountsTypeOK' /\ CallTypes'
    BY <1>1, <2>1, <2>2 DEF OauthSignup, Signup
  <2> HIDE DEF AccountsInv
  <2> QED
    BY <1>2, <1>3, <1>4, <1>5, <1>6, <1>7, <1>8, <1>9, <1>10, <2>2 DEF AccountsNext

\* Every step keeps what is known of an erasure and of the requests it crosses,
\* and a purge spares a tenant that has members.
LEMMA GuardedStep ==
  AccountsInv /\ [AccountsNext]_accountVars => Guarded' /\ (PurgeSparesMembers \/ UNCHANGED accountVars)
<1> SUFFICES ASSUME AccountsInv, [AccountsNext]_accountVars
             PROVE  Guarded' /\ (PurgeSparesMembers \/ UNCHANGED accountVars)
  OBVIOUS
<1> DEFINE Goal == Guarded' /\ PurgeSparesMembers
<1> USE AccountsAssumption DEF AccountsInv, Guarded
<1>0. /\ calls \in [Callers -> CallA \cup {Nobody}]
      /\ \A c \in Callers : Under(c) => calls[c] \in CallA /\ calls[c].user \in UserIds /\ calls[c].tenant \in Tenants
  BY DEF CallTypes, Under, CallA
<1>1. ASSUME NEW c \in Callers, NEW id \in UserIds, NEW e \in Emails, NEW t \in Tenants, NEW o \in BOOLEAN,
             CreateAccount(c, id, e, t, o)
      PROVE  Goal
  <2> DEFINE r == [op |-> IF o THEN "oauth" ELSE "signup", at |-> "plan", user |-> id, email |-> e, tenant |-> t]
             a == [id |-> id, email |-> e, tenant |-> t, oauth |-> o, verified |-> o]
  <2>1. r \in CallA /\ r.user = id /\ r.at = "plan" /\ r.op # "delete"
    BY DEF CallA
  <2>2. calls' \in [Callers -> CallA \cup {Nobody}] /\ Under(c)' /\ calls'[c] = r /\ ~Under(c)
        /\ \A d \in Callers \ {c} : calls'[d] = calls[d]
    BY <1>0, <1>1, <2>1, StartsCall DEF CreateAccount, Begins, Under
  <2>3. a.id = id /\ a.tenant = t
    OBVIOUS
  <2>4. /\ users' = users \cup {a} /\ id \notin drawn
        /\ UNCHANGED <<consents, telemetry, vaults, crossed, orphaned>>
        /\ joined' = joined \cup ({t} \cap {calls[d].tenant : d \in {x \in Callers : At(x, "delete", "purge")}})
    BY <1>1 DEF CreateAccount, UserAccount, preferences
  <2> HIDE DEF r, a
  <2>5. \A d \in Callers : Erases(d)' = Erases(d) /\ (d # c => Under(d)' = Under(d))
    BY <2>1, <2>2 DEF Erases, Under
  <2>6. /\ \A d \in Callers \ {c} : Under(d) => calls[d].user # id
        /\ \A i : Exists(i)' = (Exists(i) \/ i = id)
        /\ \A u \in Tenants : Members(u)' = IF u = t THEN Members(u) \cup {a} ELSE Members(u)
    BY <2>3, <2>4 DEF CallTypes, Exists, Members
  <2>7. \A i \in UserIds : Erasing(i)' = Erasing(i)
    BY <2>1, <2>2 DEF Erasing, Under
  <2>8. Crossings'
    BY <2>1, <2>2, <2>4, <2>5, <2>6 DEF Crossings, Erases, Under
  <2>9. Backed'
    BY <2>1, <2>2, <2>4, <2>5, <2>6 DEF Backed
  <2>10. Removed'
    BY <2>1, <2>2, <2>4, <2>5 DEF Removed, Erases
  <2>11. OwnTenant'
    <3> SUFFICES ASSUME NEW d \in Callers, Erases(d)'
                 PROVE  /\ \A u \in users' : u.id = calls'[d].user => u.tenant = calls'[d].tenant
                        /\ (calls[d].at = "purge" => Members(calls[d].tenant) = {} \/ calls[d].tenant \in joined)'
      BY Zenon DEF OwnTenant
    <3>0. PICK home : home = calls[d].tenant
      OBVIOUS
    <3>1. d # c /\ calls'[d] = calls[d] /\ Erases(d) /\ Under(d) /\ calls[d].tenant \in Tenants
      BY <1>0, <2>1, <2>2, <2>5 DEF Erases, Under
    <3>2. \A u \in users' : u.id = calls[d].user => u.tenant = calls[d].tenant
      BY <2>3, <2>4, <2>6, <3>1 DEF OwnTenant
    <3>3. ASSUME calls[d].at = "purge"
          PROVE  Members(home)' = {} \/ home \in joined'
      <4>1. At(d, "delete", "purge") /\ home \in Tenants
        BY <3>0, <3>1, <3>3 DEF At, Erases
      <4>2. Members(home) = {} \/ home \in joined
        BY <3>0, <3>1, <3>3 DEF OwnTenant
      <4> QED
        BY <2>4, <2>6, <3>0, <4>1, <4>2
    <3> QED
      BY <3>0, <3>1, <3>2, <3>3
  <2>12. ErasureComplete'
    BY <2>4, <2>6, <2>7 DEF ErasureComplete
  <2>13. NoOrphanTenant'
    <3> SUFFICES ASSUME NEW u \in vaults, Members(u)' = {}, u \notin orphaned
                 PROVE  \E d \in Callers : /\ At(d, "delete", "count")' \/ At(d, "delete", "purge")'
                                           /\ calls'[d].tenant = u
      BY <2>4 DEF NoOrphanTenant
    <3>1. Members(u) = {}
      BY <2>6 DEF AccountsTypeOK
    <3>2. PICK d \in Callers : (At(d, "delete", "count") \/ At(d, "delete", "purge")) /\ calls[d].tenant = u
      BY <3>1 DEF NoOrphanTenant
    <3>3. d # c /\ calls'[d] = calls[d]
      BY <2>2, <3>2 DEF At, Under
    <3> QED
      BY <3>2, <3>3 DEF At
  <2> QED
    BY <2>4, <2>8, <2>9, <2>10, <2>11, <2>12, <2>13 DEF PurgeSparesMembers
<1>2. ASSUME NEW c \in Callers,
             \/ BootstrapPlan(c) \/ RecordTerms(c) \/ RecordPrivacy(c) \/ ConsentFails(c) \/ RecordAnalytics(c)
             \/ CallFails(c) /\ calls[c].op = "telemetry"
      PROVE  Goal
  <2>1. Under(c) /\ calls[c] \in CallA /\ calls[c].op # "delete" /\ ~Erases(c)
    BY <1>0, <1>2 DEF BootstrapPlan, RecordTerms, RecordPrivacy, ConsentFails, RecordAnalytics, CallFails,
       Signing, At, Under, Erases
  <2>2. Ends(c) \/ \E step \in {"terms", "privacy"} : Goes(c, step)
    BY <1>2 DEF BootstrapPlan, RecordTerms, RecordPrivacy, ConsentFails, RecordAnalytics, CallFails, Welcome
  <2>3. /\ \A d \in Callers \ {c} : calls'[d] = calls[d]
        /\ Under(c)' => calls'[c].op = calls[c].op /\ calls'[c].user = calls[c].user
    BY <1>0, <2>1, <2>2, GoesCall, EndsCall
  <2>4. /\ UNCHANGED <<users, telemetry, vaults, crossed, joined>> /\ orphaned \subseteq orphaned'
        /\ \A x \in consents' : x \in consents \/ x.user = calls[c].user
    BY <1>2 DEF BootstrapPlan, RecordTerms, RecordPrivacy, ConsentFails, RecordAnalytics, CallFails,
       RecordConsent, Consent, preferences
  <2>5. \A d \in Callers : Erases(d)' = Erases(d) /\ (Under(d)' => Under(d))
    BY <2>1, <2>3 DEF Erases, Under
  <2>6. \A d \in Callers : Erases(d) => d # c /\ calls'[d] = calls[d]
    BY <2>1, <2>3
  <2>7. (\A i : Exists(i)' = Exists(i)) /\ (\A u : Members(u)' = Members(u)) /\ \A i \in UserIds : Erasing(i)' = Erasing(i)
    <3>1. \A i : Erasing(i) = \E d \in Callers : Erases(d) /\ calls[d].user = i
      BY DEF Erasing, Erases
    <3>2. \A i : Erasing(i)' = \E d \in Callers : Erases(d)' /\ calls'[d].user = i
      BY DEF Erasing, Erases
    <3> QED
      BY <2>4, <2>5, <2>6, <3>1, <3>2 DEF Exists, Members
  <2>8. Crossings'
    BY <2>3, <2>4, <2>5, <2>6 DEF Crossings
  <2>9. Backed'
    BY <2>1, <2>3, <2>4, <2>5, <2>7 DEF Backed, Erases
  <2>10. Removed'
    BY <2>1, <2>4, <2>5, <2>6 DEF Removed, Crossings
  <2>11. OwnTenant'
    BY <2>4, <2>5, <2>6, <2>7 DEF OwnTenant
  <2>12. ErasureComplete'
    BY <1>0, <2>1, <2>4, <2>7 DEF ErasureComplete, Backed
  <2>13. NoOrphanTenant'
    <3>1. \A d \in Callers : At(d, "delete", "count") \/ At(d, "delete", "purge") => calls'[d] = calls[d]
      BY <2>6 DEF At, Erases
    <3> QED
      BY <2>4, <2>7, <3>1 DEF NoOrphanTenant, At
  <2> QED
    BY <2>4, <2>8, <2>9, <2>10, <2>11, <2>12, <2>13 DEF PurgeSparesMembers

<1>3. ASSUME NEW c \in Callers, NEW tok \in tokens, PutTelemetry(c, tok)
      PROVE  Goal
  <2>1. PICK u \in Resolve(tok) :
          /\ calls' = [calls EXCEPT ![c] = [op |-> "telemetry", at |-> "consent", user |-> u.id,
                                            email |-> u.email, tenant |-> u.tenant]]
          /\ telemetry' = telemetry \cup {u.id}
          /\ crossed' = IF Erasing(u.id) THEN crossed \cup {u.id} ELSE crossed
    BY <1>3 DEF PutTelemetry, UpsertTelemetry
  <2>2. u \in users /\ u.id \in UserIds /\ u.email \in Emails /\ u.tenant \in Tenants
    BY ResolveType
  <2> DEFINE r == [op |-> "telemetry", at |-> "consent", user |-> u.id, email |-> u.email, tenant |-> u.tenant]
  <2>3. r \in CallA /\ r.op = "telemetry" /\ r.user = u.id
    BY <2>2 DEF CallA
  <2>4. calls' \in [Callers -> CallA \cup {Nobody}] /\ Under(c)' /\ calls'[c] = r /\ ~Under(c)
        /\ \A d \in Callers \ {c} : calls'[d] = calls[d]
    BY <1>0, <1>3, <2>1, <2>3, StartsCall DEF PutTelemetry, Begins, Under
  <2> HIDE DEF r
  <2>5. UNCHANGED <<users, consents, vaults, joined, orphaned>>
    BY <1>3 DEF PutTelemetry
  <2>6. /\ \A d \in Callers : Erases(d)' = Erases(d) /\ (d # c => Under(d)' = Under(d))
        /\ ~Erases(c)
    BY <2>3, <2>4 DEF Erases, Under
  <2>7. (\A i : Exists(i)' = Exists(i)) /\ (\A t : Members(t)' = Members(t)) /\ Exists(u.id)
    BY <2>2, <2>5 DEF Exists, Members
  <2>8. (\A i : Erasing(i) = \E d \in Callers : Erases(d) /\ calls[d].user = i) /\ \A i \in UserIds : Erasing(i)' = Erasing(i)
    <3>1. \A i : Erasing(i) = \E d \in Callers : Erases(d) /\ calls[d].user = i
      BY DEF Erasing, Erases
    <3>2. \A i : Erasing(i)' = \E d \in Callers : Erases(d)' /\ calls'[d].user = i
      BY DEF Erasing, Erases
    <3> QED
      BY <2>4, <2>6, <3>1, <3>2
  <2>9. crossed \subseteq crossed'
    BY <2>1
  <2>10. Crossings'
    BY <2>1, <2>3, <2>4, <2>6, <2>8, <2>9 DEF Crossings
  <2>11. Backed'
    BY <2>3, <2>4, <2>6, <2>7, <2>9 DEF Backed
  <2>12. Removed'
    <3> SUFFICES ASSUME NEW d \in Callers, Erases(d)', calls'[d].user \notin crossed'
                 PROVE  /\ \A x \in consents' : x.user # calls'[d].user
                        /\ calls'[d].at # "telemetry" => calls'[d].user \notin telemetry'
      BY DEF Removed
    <3>1. d # c /\ Erases(d) /\ calls'[d] = calls[d] /\ calls[d].user \notin crossed
      BY <2>4, <2>6, <2>9
    <3>2. calls[d].user # u.id
      <4>1. calls[d].user = u.id => Erasing(u.id)
        BY <2>8, <3>1
      <4>2. Erasing(u.id) => u.id \in crossed'
        BY <2>1
      <4> QED
        BY <3>1, <4>1, <4>2
    <3> QED
      BY <2>1, <2>5, <3>1, <3>2 DEF Removed
  <2>13. OwnTenant'
    BY <2>4, <2>5, <2>6, <2>7 DEF OwnTenant
  <2>14. ErasureComplete'
    BY <2>1, <2>5, <2>7, <2>8, <2>9 DEF ErasureComplete
  <2>15. NoOrphanTenant'
    <3>1. \A d \in Callers : At(d, "delete", "count") \/ At(d, "delete", "purge") => calls'[d] = calls[d]
      BY <2>4 DEF At, Under
    <3> QED
      BY <2>5, <2>7, <3>1 DEF NoOrphanTenant, At
  <2> QED
    BY <2>5, <2>10, <2>11, <2>12, <2>13, <2>14, <2>15 DEF PurgeSparesMembers
<1>4. ASSUME NEW c \in Callers, NEW tok \in tokens, DeleteAccount(c, tok)
      PROVE  Goal
  <2>1. PICK u \in Resolve(tok) :
          /\ calls' = [calls EXCEPT ![c] = [op |-> "delete", at |-> "telemetry", user |-> u.id,
                                            email |-> u.email, tenant |-> u.tenant]]
          /\ consents' = consents \ ConsentsOf(u.id)
          /\ crossed' = IF Others(c, u.id) THEN crossed \cup {u.id} ELSE crossed
    BY <1>4 DEF DeleteAccount, DeleteConsentEvents
  <2>2. u \in users /\ u.id \in UserIds /\ u.email \in Emails /\ u.tenant \in Tenants
    BY ResolveType
  <2> DEFINE r == [op |-> "delete", at |-> "telemetry", user |-> u.id, email |-> u.email, tenant |-> u.tenant]
  <2>3. r \in CallA /\ r.op = "delete" /\ r.user = u.id /\ r.at = "telemetry" /\ r.tenant = u.tenant
    BY <2>2 DEF CallA
  <2>4. calls' \in [Callers -> CallA \cup {Nobody}] /\ Under(c)' /\ calls'[c] = r /\ ~Under(c)
        /\ \A d \in Callers \ {c} : calls'[d] = calls[d]
    BY <1>0, <1>4, <2>1, <2>3, StartsCall DEF DeleteAccount, Begins, Under
  <2> HIDE DEF r
  <2>5. UNCHANGED <<users, telemetry, vaults, joined, orphaned>>
    BY <1>4 DEF DeleteAccount, preferences
  <2>6. \A d \in Callers \ {c} : Erases(d)' = Erases(d) /\ Under(d)' = Under(d)
    BY <2>4 DEF Erases, Under
  <2>7. (\A i : Exists(i)' = Exists(i)) /\ (\A t : Members(t)' = Members(t)) /\ Exists(u.id)
    BY <2>2, <2>5 DEF Exists, Members
  <2>8. \A i \in UserIds : Erasing(i) => Erasing(i)'
    BY <2>4 DEF Erasing, Under
  <2>9. /\ crossed \subseteq crossed'
        /\ u.id \in crossed' \/ \A d \in Callers \ {c} : Under(d) => calls[d].user # u.id
    BY <2>1 DEF Others, Under
  <2>10. Crossings'
    <3> SUFFICES ASSUME NEW b \in Callers, NEW d \in Callers, b # d, Under(b)', Erases(d)',
                        calls'[b].user = calls'[d].user
                 PROVE  calls'[b].user \in crossed'
      BY DEF Crossings
    <3>1. CASE b # c /\ d # c
      BY <2>4, <2>6, <2>9, <3>1 DEF Crossings
    <3>2. CASE b = c
      <4>1. Under(d) /\ calls'[d] = calls[d] /\ calls[d].user = u.id
        BY <2>3, <2>4, <2>6, <3>2 DEF Erases, Under
      <4> QED
        BY <2>3, <2>4, <2>9, <3>2, <4>1
    <3>3. CASE d = c
      <4>1. Under(b) /\ calls'[b] = calls[b] /\ calls[b].user = u.id
        BY <2>3, <2>4, <2>6, <3>3
      <4> QED
        BY <2>9, <3>3, <4>1
    <3> QED
      BY <3>1, <3>2, <3>3
  <2>11. Backed'
    BY <2>3, <2>4, <2>6, <2>7, <2>9 DEF Backed
  <2>12. Removed'
    <3> SUFFICES ASSUME NEW d \in Callers, Erases(d)', calls'[d].user \notin crossed'
                 PROVE  /\ \A x \in consents' : x.user # calls'[d].user
                        /\ calls'[d].at # "telemetry" => calls'[d].user \notin telemetry'
      BY DEF Removed
    <3>1. CASE d = c
      BY <2>1, <2>3, <2>4, <3>1 DEF ConsentsOf
    <3>2. CASE d # c
      BY <2>1, <2>4, <2>5, <2>6, <2>9, <3>2 DEF Removed
    <3> QED
      BY <3>1, <3>2
  <2>13. OwnTenant'
    <3> SUFFICES ASSUME NEW d \in Callers, Erases(d)'
                 PROVE  /\ \A v \in users' : v.id = calls'[d].user => v.tenant = calls'[d].tenant
                        /\ (calls[d].at = "purge" => Members(calls[d].tenant) = {} \/ calls[d].tenant \in joined)'
      BY Zenon DEF OwnTenant
    <3>1. CASE d = c
      BY <2>2, <2>3, <2>4, <2>5, <3>1 DEF AccountsTypeOK
    <3>2. CASE d # c
      BY <2>4, <2>5, <2>6, <3>2 DEF OwnTenant, Members
    <3> QED
      BY <3>1, <3>2
  <2>14. ErasureComplete'
    BY <2>1, <2>5, <2>7, <2>8, <2>9 DEF ErasureComplete
  <2>15. NoOrphanTenant'
    <3>1. \A d \in Callers : At(d, "delete", "count") \/ At(d, "delete", "purge") => calls'[d] = calls[d]
      BY <2>4 DEF At, Under
    <3> QED
      BY <2>5, <2>7, <3>1 DEF NoOrphanTenant, At
  <2> QED
    BY <2>5, <2>10, <2>11, <2>12, <2>13, <2>14, <2>15 DEF PurgeSparesMembers
<1>5. ASSUME NEW c \in Callers, DeleteTelemetry(c)
      PROVE  Goal
  <2>1. /\ Under(c) /\ Erases(c) /\ calls[c].op = "delete" /\ calls[c].at = "telemetry"
        /\ telemetry' = telemetry \ {calls[c].user}
        /\ UNCHANGED <<users, consents, vaults, crossed, joined, orphaned>> /\ Goes(c, "user")
    BY <1>5 DEF DeleteTelemetry, DeleteUserTelemetry, At, Under, Erases
  <2>2. /\ Under(c)' /\ calls'[c].op = calls[c].op /\ calls'[c].user = calls[c].user
        /\ calls'[c].tenant = calls[c].tenant /\ calls'[c].at = "user"
        /\ \A d \in Callers \ {c} : calls'[d] = calls[d]
    BY <1>0, <2>1, GoesCall
  <2>3. \A d \in Callers : Erases(d)' = Erases(d) /\ Under(d)' = Under(d) /\ (Under(d) => calls'[d].user = calls[d].user)
    BY <2>1, <2>2 DEF Erases, Under
  <2>4. (\A i : Exists(i)' = Exists(i)) /\ (\A t : Members(t)' = Members(t)) /\ \A i \in UserIds : Erasing(i)' = Erasing(i)
    <3>1. \A i : Erasing(i) = \E d \in Callers : Erases(d) /\ calls[d].user = i
      BY DEF Erasing, Erases
    <3>2. \A i : Erasing(i)' = \E d \in Callers : Erases(d)' /\ calls'[d].user = i
      BY DEF Erasing, Erases
    <3> QED
      BY <2>1, <2>3, <3>1, <3>2 DEF Exists, Members, Erases, Under
  <2>5. Crossings'
    BY <2>1, <2>3 DEF Crossings, Erases, Under
  <2>6. Backed'
    BY <2>1, <2>2, <2>3, <2>4 DEF Backed
  <2>7. Removed'
    BY <2>1, <2>2, <2>3 DEF Removed, Erases, Under
  <2>8. OwnTenant'
    BY <2>1, <2>2, <2>3, <2>4 DEF OwnTenant
  <2>9. ErasureComplete'
    BY <2>1, <2>4 DEF ErasureComplete
  <2>10. NoOrphanTenant'
    <3>1. \A d \in Callers : At(d, "delete", "count") \/ At(d, "delete", "purge") => calls'[d] = calls[d]
      BY <2>1, <2>2 DEF At, Under
    <3> QED
      BY <2>1, <2>4, <3>1 DEF NoOrphanTenant, At
  <2> QED
    BY <2>1, <2>5, <2>6, <2>7, <2>8, <2>9, <2>10 DEF PurgeSparesMembers
<1>6. ASSUME NEW c \in Callers, DeleteUser(c)
      PROVE  Goal
  <2>0. PICK id : id = calls[c].user
    OBVIOUS
  <2>1. /\ Under(c) /\ Erases(c) /\ calls[c].op = "delete" /\ calls[c].at = "user"
        /\ UNCHANGED <<consents, telemetry, vaults, crossed, joined, orphaned>>
        /\ users' = users \ Deletable(id) /\ id \in UserIds
        /\ IF Deletable(id) = {} THEN Ends(c) ELSE Goes(c, "count")
    BY <1>0, <1>6, <2>0 DEF DeleteUser, At, Under, Erases, preferences
  <2>2. /\ \A u \in Deletable(id) : u \in users /\ u.id = id
        /\ Deletable(id) # {} => \A u \in users : u.id = id => u \in Deletable(id)
    BY DEF Deletable, ById
  <2>3. CASE Deletable(id) = {}
    <3>1. users' = users /\ ~Under(c)' /\ \A d \in Callers \ {c} : calls'[d] = calls[d]
      BY <1>0, <2>1, <2>3, EndsCall
    <3>2. \A d \in Callers : (Erases(d)' => Erases(d) /\ d # c) /\ (Under(d)' => Under(d) /\ d # c)
      BY <3>1 DEF Erases, Under
    <3>3. (\A i : Exists(i)' = Exists(i)) /\ (\A t : Members(t)' = Members(t))
      BY <3>1 DEF Exists, Members
    <3>4. ErasureComplete'
      <4>1. Exists(id) \/ id \in crossed
        BY <2>0, <2>1 DEF Backed
      <4>2. \A i : i # id /\ Erasing(i) => Erasing(i)'
        BY <2>0, <3>1 DEF Erasing
      <4> QED
        BY <2>1, <3>3, <4>1, <4>2 DEF ErasureComplete
    <3>5. NoOrphanTenant'
      <4>1. \A d \in Callers : At(d, "delete", "count") \/ At(d, "delete", "purge") => calls'[d] = calls[d]
        BY <2>1, <3>1 DEF At
      <4> QED
        BY <2>1, <3>3, <4>1 DEF NoOrphanTenant, At
    <3>6. Crossings' /\ Backed' /\ Removed' /\ OwnTenant'
      <4>1. Crossings'
        BY <2>1, <3>1, <3>2 DEF Crossings
      <4>2. Backed'
        BY <2>1, <3>1, <3>2 DEF Backed, Exists, Erases, Under
      <4>3. Removed'
        BY <2>1, <3>1, <3>2 DEF Removed
      <4>4. OwnTenant'
        BY <2>1, <3>1, <3>2 DEF OwnTenant, Members
      <4> QED
        BY <4>1, <4>2, <4>3, <4>4
    <3> QED
      BY <2>1, <3>4, <3>5, <3>6 DEF PurgeSparesMembers
  <2>4. CASE Deletable(id) # {}
    <3>1. /\ Under(c)' /\ calls'[c].op = calls[c].op /\ calls'[c].user = id
          /\ calls'[c].tenant = calls[c].tenant /\ calls'[c].at = "count"
          /\ \A d \in Callers \ {c} : calls'[d] = calls[d]
      BY <1>0, <2>0, <2>1, <2>4, GoesCall
    <3>2. \A d \in Callers : Erases(d)' = Erases(d) /\ Under(d)' = Under(d) /\ (Under(d) => calls'[d].user = calls[d].user)
      BY <2>0, <2>1, <3>1 DEF Erases, Under
    <3>3. \A i : i # id => Exists(i)' = Exists(i)
      BY <2>1, <2>2 DEF Exists
    <3>4. \A t : Members(t)' \subseteq Members(t) /\ (t # calls[c].tenant => Members(t)' = Members(t))
      BY <2>0, <2>1, <2>2 DEF Members, OwnTenant
    <3>5. Erasing(id)' /\ \A i : Erasing(i) => Erasing(i)'
      BY <2>0, <2>1, <3>1 DEF Erasing, Under
    <3>6. Crossings'
      BY <2>1, <3>2 DEF Crossings, Erases, Under
    <3>7. Backed'
      <4> SUFFICES ASSUME NEW d \in Callers, Under(d)'
                   PROVE  \/ Exists(calls[d].user)' \/ calls'[d].user \in crossed'
                          \/ Erases(d)' /\ calls'[d].at \in {"count", "purge"}
        BY Zenon DEF Backed
      <4>1. CASE d = c
        BY <2>1, <3>1, <3>2, <4>1
      <4>2. CASE d # c /\ calls[d].user = id
        BY <2>0, <2>1, <3>1, <3>2, <4>2 DEF Crossings
      <4>3. CASE d # c /\ calls[d].user # id
        <5>1. Exists(calls[d].user) => Exists(calls[d].user)'
          BY <2>1, <2>2, <3>1, <4>3 DEF Exists
        <5> QED
          BY <2>1, <3>1, <3>2, <4>3, <5>1 DEF Backed
      <4> QED
        BY <4>1, <4>2, <4>3
    <3>8. Removed'
      BY <2>0, <2>1, <3>1, <3>2 DEF Removed
    <3>9. OwnTenant'
      <4>1. \A t : Members(t) = {} => Members(t)' = {}
        BY <3>4
      <4> QED
        BY <2>0, <2>1, <3>1, <3>2, <4>1 DEF OwnTenant
    <3>10. ErasureComplete'
      BY <2>1, <3>3, <3>5 DEF ErasureComplete
    <3>11. NoOrphanTenant'
      <4>1. \A d \in Callers : At(d, "delete", "count") \/ At(d, "delete", "purge") => calls'[d] = calls[d]
        BY <2>1, <3>1 DEF At
      <4>2. At(c, "delete", "count")'
        BY <2>1, <3>1 DEF At, Under
      <4> QED
        BY <2>1, <3>1, <3>4, <4>1, <4>2 DEF NoOrphanTenant, At
    <3> QED
      BY <2>1, <3>6, <3>7, <3>8, <3>9, <3>10, <3>11 DEF PurgeSparesMembers
  <2> QED
    BY <2>3, <2>4
<1>7. ASSUME NEW c \in Callers, CountUsers(c)
      PROVE  Goal
  <2>1. /\ Under(c) /\ Erases(c) /\ calls[c].op = "delete" /\ calls[c].at = "count"
        /\ UNCHANGED <<users, consents, telemetry, vaults, crossed, orphaned>>
        /\ IF LastOne(calls[c].tenant)
           THEN Goes(c, "purge") /\ joined' = joined \ {calls[c].tenant}
           ELSE Ends(c) /\ UNCHANGED joined
    BY <1>7 DEF CountUsers, At, Under, Erases, preferences
  <2>2. (\A i : Exists(i)' = Exists(i)) /\ (\A t : Members(t)' = Members(t))
    BY <2>1 DEF Exists, Members
  <2>3. CASE Members(calls[c].tenant) = {}
    <3>1. /\ Under(c)' /\ calls'[c].op = calls[c].op /\ calls'[c].user = calls[c].user
          /\ calls'[c].tenant = calls[c].tenant /\ calls'[c].at = "purge"
          /\ \A d \in Callers \ {c} : calls'[d] = calls[d]
      BY <1>0, <2>1, <2>3, GoesCall DEF LastOne
    <3>2. \A d \in Callers : Erases(d)' = Erases(d) /\ Under(d)' = Under(d)
                             /\ (Under(d) => calls'[d].user = calls[d].user /\ calls'[d].tenant = calls[d].tenant)
      BY <2>1, <3>1 DEF Erases, Under
    <3>3. \A i : Erasing(i) => Erasing(i)'
      BY <2>1, <3>1 DEF Erasing, Under
    <3>4. Crossings'
      BY <2>1, <3>2 DEF Crossings, Erases, Under
    <3>5. Backed' /\ Removed'
      BY <2>1, <2>2, <3>1, <3>2 DEF Backed, Removed
    <3>6. OwnTenant'
      <4>1. \A t : t \in joined => t \in joined' \/ Members(t) = {}
        BY <2>1, <2>3 DEF LastOne
      <4> QED
        BY <2>1, <2>2, <2>3, <3>1, <3>2, <4>1 DEF OwnTenant
    <3>7. ErasureComplete'
      BY <2>1, <2>2, <3>3 DEF ErasureComplete
    <3>8. NoOrphanTenant'
      <4>1. \A d \in Callers : At(d, "delete", "count") \/ At(d, "delete", "purge") =>
              /\ At(d, "delete", "count")' \/ At(d, "delete", "purge")'
              /\ calls'[d].tenant = calls[d].tenant
        BY <2>1, <3>1 DEF At, Under
      <4> QED
        BY <2>1, <2>2, <4>1 DEF NoOrphanTenant
    <3> QED
      BY <2>1, <3>4, <3>5, <3>6, <3>7, <3>8 DEF PurgeSparesMembers
  <2>4. CASE Members(calls[c].tenant) # {}
    <3>1. Ends(c) /\ joined' = joined /\ ~Under(c)' /\ \A d \in Callers \ {c} : calls'[d] = calls[d]
      BY <1>0, <2>1, <2>4, EndsCall DEF LastOne
    <3>2. \A d \in Callers : (Erases(d)' => Erases(d) /\ d # c) /\ (Under(d)' => Under(d) /\ d # c)
      BY <3>1 DEF Erases, Under
    <3>3. ErasureComplete'
      <4>1. calls[c].user \in crossed \/ (calls[c].user \notin telemetry /\ \A x \in consents : x.user # calls[c].user)
        BY <2>1 DEF Removed
      <4>2. \A i : i # calls[c].user /\ Erasing(i) => Erasing(i)'
        BY <3>1 DEF Erasing
      <4> QED
        BY <2>1, <2>2, <4>1, <4>2 DEF ErasureComplete
    <3>4. NoOrphanTenant'
      <4>1. \A d \in Callers \ {c} : calls'[d] = calls[d]
        BY <3>1
      <4> QED
        BY <2>1, <2>2, <2>4, <4>1 DEF NoOrphanTenant, At
    <3>5. Crossings' /\ Backed' /\ Removed' /\ OwnTenant'
      <4>1. Crossings'
        BY <2>1, <3>1, <3>2 DEF Crossings
      <4>2. Backed'
        BY <2>1, <3>1, <3>2 DEF Backed, Exists, Erases, Under
      <4>3. Removed'
        BY <2>1, <3>1, <3>2 DEF Removed
      <4>4. OwnTenant'
        BY <2>1, <3>1, <3>2 DEF OwnTenant, Members
      <4> QED
        BY <4>1, <4>2, <4>3, <4>4
    <3> QED
      BY <2>1, <3>3, <3>4, <3>5 DEF PurgeSparesMembers
  <2> QED
    BY <2>3, <2>4
<1>8. ASSUME NEW c \in Callers, Purge(c) \/ (CallFails(c) /\ calls[c].op = "delete")
      PROVE  Goal
  <2>1. /\ Under(c) /\ Erases(c) /\ calls[c].op = "delete" /\ Ends(c)
        /\ UNCHANGED <<users, telemetry, crossed, joined>> /\ consents' \subseteq consents
    BY <1>8 DEF Purge, CallFails, PurgeTenantMetadata, At, Under, Erases, preferences
  <2>2. (\A i : Exists(i)' = Exists(i)) /\ (\A t : Members(t)' = Members(t))
    BY <2>1 DEF Exists, Members
  <2>3. ~Under(c)' /\ \A d \in Callers \ {c} : calls'[d] = calls[d]
    BY <1>0, <2>1, EndsCall
  <2>4. \A d \in Callers : (Erases(d)' => Erases(d) /\ d # c) /\ (Under(d)' => Under(d) /\ d # c)
    BY <2>3 DEF Erases, Under
  <2>5. ErasureComplete'
    <3>1. \/ Exists(calls[c].user) \/ calls[c].user \in crossed
          \/ (calls[c].user \notin telemetry /\ \A x \in consents : x.user # calls[c].user)
      BY <2>1 DEF Removed, Backed
    <3>2. \A i : i # calls[c].user /\ Erasing(i) => Erasing(i)'
      BY <2>3 DEF Erasing
    <3> QED
      BY <2>1, <2>2, <3>1, <3>2 DEF ErasureComplete
  <2>6. Crossings' /\ Backed' /\ Removed' /\ OwnTenant'
    <3>1. Crossings'
      BY <2>1, <2>3, <2>4 DEF Crossings
    <3>2. Backed'
      BY <2>1, <2>3, <2>4 DEF Backed, Exists, Erases, Under
    <3>3. Removed'
      BY <2>1, <2>3, <2>4 DEF Removed
    <3>4. OwnTenant'
      BY <2>1, <2>3, <2>4 DEF OwnTenant, Members
    <3> QED
      BY <3>1, <3>2, <3>3, <3>4
  <2>7. NoOrphanTenant' /\ PurgeSparesMembers
    <3>1. CASE Purge(c)
      <4>1. vaults' = vaults \ {calls[c].tenant} /\ orphaned' = orphaned /\ calls[c].at = "purge"
        BY <3>1 DEF Purge, PurgeTenantMetadata, At
      <4>2. NoOrphanTenant'
        BY <2>2, <2>3, <4>1 DEF NoOrphanTenant, At
      <4>3. PurgeSparesMembers
        BY <2>1, <4>1 DEF OwnTenant, PurgeSparesMembers
      <4> QED
        BY <4>2, <4>3
    <3>2. CASE CallFails(c)
      <4>1. /\ vaults' = vaults /\ orphaned \subseteq orphaned'
            /\ calls[c].at \in {"count", "purge"} => calls[c].tenant \in orphaned'
        BY <3>2 DEF CallFails
      <4> QED
        BY <2>2, <2>3, <4>1 DEF NoOrphanTenant, At, PurgeSparesMembers
    <3> QED
      BY <1>8, <3>1, <3>2
  <2> QED
    BY <2>5, <2>6, <2>7
<1>9. ASSUME UNCHANGED <<consents, telemetry, vaults, calls, crossed, joined, orphaned>>,
             users' = users \/ \E u \in users : users' = (users \ {u}) \cup {[u EXCEPT !.verified = TRUE]}
      PROVE  Goal
  <2>1. (\A i : Exists(i)' = Exists(i)) /\ (\A t : (Members(t)' = {}) = (Members(t) = {}))
        /\ \A v \in users' : \E u \in users : v.id = u.id /\ v.tenant = u.tenant
    <3>1. CASE users' = users
      BY <3>1 DEF Exists, Members
    <3>2. ASSUME NEW u \in users, users' = (users \ {u}) \cup {[u EXCEPT !.verified = TRUE]}
          PROVE  <2>1!:
      <4> DEFINE w == [u EXCEPT !.verified = TRUE]
      <4>1. w.id = u.id /\ w.tenant = u.tenant
        BY DEF AccountsTypeOK
      <4> HIDE DEF w
      <4>2. users' = (users \ {u}) \cup {w}
        BY <3>2 DEF w
      <4> QED
        BY <4>1, <4>2 DEF Exists, Members
    <3> QED
      BY <1>9, <3>1, <3>2
  <2>2. \A d \in Callers : Under(d)' = Under(d) /\ Erases(d)' = Erases(d)
    BY <1>9 DEF Under, Erases
  <2>3. Crossings' /\ Backed' /\ Removed'
    BY <1>9, <2>1, <2>2 DEF Crossings, Backed, Removed
  <2>4. OwnTenant'
    BY <1>9, <2>1, <2>2 DEF OwnTenant
  <2>5. ErasureComplete'
    BY <1>9, <2>1 DEF ErasureComplete, Erasing
  <2>6. NoOrphanTenant'
    BY <1>9, <2>1 DEF NoOrphanTenant, At
  <2> QED
    BY <1>9, <2>3, <2>4, <2>5, <2>6 DEF PurgeSparesMembers
<1>10. ASSUME NEW t \in Tenants, RegisterVault(t)
       PROVE  Goal
  <2>1. /\ UNCHANGED <<users, consents, telemetry, calls, crossed, joined, orphaned>>
        /\ vaults' = vaults \cup {t} /\ Members(t) # {}
    BY <1>10 DEF RegisterVault, preferences
  <2> QED
    BY <2>1 DEF PurgeSparesMembers, Crossings, Backed, Removed, OwnTenant, ErasureComplete, NoOrphanTenant,
       Under, Erases, Exists, Members, Erasing, At
<1>11. ASSUME NEW c \in Callers, NEW tok \in tokens, PutOnboarding(c, tok) \/ PutReference(c, tok)
       PROVE  Goal
  <2>1. UNCHANGED <<users, consents, telemetry, vaults, calls, crossed, joined, orphaned>>
    BY <1>11 DEF PutOnboarding, PutReference
  <2> QED
    BY <1>9, <2>1
<1>12. ASSUME NEW tok \in tokens, ResendVerification(tok)
       PROVE  Goal
  <2>1. UNCHANGED <<users, consents, telemetry, vaults, calls, crossed, joined, orphaned>>
    BY <1>12 DEF ResendVerification, preferences
  <2> QED
    BY <1>9, <2>1
<1>13. ASSUME NEW u \in users, Login(u) \/ OauthLogin(u) \/ VerifyEmail(u)
       PROVE  Goal
  <2>1. /\ UNCHANGED <<consents, telemetry, vaults, calls, crossed, joined, orphaned>>
        /\ users' = users \/ users' = (users \ {u}) \cup {[u EXCEPT !.verified = TRUE]}
    BY <1>13 DEF Login, OauthLogin, VerifyEmail, SignsIn, SetEmailVerified, preferences
  <2> QED
    BY <1>9, <2>1
<1>14. ASSUME UNCHANGED accountVars
       PROVE  Goal
  <2>1. UNCHANGED <<users, consents, telemetry, vaults, calls, crossed, joined, orphaned>>
    BY <1>14 DEF accountVars, preferences
  <2> QED
    BY <1>9, <2>1
<1> HIDE DEF Goal, AccountsInv, Guarded
<1>15. Goal
  <2>1. \A e \in Emails : DefaultTenant[e] \in Tenants
    OBVIOUS
  <2>2. ASSUME NEW c \in Callers, NEW id \in UserIds, NEW e \in Emails,
               OauthSignup(c, id, e) \/ \E t \in Tenants : Signup(c, id, e, t)
        PROVE  Goal
    BY <1>1, <2>1, <2>2 DEF OauthSignup, Signup
  <2>3. ASSUME NEW c \in Callers, CallFails(c)
        PROVE  Goal
    BY <1>2, <1>8, <2>3 DEF CallFails
  <2>4. ASSUME NEW c \in Callers, \/ BootstrapPlan(c) \/ RecordTerms(c) \/ RecordPrivacy(c) \/ ConsentFails(c)
                                   \/ RecordAnalytics(c)
        PROVE  Goal
    BY <1>2, <2>4
  <2>5. ASSUME NEW c \in Callers, Purge(c)
        PROVE  Goal
    BY <1>8, <2>5
  <2>6. ASSUME NEW c \in Callers, NEW tok \in tokens,
               PutTelemetry(c, tok) \/ PutOnboarding(c, tok) \/ PutReference(c, tok) \/ DeleteAccount(c, tok)
        PROVE  Goal
    BY <1>3, <1>4, <1>11, <2>6
  <2>7. CASE AccountsNext
    BY <1>5, <1>6, <1>7, <1>10, <1>12, <1>13, <2>2, <2>3, <2>4, <2>5, <2>6, <2>7, Zenon DEF AccountsNext
  <2> QED
    BY <1>14, <2>7
<1> QED
  BY <1>15 DEF Goal

\* An erasure is complete and purges no tenant with members, unless a request of
\* the same user is known to have crossed it, for any number of users and calls
\* (delete_account_inner, purge_tenant_metadata).
THEOREM AccountsHold == AccountsSpec => AccountsSound
<1>1. AccountsInit => AccountsInv
  BY AccountsAssumption DEF AccountsInit, AccountsInv, Guarded, AccountsTypeOK, CallTypes, Crossings, Backed, Removed,
     OwnTenant, ErasureComplete, NoOrphanTenant, Under, Erases
<1>2. AccountsInv /\ [AccountsNext]_accountVars => AccountsInv'
  BY AccountsTypeStep, GuardedStep DEF AccountsInv
<1>3. AccountsInv /\ [AccountsNext]_accountVars =>
        [PurgeSparesMembers /\ AccountsTypeOK' /\ ErasureComplete' /\ NoOrphanTenant']_accountVars
  BY AccountsTypeStep, GuardedStep DEF Guarded
<1> QED
  BY <1>1, <1>2, <1>3, PTL DEF AccountsSpec, AccountsSound

-----------------------------------------------------------------------------
(* Dashboard, enrollment and sign-in *)

RequestD == [op : {"idle", "resolve", "summary"}, tenant : TenantsD \cup {NoneD},
             id : ConfIds \cup {NoneD}, action : ActionsD \cup {NoneD},
             count : {Cardinality(S) : S \in SUBSET NodesD} \cup {0}, moved : BOOLEAN]

DashTypes == callsD \in [CallsD -> RequestD]

\* While no node moves, a count that was read is the count of the list still to be read.
CountHolds ==
  \A c \in CallsD : callsD[c].op = "summary" /\ ~callsD[c].moved =>
    callsD[c].count = Cardinality(ActiveNodes(callsD[c].tenant))

DashInv == DashTypes /\ CountHolds /\ SummaryAgrees

\* Every step of a summary or of a resolution keeps the count of the list.
LEMMA DashStep == DashInv /\ [DashNext]_dashVars => DashInv'
<1> SUFFICES ASSUME DashInv, [DashNext]_dashVars
             PROVE  DashInv'
  OBVIOUS
<1> USE DEF DashInv, DashTypes, CountHolds, SummaryAgrees, IdleCall, EndD, ActiveNodes
<1>1. ASSUME NEW c \in CallsD, ResolveRead(c)
      PROVE  DashInv'
  <2>1. CASE UNCHANGED callsD
    BY <1>1, <2>1 DEF ResolveRead
  <2>2. CASE \E t \in TenantsD, i \in ConfIds, a \in ActionsD : callsD' = [callsD EXCEPT ![c] =
               [IdleCall EXCEPT !.op = "resolve", !.tenant = t, !.id = i, !.action = a]]
    <3>1. PICK t \in TenantsD, i \in ConfIds, a \in ActionsD : callsD' = [callsD EXCEPT ![c] =
            [IdleCall EXCEPT !.op = "resolve", !.tenant = t, !.id = i, !.action = a]]
      BY <2>2
    <3>2. [IdleCall EXCEPT !.op = "resolve", !.tenant = t, !.id = i, !.action = a] \in RequestD
      BY DEF RequestD
    <3> QED
      BY <1>1, <3>1, <3>2 DEF ResolveRead
  <2>3. UNCHANGED callsD \/ \E t \in TenantsD, i \in ConfIds, a \in ActionsD :
          callsD' = [callsD EXCEPT ![c] =
            [IdleCall EXCEPT !.op = "resolve", !.tenant = t, !.id = i, !.action = a]]
    <3> HIDE DEF DashInv, IdleCall
    <3> QED
      BY <1>1 DEF ResolveRead
  <2> QED
    BY <2>1, <2>2, <2>3
<1>2. ASSUME NEW c \in CallsD, ResolveWrite(c)
      PROVE  DashInv'
  BY <1>2 DEF ResolveWrite, RequestD
<1>3. ASSUME NEW c \in CallsD, SummaryCount(c)
      PROVE  DashInv'
  <2>1. PICK t \in TenantsD : callsD' = [callsD EXCEPT ![c] =
          [IdleCall EXCEPT !.op = "summary", !.tenant = t, !.count = ActiveCount(t)]]
    BY <1>3 DEF SummaryCount
  <2>2. UNCHANGED <<nodesD, summaryD>>
    BY <1>3 DEF SummaryCount
  <2>3. ActiveCount(t) = Cardinality(ActiveNodes(t)) /\ ActiveNodes(t) \in SUBSET NodesD
    BY DEF ActiveCount
  <2> DEFINE new == [IdleCall EXCEPT !.op = "summary", !.tenant = t, !.count = ActiveCount(t)]
  <2>4. /\ new \in RequestD /\ new.op = "summary" /\ new.tenant = t /\ new.count = ActiveCount(t)
    BY <2>3 DEF RequestD
  <2> QED
    BY <2>1, <2>2, <2>3, <2>4
<1>4. ASSUME NEW c \in CallsD, SummaryList(c)
      PROVE  DashInv'
  BY <1>4 DEF SummaryList, RequestD
<1>5. ASSUME NEW c \in CallsD, CallEnds(c)
      PROVE  DashInv'
  BY <1>5 DEF CallEnds, RequestD
<1>6. ASSUME PruneResolved
      PROVE  DashInv'
  BY <1>6 DEF PruneResolved
<1>7. ASSUME NodeMoves
      PROVE  DashInv'
  <2>1. /\ callsD' = [c \in CallsD |-> IF callsD[c].op = "summary"
                                       THEN [callsD[c] EXCEPT !.moved = TRUE] ELSE callsD[c]]
        /\ summaryD' = summaryD
    BY <1>7 DEF NodeMoves
  <2>2. \A c \in CallsD : callsD'[c].op = "summary" => callsD'[c].moved
    BY <2>1 DEF RequestD
  <2>3. \A c \in CallsD : [callsD[c] EXCEPT !.moved = TRUE] \in RequestD
    BY DEF RequestD
  <2>4. DashTypes'
    BY <2>1, <2>3
  <2> QED
    BY <2>1, <2>2, <2>4
<1>8. CASE UNCHANGED dashVars
  BY <1>8 DEF dashVars
<1> HIDE DEF DashInv
<1> QED
  BY <1>1, <1>2, <1>3, <1>4, <1>5, <1>6, <1>7, <1>8 DEF DashNext

\* A summary's counts agree with the list of its own tenant (summary_inner).
THEOREM SummaryHolds == DashSpec => []SummaryAgrees
<1>1. DashInit => DashInv
  BY FS_EmptySet DEF DashInit, DashInv, DashTypes, RequestD, CountHolds, SummaryAgrees, IdleCall
<1> QED
  BY <1>1, DashStep, PTL DEF DashSpec, DashInv

-----------------------------------------------------------------------------
CommandSteps == {"not run", "sent", "cert", "done", "failed", "stopped"}
CallSteps == {"none", "arrived", "checked", "signed", "row", "cert", "answered", "refused"}

\* One command runs at a time; the server knows a certificate before it answers with it;
\* the two files are of one run unless a command is, or was stopped, between them.
EnrollInv ==
  /\ command \in [RunsE -> CommandSteps] /\ callE \in [RunsE -> CallSteps]
  /\ nodeRow \in BOOLEAN /\ tornE \in BOOLEAN
  /\ \A r, s \in RunsE : command[r] \in {"sent", "cert"} /\ command[s] \in {"sent", "cert"} => r = s
  /\ \A r \in RunsE : callE[r] \in {"row", "cert", "answered"} => nodeRow
  /\ \A r \in RunsE : callE[r] \in {"cert", "answered"} => r \in nodeCerts
  /\ certFile # NoRun => nodeRow /\ certFile \in nodeCerts
  /\ \A r \in RunsE : command[r] = "cert" => certFile = r
  /\ tornE \/ (\E r \in RunsE : command[r] = "cert") \/ certFile = keyFile

\* Every step of an enrollment keeps the files of a machine in step.
LEMMA EnrollStep == EnrollInv /\ [EnrollNext]_enrollVars => EnrollInv'
<1> SUFFICES ASSUME EnrollInv, [EnrollNext]_enrollVars
             PROVE  EnrollInv'
  OBVIOUS
<1> USE DEF EnrollInv, CommandSteps, CallSteps
<1>1. ASSUME NEW t \in TokensE, IssueToken(t) \/ RevokeToken(t) \/ TokenExpires(t)
      PROVE  EnrollInv'
  BY <1>1 DEF IssueToken, RevokeToken, TokenExpires
<1>2. CASE WindowPasses
  BY <1>2 DEF WindowPasses
<1>3. ASSUME NEW r \in RunsE, SendEnroll(r)
      PROVE  EnrollInv'
  <2>1. /\ \A s \in RunsE : command[s] \notin {"sent", "cert"}
        /\ command' = [command EXCEPT ![r] = "sent"] /\ callE' = [callE EXCEPT ![r] = "arrived"]
        /\ UNCHANGED <<nodeRow, nodeCerts, certFile, keyFile, tornE>>
    BY <1>3 DEF SendEnroll, CommandIdle
  <2> QED
    BY <2>1
<1>4. ASSUME NEW r \in RunsE, EnrollBlocked(r) \/ EnrollRefused(r) \/ EnrollChecked(r) \/ IssueCert(r)
                              \/ CallStops(r)
      PROVE  EnrollInv'
  BY <1>4 DEF EnrollBlocked, EnrollRefused, EnrollChecked, IssueCert, CallStops
<1>5. ASSUME NEW r \in RunsE, InsertNode(r) \/ InsertCert(r) \/ ConsumeToken(r)
      PROVE  EnrollInv'
  BY <1>5 DEF InsertNode, InsertCert, ConsumeToken
<1>6. ASSUME NEW r \in RunsE, WriteCertFile(r)
      PROVE  EnrollInv'
  BY <1>6 DEF WriteCertFile
<1>7. ASSUME NEW r \in RunsE, WriteKeyFile(r)
      PROVE  EnrollInv'
  BY <1>7 DEF WriteKeyFile
<1>8. ASSUME NEW r \in RunsE, CommandFails(r) \/ CommandStopped(r)
      PROVE  EnrollInv'
  BY <1>8 DEF CommandFails, CommandStopped
<1>9. CASE UNCHANGED enrollVars
  BY <1>9 DEF enrollVars
<1> HIDE DEF EnrollInv
<1> QED
  BY <1>1, <1>2, <1>3, <1>4, <1>5, <1>6, <1>7, <1>8, <1>9 DEF EnrollNext

\* A later or an interrupted enrollment does not break the identity of a machine
\* (run_enroll).
THEOREM IdentityKept == EnrollSpec => []IdentityHolds
<1>1. EnrollInit => EnrollInv
  BY DEF EnrollInit, EnrollInv, CommandSteps, CallSteps
<1>2. EnrollInv => IdentityHolds
  BY DEF EnrollInv, IdentityHolds, Handshakes, LoadClientIdentity, VerifyEnrolled
<1> QED
  BY <1>1, <1>2, EnrollStep, PTL DEF EnrollSpec

-----------------------------------------------------------------------------
VerifJ == [at : {"idle", "lookup", "fetch", "store", "reread", "accepted", "refused"},
           kid : KidsJ \cup {NoneJ}, doc : SUBSET KidsJ, steady : BOOLEAN]

\* A steady verification fetches alone, and the document it brings, the cache after it is
\* stored, and any document fetched since, have its key.
KeysInv ==
  /\ verifsJ \in [VerifsJ -> VerifJ] /\ docJ \subseteq KidsJ /\ clockJ \in Nat
  /\ cacheJ \in [keys : SUBSET KidsJ, at : Nat]
  /\ \A v \in VerifsJ : verifsJ[v].steady =>
       /\ verifsJ[v].at # "refused" /\ verifsJ[v].kid \in docJ
       /\ verifsJ[v].at \in {"fetch", "store"} => Fetching = {v}
       /\ verifsJ[v].at = "store" => verifsJ[v].kid \in verifsJ[v].doc
       /\ verifsJ[v].at = "reread" =>
            /\ verifsJ[v].kid \in cacheJ.keys /\ cacheJ.at = clockJ
            /\ \A o \in VerifsJ : verifsJ[o].at = "store" => verifsJ[v].kid \in verifsJ[o].doc

\* The state parameter brings back the redirect that the authorization named.
FlowJ == [at : {"idle", "provider", "exchange", "signed_in", "mismatch"},
          asked : RedirectsJ \cup {Configured, NoneJ}, state : RedirectsJ \cup {NoneJ},
          exp : Nat, sent : RedirectsJ \cup {Configured, NoneJ}]

FlowsInv ==
  /\ flowsJ \in [FlowsJ -> FlowJ]
  /\ \A f \in FlowsJ :
       /\ flowsJ[f].at # "mismatch"
       /\ flowsJ[f].at = "provider" =>
            flowsJ[f].asked = IF StateRedirect(f) = NoneJ THEN Configured ELSE StateRedirect(f)
       /\ flowsJ[f].at = "exchange" => flowsJ[f].sent = flowsJ[f].asked

\* Until a fault, what is in the answer makes the client hold what the issuer holds.
RefreshInv ==
  /\ refreshJ \in [client : Nat, issuer : Nat, at : {"idle", "verify"}, grant : Nat, fault : BOOLEAN]
  /\ ~refreshJ.fault => IF refreshJ.at = "verify"
                        THEN Answer(refreshJ.client, refreshJ.grant) = refreshJ.issuer
                        ELSE refreshJ.client = refreshJ.issuer

SignInv == KeysInv /\ FlowsInv /\ RefreshInv

\* Every step keeps the cached key set a published one.
LEMMA KeysStep == KeysInv /\ [SignNext]_signVars => KeysInv'
<1> SUFFICES ASSUME KeysInv, [SignNext]_signVars
             PROVE  KeysInv'
  OBVIOUS
<1> USE SignAssumption DEF KeysInv, VerifJ, IdleVerif, Fetching, CachedKey
<1>1. ASSUME NEW v \in VerifsJ, BeginVerify(v)
      PROVE  KeysInv'
  BY <1>1 DEF BeginVerify, JwksMode
<1>2. ASSUME NEW v \in VerifsJ, LookupKey(v)
      PROVE  KeysInv'
  <2> DEFINE hit == CachedKey(verifsJ[v].kid)
  <2>0. hit \in BOOLEAN /\ Fetching \subseteq VerifsJ /\ v \notin Fetching
    BY <1>2 DEF LookupKey
  <2> HIDE DEF hit, Fetching, CachedKey
  <2>1. ASSUME NEW o \in VerifsJ
        PROVE  /\ verifsJ'[o] \in VerifJ
               /\ verifsJ'[o].kid = verifsJ[o].kid /\ verifsJ'[o].doc = verifsJ[o].doc
               /\ verifsJ'[o].at = IF o = v THEN IF hit THEN "accepted" ELSE "fetch" ELSE verifsJ[o].at
               /\ verifsJ'[o].steady => /\ verifsJ[o].steady
                                        /\ o = v => hit \/ Fetching = {}
                                        /\ o \in Fetching => hit
    <3>1. CASE o = v
      <4>1. verifsJ'[v] = [verifsJ[v] EXCEPT !.at = IF hit THEN "accepted" ELSE "fetch",
                                             !.steady = @ /\ (Fetching = {} \/ hit)]
        BY <1>2 DEF LookupKey, hit
      <4>2. verifsJ[v] \in VerifJ /\ v \notin Fetching
        BY <2>0
      <4> HIDE DEF KeysInv
      <4> QED
        BY <3>1, <4>1, <4>2
    <3>2. CASE o # v /\ o \in Fetching /\ ~hit
      <4>1. verifsJ'[o] = [verifsJ[o] EXCEPT !.steady = FALSE]
        BY <1>2, <3>2 DEF LookupKey, hit
      <4>2. verifsJ[o] \in VerifJ
        OBVIOUS
      <4> HIDE DEF KeysInv
      <4> QED
        BY <3>2, <4>1, <4>2
    <3>3. CASE o # v /\ ~(o \in Fetching /\ ~hit)
      <4>1. verifsJ'[o] = verifsJ[o]
        BY <1>2, <3>3 DEF LookupKey, hit
      <4> QED
        BY <3>3, <4>1
    <3> QED
      BY <3>1, <3>2, <3>3
  <2>2. verifsJ' \in [VerifsJ -> VerifJ] /\ UNCHANGED <<clockJ, docJ, cacheJ>>
    <3>1. /\ DOMAIN verifsJ' = VerifsJ /\ verifsJ' = [o \in VerifsJ |-> verifsJ'[o]]
          /\ UNCHANGED <<clockJ, docJ, cacheJ>>
      BY <1>2 DEF LookupKey
    <3> HIDE DEF VerifJ
    <3> QED
      BY <2>1, <3>1
  <2>3. Fetching' = IF hit THEN Fetching ELSE Fetching \cup {v}
    BY <2>0, <2>1 DEF Fetching
  <2>4. \A o \in VerifsJ : o \in Fetching <=> verifsJ[o].at \in {"fetch", "store"}
    BY DEF Fetching
  <2>5. verifsJ[v].at = "lookup"
    BY <1>2 DEF LookupKey
  <2> HIDE DEF VerifJ
  <2> QED
    BY <2>0, <2>1, <2>2, <2>3, <2>4, <2>5
<1>3. ASSUME NEW v \in VerifsJ, Fetched(v)
      PROVE  KeysInv'
  BY <1>3 DEF Fetched
<1>4. ASSUME NEW v \in VerifsJ, StoreDocument(v)
      PROVE  KeysInv'
  <2>1. /\ verifsJ[v].at = "store" /\ cacheJ' = [keys |-> verifsJ[v].doc, at |-> clockJ]
        /\ verifsJ'[v] = [verifsJ[v] EXCEPT !.at = "reread", !.doc = {}]
        /\ \A o \in VerifsJ \ {v} : verifsJ'[o] = verifsJ[o]
        /\ UNCHANGED <<clockJ, docJ>> /\ verifsJ' \in [VerifsJ -> VerifJ]
    <3>1. /\ verifsJ[v].at = "store" /\ cacheJ' = [keys |-> verifsJ[v].doc, at |-> clockJ]
          /\ verifsJ' = [verifsJ EXCEPT ![v].at = "reread", ![v].doc = {}]
          /\ UNCHANGED <<clockJ, docJ>>
      BY <1>4 DEF StoreDocument, KeyEntry
    <3>2. verifsJ'[v] = [verifsJ[v] EXCEPT !.at = "reread", !.doc = {}]
      BY <3>1
    <3>3. verifsJ'[v] \in VerifJ
      <4>1. verifsJ[v] \in VerifJ
        OBVIOUS
      <4> HIDE DEF KeysInv
      <4> QED
        BY <3>2, <4>1
    <3> HIDE DEF VerifJ
    <3> QED
      BY <3>1, <3>2, <3>3
  <2>2. Fetching' = Fetching \ {v} /\ v \in Fetching
    <3>1. verifsJ'[v].at = "reread"
      BY <2>1
    <3> HIDE DEF VerifJ
    <3> QED
      BY <2>1, <3>1
  <2>3. /\ verifsJ'[v].at = "reread" /\ verifsJ'[v].kid = verifsJ[v].kid
        /\ verifsJ'[v].steady = verifsJ[v].steady
    BY <2>1
  <2>4. verifsJ[v].steady => \A o \in VerifsJ : verifsJ'[o].at # "store"
    BY <2>1, <2>2, <2>3
  <2>5. cacheJ' \in [keys : SUBSET KidsJ, at : Nat] /\ cacheJ'.keys = verifsJ[v].doc /\ cacheJ'.at = clockJ
    BY <2>1
  <2>6. ASSUME NEW o \in VerifsJ, verifsJ'[o].steady
        PROVE  /\ verifsJ'[o].at # "refused" /\ verifsJ'[o].kid \in docJ'
               /\ verifsJ'[o].at \in {"fetch", "store"} => Fetching' = {o}
               /\ verifsJ'[o].at = "store" => verifsJ'[o].kid \in verifsJ'[o].doc
               /\ verifsJ'[o].at = "reread" =>
                    /\ verifsJ'[o].kid \in cacheJ'.keys /\ cacheJ'.at = clockJ'
                    /\ \A u \in VerifsJ : verifsJ'[u].at = "store" => verifsJ'[o].kid \in verifsJ'[u].doc
    <3>1. CASE o = v
      BY <2>1, <2>3, <2>4, <2>5, <2>6, <3>1
    <3>2. CASE o # v
      BY <2>1, <2>2, <2>5, <2>6, <3>2
    <3> QED
      BY <3>1, <3>2
  <2> QED
    BY <2>1, <2>5, <2>6
<1>5. ASSUME NEW v \in VerifsJ, RereadKey(v)
      PROVE  KeysInv'
  BY <1>5 DEF RereadKey
<1>6. ASSUME NEW v \in VerifsJ, EndVerify(v)
      PROVE  KeysInv'
  BY <1>6 DEF EndVerify
<1>7. ASSUME NEW f \in FlowsJ, OauthStart(f) \/ OauthCallback(f) \/ OauthExchanged(f) \/ EndFlow(f)
      PROVE  KeysInv'
  BY <1>7 DEF OauthStart, OauthCallback, OauthExchanged, EndFlow
<1>8. CASE RefreshExchange \/ RefreshAnswered
  BY <1>8 DEF RefreshExchange, RefreshAnswered
<1>9. CASE IssuerRotates
  <2>1. /\ docJ' \subseteq KidsJ /\ UNCHANGED <<clockJ, cacheJ>>
        /\ verifsJ' = [v \in VerifsJ |-> [verifsJ[v] EXCEPT !.steady = @ /\ verifsJ[v].kid \in docJ']]
    BY <1>9 DEF IssuerRotates
  <2>2. ASSUME NEW v \in VerifsJ
        PROVE  /\ verifsJ'[v].at = verifsJ[v].at /\ verifsJ'[v].kid = verifsJ[v].kid
               /\ verifsJ'[v].doc = verifsJ[v].doc /\ verifsJ'[v] \in VerifJ
               /\ verifsJ'[v].steady => verifsJ[v].steady /\ verifsJ[v].kid \in docJ'
    <3>1. verifsJ'[v] = [verifsJ[v] EXCEPT !.steady = @ /\ verifsJ[v].kid \in docJ']
      BY <2>1
    <3>2. verifsJ[v] \in VerifJ
      OBVIOUS
    <3> HIDE DEF KeysInv
    <3> QED
      BY <3>1, <3>2
  <2>3. Fetching' = Fetching
    BY <2>2
  <2>4. verifsJ' \in [VerifsJ -> VerifJ]
    BY <2>1, <2>2
  <2> HIDE DEF VerifJ, Fetching
  <2>5. docJ' \subseteq KidsJ /\ clockJ' = clockJ /\ cacheJ' = cacheJ
    BY <2>1
  <2> QED
    BY <2>2, <2>3, <2>4, <2>5
<1>10. CASE TickJ
  BY <1>10 DEF TickJ
<1>11. CASE UNCHANGED signVars
  BY <1>11 DEF signVars
<1> HIDE DEF KeysInv
<1> QED
  BY <1>1, <1>2, <1>3, <1>4, <1>5, <1>6, <1>7, <1>8, <1>9, <1>10, <1>11 DEF SignNext

\* Every step keeps the redirect of a sign-in that of its state.
LEMMA FlowsStep == KeysInv /\ FlowsInv /\ [SignNext]_signVars => FlowsInv'
<1> SUFFICES ASSUME KeysInv, FlowsInv, [SignNext]_signVars
             PROVE  FlowsInv'
  OBVIOUS
<1> USE SignAssumption DEF FlowsInv, FlowJ, IdleFlow, StateRedirect
<1>0. clockJ \in Nat
  BY DEF KeysInv
<1>1. ASSUME NEW f \in FlowsJ, OauthStart(f)
      PROVE  FlowsInv'
  BY <1>0, <1>1 DEF OauthStart
<1>2. ASSUME NEW f \in FlowsJ, OauthCallback(f)
      PROVE  FlowsInv'
  <2>1. CASE clockJ > flowsJ[f].exp
    BY <1>2, <2>1 DEF OauthCallback
  <2>2. CASE ~(clockJ > flowsJ[f].exp)
    <3> DEFINE to == IF StateRedirect(f) = NoneJ THEN Configured ELSE StateRedirect(f)
    <3>1. /\ flowsJ[f].at = "provider" /\ flowsJ' = [flowsJ EXCEPT ![f] = [@ EXCEPT !.at = "exchange", !.sent = to]]
      BY <1>2, <2>2 DEF OauthCallback
    <3>2. to \in RedirectsJ \cup {Configured, NoneJ} /\ flowsJ[f].asked = to
      BY <3>1
    <3> HIDE DEF to
    <3>3. /\ flowsJ'[f] \in FlowJ /\ flowsJ'[f].at = "exchange" /\ flowsJ'[f].sent = to
          /\ flowsJ'[f].asked = flowsJ[f].asked
      BY <3>1, <3>2
    <3>4. flowsJ' \in [FlowsJ -> FlowJ] /\ \A g \in FlowsJ \ {f} : flowsJ'[g] = flowsJ[g]
      BY <3>1, <3>3
    <3> QED
      BY <3>2, <3>3, <3>4
  <2> QED
    BY <2>1, <2>2
<1>3. ASSUME NEW f \in FlowsJ, OauthExchanged(f)
      PROVE  FlowsInv'
  BY <1>3 DEF OauthExchanged
<1>4. ASSUME NEW f \in FlowsJ, EndFlow(f)
      PROVE  FlowsInv'
  BY <1>4 DEF EndFlow
<1>5. CASE UNCHANGED flowsJ
  BY <1>5
<1> HIDE DEF FlowsInv
<1> QED
  BY <1>1, <1>2, <1>3, <1>4, <1>5 DEF SignNext, signVars, BeginVerify, LookupKey, Fetched,
     StoreDocument, RereadKey, EndVerify, RefreshExchange, RefreshAnswered, IssuerRotates, TickJ

\* Every step keeps the refresh token that was rotated last.
LEMMA RefreshStep == RefreshInv /\ [SignNext]_signVars => RefreshInv'
<1> SUFFICES ASSUME RefreshInv, [SignNext]_signVars
             PROVE  RefreshInv'
  OBVIOUS
<1>1. CASE RefreshExchange
  <2>1. PICK rotated \in BOOLEAN :
          refreshJ' = [refreshJ EXCEPT !.at = "verify",
                       !.issuer = IF rotated THEN @ + 1 ELSE @,
                       !.grant = IF rotated THEN refreshJ.issuer + 1 ELSE 0]
    BY <1>1 DEF RefreshExchange
  <2>2. refreshJ.client = refreshJ.issuer
    BY <1>1 DEF RefreshExchange
  <2>3. CASE rotated
    <3>0. refreshJ' = [refreshJ EXCEPT !.at = "verify", !.issuer = @ + 1, !.grant = refreshJ.issuer + 1]
      BY <2>1, <2>3
    <3>1. /\ refreshJ'.at = "verify" /\ refreshJ'.client = refreshJ.client
          /\ refreshJ'.issuer = refreshJ.issuer + 1 /\ refreshJ'.grant = refreshJ.issuer + 1
          /\ refreshJ.issuer \in Nat
      BY <3>0 DEF RefreshInv
    <3>2. refreshJ' \in [client : Nat, issuer : Nat, at : {"idle", "verify"}, grant : Nat, fault : BOOLEAN]
      <4>1. refreshJ' = [client |-> refreshJ.client, issuer |-> refreshJ.issuer + 1, at |-> "verify",
                         grant |-> refreshJ.issuer + 1, fault |-> refreshJ.fault]
        BY <3>0 DEF RefreshInv
      <4>2. refreshJ.client \in Nat /\ refreshJ.issuer + 1 \in Nat /\ refreshJ.fault \in BOOLEAN
        BY DEF RefreshInv
      <4> QED
        BY <4>1, <4>2
    <3> QED
      BY <3>1, <3>2 DEF RefreshInv, Answer
  <2>4. CASE ~rotated
    BY <2>1, <2>2, <2>4 DEF RefreshInv, Answer
  <2> QED
    BY <2>3, <2>4
<1>2. CASE RefreshAnswered
  <2>1. CASE refreshJ' = [refreshJ EXCEPT !.at = "idle", !.grant = 0, !.client = Answer(@, refreshJ.grant)]
    BY <1>2, <2>1 DEF RefreshInv, RefreshAnswered, Answer
  <2>2. CASE refreshJ' = [refreshJ EXCEPT !.at = "idle", !.grant = 0, !.fault = TRUE]
    BY <2>2 DEF RefreshInv
  <2> QED
    BY <1>2, <2>1, <2>2 DEF RefreshAnswered
<1>3. CASE UNCHANGED refreshJ
  BY <1>3 DEF RefreshInv
<1> QED
  BY <1>1, <1>2, <1>3 DEF SignNext, signVars, BeginVerify, LookupKey, Fetched, StoreDocument,
     RereadKey, EndVerify, OauthStart, OauthCallback, OauthExchanged, EndFlow, IssuerRotates, TickJ

\* A published key is accepted, a code meets its own redirect and a rotated
\* refresh token is kept (jwks.rs, oauth.rs, token_refresh.rs).
THEOREM SignInHolds == SignSpec => [](PublishedKeyAccepted /\ RedirectMatches /\ RefreshTokenKept)
<1>1. SignInit => SignInv
  BY DEF SignInit, SignInv, KeysInv, FlowsInv, FlowJ, RefreshInv, VerifJ, IdleVerif, IdleFlow, Fetching
<1>2. SignInv /\ [SignNext]_signVars => SignInv'
  BY KeysStep, FlowsStep, RefreshStep DEF SignInv
<1>3. SignInv => PublishedKeyAccepted /\ RedirectMatches /\ RefreshTokenKept
  BY DEF SignInv, KeysInv, FlowsInv, RefreshInv, PublishedKeyAccepted, RedirectMatches,
     RefreshTokenKept
<1> QED
  BY <1>1, <1>2, <1>3, PTL DEF SignSpec

-----------------------------------------------------------------------------
(* Quotas *)

\* The types of the quota tables and of the uploads under way.
QuotaTypes ==
  /\ tier \in [Payers -> Plans]
  /\ file \in [Payers \X Docs -> DocRow \cup {Idle}]
  /\ known \in SUBSET (Payers \X Docs) /\ IsFiniteSet(known)
  /\ upload \in [Chargers -> Charge \cup {Idle}]
  /\ overlapped \subseteq Payers /\ credited \subseteq Payers /\ lowered \subseteq Payers
  /\ quotaOps \in Nat

\* The upload c of the tenant t is beyond the gate.
Beyond(c, t) == upload[c] # Idle /\ upload[c].doc[1] = t

\* One upload of a tenant at a time, and the vault it brings still fits.
VaultsInv ==
  /\ \A t \in Payers \ overlapped : \A b, c \in Chargers : Beyond(b, t) /\ Beyond(c, t) => b = c
  /\ \A t \in Payers \ (overlapped \cup lowered) :
       /\ Cardinality(KnownTo(t)) <= VaultLimit[tier[t]]
       /\ \A c \in Chargers : Beyond(c, t) =>
            upload[c].doc \in known \/ Cardinality(KnownTo(t)) < VaultLimit[tier[t]]

\* A set of natural numbers that is not empty has a least element: induction
\* without an operator as a parameter.
LEMMA LeastNat == ASSUME NEW T, T \subseteq Nat, T # {}
                  PROVE  \E n \in T : \A m \in T : n <= m
<1> DEFINE R == {ss \in Nat \X Nat : ss[1] < ss[2]}
<1>1. OpToRel(<, Nat) = R
  BY Zenon DEF OpToRel
<1>2. IsWellFoundedOn(R, Nat)
  BY <1>1, NatLessThanWellFounded, Zenon
<1> HIDE DEF R
<1>3. \E n \in T : \A m \in T : ~(<<m, n>> \in R)
  BY <1>2, WFMin, Zenon
<1>4. \A m, n \in T : ~(<<m, n>> \in R) => n <= m
  BY DEF R
<1> QED
  BY <1>3, <1>4, Zenon

\* A tenant without a subscription has the least of the plans.
LEMMA PlansMin == Min(Plans) \in Plans
  BY LeastNat, QuotaAssumption DEF Min

\* Every step keeps the types of the quota tables.
LEMMA QuotaTypesStep == QuotaTypes /\ [QuotaNext]_quotaVars => QuotaTypes'
<1> SUFFICES ASSUME QuotaTypes, [QuotaNext]_quotaVars
             PROVE  QuotaTypes'
  OBVIOUS
<1> USE QuotaAssumption DEF QuotaTypes, OneMore
<1>1. ASSUME NEW c \in Chargers, NEW d \in Payers \X Docs, NEW size \in Sizes, CheckUpload(c, d, size)
      PROVE  QuotaTypes'
  <2>1. [doc |-> d, size |-> size, at |-> "commit"] \in Charge
    BY DEF Charge
  <2>2. d[1] \in Payers
    OBVIOUS
  <2> QED
    BY <1>1, <2>1, <2>2 DEF CheckUpload
<1>2. ASSUME NEW c \in Chargers, CommitCharged(c)
      PROVE  QuotaTypes'
  <2>1. upload[c] \in Charge
    BY <1>2 DEF CommitCharged
  <2>2. [upload[c] EXCEPT !.at = "usage"] \in Charge /\ upload[c].doc \in Payers \X Docs
    BY <2>1 DEF Charge
  <2>3. [size |-> upload[c].size, deleted |-> FALSE] \in DocRow
    BY <2>1 DEF Charge, DocRow
  <2>4. upload' = [upload EXCEPT ![c] = [upload[c] EXCEPT !.at = "usage"]]
    BY <1>2 DEF CommitCharged
  <2> QED
    BY <1>2, <2>2, <2>3, <2>4 DEF CommitCharged
<1>3. ASSUME NEW c \in Chargers, RecordUsage(c)
      PROVE  QuotaTypes'
  <2>1. upload[c].doc \in Payers \X Docs
    BY <1>3 DEF RecordUsage, Charge
  <2>2. IsFiniteSet(known')
    BY <1>3, FS_AddElement DEF RecordUsage
  <2> QED
    BY <1>3, <2>1, <2>2 DEF RecordUsage
<1>4. ASSUME NEW c \in Chargers, UploadFails(c)
      PROVE  QuotaTypes'
  BY <1>4 DEF UploadFails
<1>5. ASSUME NEW d \in Payers \X Docs, TombstoneDoc(d)
      PROVE  QuotaTypes'
  <2>1. file[d] \in DocRow
    BY <1>5 DEF TombstoneDoc, LiveDocs
  <2>2. [file[d] EXCEPT !.deleted = TRUE] \in DocRow
    BY <2>1 DEF DocRow
  <2>3. file' = [file EXCEPT ![d] = [file[d] EXCEPT !.deleted = TRUE]]
    BY <1>5 DEF TombstoneDoc
  <2> QED
    BY <1>5, <2>2, <2>3 DEF TombstoneDoc
<1>6. ASSUME NEW t \in Payers, NEW p \in Plans, Becomes(t, p)
      PROVE  QuotaTypes'
  BY <1>6 DEF Becomes
<1>7. CASE UNCHANGED quotaVars
  BY <1>7 DEF quotaVars
<1> HIDE DEF QuotaTypes, OneMore
<1> QED
  BY <1>1, <1>2, <1>3, <1>4, <1>5, <1>6, <1>7, PlansMin DEF QuotaNext, StripeWebhook, SignupPlan

\* Every step keeps the vaults of a tenant within its plan.
LEMMA VaultsStep == QuotaTypes /\ VaultsInv /\ [QuotaNext]_quotaVars => VaultsInv'
<1> SUFFICES ASSUME QuotaTypes, VaultsInv, [QuotaNext]_quotaVars
             PROVE  VaultsInv'
  OBVIOUS
<1> USE QuotaAssumption
<1>0. /\ QuotaTypes' /\ \A t \in Payers : tier[t] \in Plans /\ VaultLimit[tier[t]] \in Nat
      /\ \A t \in Payers : IsFiniteSet(KnownTo(t)) /\ Cardinality(KnownTo(t)) \in Nat
  <2>1. QuotaTypes' /\ \A t \in Payers : tier[t] \in Plans /\ VaultLimit[tier[t]] \in Nat
    BY QuotaTypesStep DEF QuotaTypes
  <2>2. ASSUME NEW t \in Payers
        PROVE  IsFiniteSet(KnownTo(t)) /\ Cardinality(KnownTo(t)) \in Nat
    <3>1. IsFiniteSet(known) /\ KnownTo(t) \subseteq known
      BY DEF QuotaTypes, KnownTo
    <3> QED
      BY <3>1, FS_Subset, FS_CardinalityType
  <2> QED
    BY <2>1, <2>2
<1>1. ASSUME NEW c \in Chargers, NEW d \in Payers \X Docs, NEW size \in Sizes, CheckUpload(c, d, size)
      PROVE  VaultsInv'
  <2>1. /\ upload[c] = Idle /\ upload'[c].doc = d /\ \A b \in Chargers \ {c} : upload'[b] = upload[b]
        /\ WithinVaults(d) /\ UNCHANGED <<tier, known, lowered>> /\ d[1] \in Payers
        /\ overlapped' = IF Over(d[1]) THEN overlapped \cup {d[1]} ELSE overlapped
    BY <1>1 DEF CheckUpload, QuotaTypes
  <2>2. \A t \in Payers : KnownTo(t)' = KnownTo(t)
    BY <2>1 DEF KnownTo
  <2>3. overlapped \subseteq overlapped'
    BY <2>1
  <2>4. ASSUME NEW t \in Payers \ overlapped', NEW a \in Chargers, NEW b \in Chargers,
               Beyond(a, t)', Beyond(b, t)'
        PROVE  a = b
    BY <2>1, <2>4 DEF Beyond, Over, VaultsInv
  <2>5. ASSUME NEW t \in Payers \ (overlapped' \cup lowered'), NEW b \in Chargers, Beyond(b, t)'
        PROVE  upload'[b].doc \in known' \/ Cardinality(KnownTo(t)') < VaultLimit[tier'[t]]
    <3>1. CASE b = c
      BY <2>1, <2>2, <2>5, <3>1 DEF Beyond, WithinVaults
    <3>2. CASE b # c
      BY <2>1, <2>2, <2>5, <3>2 DEF Beyond, VaultsInv
    <3> QED
      BY <3>1, <3>2
  <2> QED
    BY <2>1, <2>2, <2>4, <2>5 DEF VaultsInv
<1>2. ASSUME NEW c \in Chargers, CommitCharged(c)
      PROVE  VaultsInv'
  <2>1. \A b \in Chargers : /\ (upload'[b] # Idle) = (upload[b] # Idle)
                            /\ upload[b] # Idle => upload'[b].doc = upload[b].doc
    <3>1. upload[c] \in Charge
      BY <1>2 DEF CommitCharged, QuotaTypes
    <3>2. upload'[c] = [upload[c] EXCEPT !.at = "usage"] /\ \A b \in Chargers \ {c} : upload'[b] = upload[b]
      BY <1>2 DEF CommitCharged, QuotaTypes
    <3>3. upload'[c].doc = upload[c].doc /\ upload'[c] \in Charge
      BY <3>1, <3>2 DEF Charge
    <3> QED
      BY <3>1, <3>2, <3>3
  <2>2. UNCHANGED <<tier, known, overlapped, lowered>> /\ \A t \in Payers : KnownTo(t)' = KnownTo(t)
    BY <1>2 DEF CommitCharged, KnownTo
  <2> QED
    BY <2>1, <2>2 DEF VaultsInv, Beyond
<1>3. ASSUME NEW c \in Chargers, RecordUsage(c)
      PROVE  VaultsInv'
  <2> DEFINE d == upload[c].doc
  <2>1. d \in Payers \X Docs /\ upload[c] # Idle /\ d[1] \in Payers
    BY <1>3 DEF RecordUsage, QuotaTypes, Charge
  <2>2. /\ known' = known \cup {d} /\ UNCHANGED <<tier, overlapped, lowered>>
        /\ upload'[c] = Idle /\ \A b \in Chargers \ {c} : upload'[b] = upload[b]
    BY <1>3 DEF RecordUsage, QuotaTypes
  <2>3. \A t \in Payers : KnownTo(t)' = IF t = d[1] THEN KnownTo(t) \cup {d} ELSE KnownTo(t)
    BY <2>2 DEF KnownTo
  <2> HIDE DEF d
  <2>4. ASSUME NEW t \in Payers \ (overlapped \cup lowered)
        PROVE  Cardinality(KnownTo(t)') <= VaultLimit[tier[t]]
    <3>1. CASE t = d[1] /\ d \notin known
      <4>1. Cardinality(KnownTo(t)) < VaultLimit[tier[t]]
        BY <2>1, <3>1 DEF VaultsInv, Beyond, d
      <4>2. d \notin KnownTo(t)
        BY <3>1 DEF KnownTo
      <4>3. Cardinality(KnownTo(t) \cup {d}) = Cardinality(KnownTo(t)) + 1
        BY <1>0, <4>2, FS_AddElement
      <4> QED
        <5>1. KnownTo(t)' = KnownTo(t) \cup {d}
          BY <2>3, <3>1
        <5> QED
          BY <1>0, <4>1, <4>3, <5>1
    <3>2. CASE ~(t = d[1] /\ d \notin known)
      <4>1. KnownTo(t)' = KnownTo(t)
        BY <2>3, <3>2 DEF KnownTo
      <4> QED
        BY <4>1 DEF VaultsInv
    <3> QED
      BY <3>1, <3>2
  <2>5. ASSUME NEW t \in Payers \ (overlapped \cup lowered), NEW b \in Chargers, Beyond(b, t)'
        PROVE  upload'[b].doc \in known' \/ Cardinality(KnownTo(t)') < VaultLimit[tier[t]]
    <3>1. b # c /\ Beyond(b, t)
      BY <2>2, <2>5 DEF Beyond
    <3>2. t # d[1]
      BY <2>1, <3>1 DEF VaultsInv, Beyond, d
    <3> QED
      BY <2>2, <2>3, <3>1, <3>2 DEF VaultsInv
  <2>6. \A t \in Payers \ overlapped : \A a, b \in Chargers : Beyond(a, t)' /\ Beyond(b, t)' => a = b
    BY <2>2 DEF VaultsInv, Beyond
  <2> QED
    BY <2>2, <2>4, <2>5, <2>6 DEF VaultsInv
<1>4. ASSUME NEW c \in Chargers, UploadFails(c)
      PROVE  VaultsInv'
  <2>1. \A b \in Chargers : upload'[b] = IF b = c THEN Idle ELSE upload[b]
    BY <1>4 DEF UploadFails, QuotaTypes
  <2> QED
    BY <1>4, <2>1 DEF UploadFails, VaultsInv, Beyond, KnownTo
<1>5. ASSUME NEW d \in Payers \X Docs, TombstoneDoc(d)
      PROVE  VaultsInv'
  BY <1>5 DEF TombstoneDoc, VaultsInv, Beyond, KnownTo
<1>6. ASSUME NEW t \in Payers, NEW p \in Plans, Becomes(t, p)
      PROVE  VaultsInv'
  <2>1. /\ UNCHANGED <<known, upload, overlapped>> /\ lowered \subseteq lowered'
        /\ \A u \in Payers : KnownTo(u)' = KnownTo(u) /\ \A b \in Chargers : Beyond(b, u)' = Beyond(b, u)
    BY <1>6 DEF Becomes, KnownTo, Beyond
  <2>2. ASSUME NEW u \in Payers \ lowered'
        PROVE  VaultLimit[tier[u]] <= VaultLimit[tier'[u]] /\ VaultLimit[tier'[u]] \in Nat
    <3>1. tier[u] \in Plans /\ tier'[u] \in Plans /\ Plans \subseteq Nat /\ u \notin lowered'
      BY <1>0 DEF QuotaTypes
    <3>2. tier'[u] = IF u = t THEN p ELSE tier[u]
      BY <1>6 DEF Becomes, QuotaTypes
    <3>3. u = t => ~(p < tier[u])
      BY <1>6, <3>1 DEF Becomes
    <3>4. tier[u] <= tier'[u]
      <4>1. tier[u] \in Nat /\ p \in Nat
        BY <3>1
      <4> QED
        BY <3>2, <3>3, <4>1
    <3>5. \A a, b \in Plans : a <= b => VaultLimit[a] <= VaultLimit[b] /\ VaultLimit[b] \in Nat
      OBVIOUS
    <3> QED
      BY <3>1, <3>4, <3>5
  <2> QED
    BY <1>0, <2>1, <2>2 DEF VaultsInv
<1>7. CASE UNCHANGED quotaVars
  BY <1>7 DEF quotaVars, VaultsInv, Beyond, KnownTo
<1> QED
  BY <1>1, <1>2, <1>3, <1>4, <1>5, <1>6, <1>7, PlansMin DEF QuotaNext, StripeWebhook, SignupPlan

-----------------------------------------------------------------------------

\* A set of finite sets that is not empty has one whose proper subsets are outside it.
LEMMA LeastSet == ASSUME NEW F, F # {}, \A S \in F : IsFiniteSet(S)
                  PROVE  \E S \in F : \A R \in F : R \subseteq S => R = S
<1> DEFINE T == {Cardinality(S) : S \in F}
<1>1. T \subseteq Nat /\ T # {}
  BY FS_CardinalityType
<1>2. PICK n \in T : \A m \in T : n <= m
  BY <1>1, LeastNat
<1>3. PICK S \in F : n = Cardinality(S)
  BY <1>2
<1>4. ASSUME NEW R \in F, R \subseteq S, R # S
      PROVE  FALSE
  <2>1. Cardinality(R) < Cardinality(S)
    BY <1>4, FS_Subset, FS_CardinalityType
  <2>2. Cardinality(R) \in T /\ Cardinality(R) \in Nat /\ Cardinality(S) \in Nat
    BY FS_CardinalityType
  <2> QED
    BY <1>2, <1>3, <2>1, <2>2
<1> QED
  BY <1>4

One(s) == CHOOSE x \in s : TRUE

\* g is the function that InUse folds with, over the sizes in rows.
Summing(g, rows, S) ==
  g = [s \in SUBSET S |-> IF s = {} THEN 0
                          ELSE rows[CHOOSE x \in s : TRUE].size + g[s \ {CHOOSE x \in s : TRUE}]]
SumFcn(rows, S) == CHOOSE g : Summing(g, rows, S)
Total(rows, S) == SumFcn(rows, S)[S]

\* What the model reads as the storage in use is the sum over the live documents.
LEMMA InUseIsTotal == \A t : InUse(t) = Total(file, LiveDocs(t))
  BY Zenon DEF InUse, Total, SumFcn, Summing, MapThenSumSet, MapThenFoldSet

\* The sum of a set is that of one of its elements and of the rest.
LEMMA SummingAt ==
  ASSUME NEW rows, NEW S, NEW g, Summing(g, rows, S), NEW s \in SUBSET S
  PROVE  g[s] = IF s = {} THEN 0 ELSE rows[One(s)].size + g[s \ {One(s)}]
  BY DEF Summing, One

\* The element chosen from a set is in it.
LEMMA OneIn == ASSUME NEW s, s # {} PROVE One(s) \in s
  BY DEF One

\* Two such functions agree on the sets both are defined for.
LEMMA SummingUnique ==
  ASSUME NEW rows, NEW S, NEW R, IsFiniteSet(S), S \subseteq R,
         NEW g, NEW h, Summing(g, rows, S), Summing(h, rows, R)
  PROVE  \A s \in SUBSET S : g[s] = h[s]
<1> DEFINE F == {s \in SUBSET S : g[s] # h[s]}
<1>1. CASE F = {}
  BY <1>1
<1>2. CASE F # {}
  <2>1. \A s \in F : IsFiniteSet(s)
    BY FS_Subset
  <2>2. PICK s \in F : \A r \in F : r \subseteq s => r = s
    <3> HIDE DEF F
    <3> QED
      BY <1>2, <2>1, LeastSet
  <2>3. CASE s = {}
    BY <2>2, <2>3, SummingAt
  <2>4. CASE s # {}
    <3>1. s \ {One(s)} \notin F /\ s \ {One(s)} \in SUBSET S
      BY <2>2, <2>4, OneIn
    <3>2. g[s \ {One(s)}] = h[s \ {One(s)}]
      BY <3>1
    <3>3. g[s] = h[s]
      BY <2>4, <3>2, SummingAt
    <3> QED
      BY <3>3
  <2> QED
    BY <2>3, <2>4
<1> QED
  BY <1>1, <1>2

\* The function that sums exists for every finite set.
LEMMA SummingExists ==
  ASSUME NEW rows, NEW S, IsFiniteSet(S)
  PROVE  Summing(SumFcn(rows, S), rows, S)
<1> DEFINE F == {s \in SUBSET S : ~Summing(SumFcn(rows, s), rows, s)}
<1>1. SUFFICES F = {}
  BY <1>1
<1>2. SUFFICES ASSUME F # {}
               PROVE  FALSE
  BY <1>2
<1>3. \A s \in F : IsFiniteSet(s)
  BY FS_Subset
<1>4. PICK s \in F : \A r \in F : r \subseteq s => r = s
  <2> HIDE DEF F
  <2> QED
    BY <1>2, <1>3, LeastSet
<1>5. ASSUME NEW r \in SUBSET s, r # s
      PROVE  Summing(SumFcn(rows, r), rows, r)
  BY <1>4, <1>5
<1>6. ASSUME NEW r \in SUBSET s, r # s, r # {}
      PROVE  Total(rows, r) = rows[One(r)].size + Total(rows, r \ {One(r)})
  <2>1. /\ r \ {One(r)} \in SUBSET r /\ r \ {One(r)} \in SUBSET s /\ r \ {One(r)} # s
    BY <1>6, OneIn
  <2>2. IsFiniteSet(r \ {One(r)})
    BY <1>3, <1>4, <2>1, FS_Subset
  <2>3. SumFcn(rows, r)[r] = rows[One(r)].size + SumFcn(rows, r)[r \ {One(r)}]
    BY <1>5, <1>6, SummingAt
  <2>4. SumFcn(rows, r \ {One(r)})[r \ {One(r)}] = SumFcn(rows, r)[r \ {One(r)}]
    BY <1>5, <1>6, <2>1, <2>2, SummingUnique
  <2> QED
    BY <2>3, <2>4 DEF Total
<1>7. s # {} => Total(rows, {}) = 0
  BY <1>5, SummingAt DEF Total
<1> DEFINE all == IF s = {} THEN 0 ELSE rows[One(s)].size + Total(rows, s \ {One(s)})
           h == [r \in SUBSET s |-> IF r = s THEN all ELSE Total(rows, r)]
<1>8. ASSUME NEW r \in SUBSET s
      PROVE  h[r] = IF r = {} THEN 0 ELSE rows[One(r)].size + h[r \ {One(r)}]
  <2>1. CASE r = {}
    BY <1>7, <2>1
  <2>2. CASE r # {}
    <3>1. r \ {One(r)} \in SUBSET s /\ r \ {One(r)} # s
      BY <2>2, OneIn
    <3>2. h[r \ {One(r)}] = Total(rows, r \ {One(r)})
      BY <3>1
    <3>3. h[r] = rows[One(r)].size + Total(rows, r \ {One(r)})
      BY <1>6, <2>2
    <3> QED
      BY <2>2, <3>2, <3>3
  <2> QED
    BY <2>1, <2>2
<1>9. Summing(h, rows, s)
  <2>1. h = [r \in SUBSET s |-> h[r]]
    OBVIOUS
  <2> HIDE DEF h
  <2> QED
    BY <1>8, <2>1 DEF Summing, One
<1> HIDE DEF h
<1>10. Summing(SumFcn(rows, s), rows, s)
  BY <1>9, Zenon DEF SumFcn
<1> QED
  BY <1>10

\* The sum over nothing.
LEMMA TotalOfNone == \A rows : Total(rows, {}) = 0
  BY SummingExists, SummingAt, FS_EmptySet DEF Total

\* The sum over a set, one element taken out.
LEMMA TotalOfOne ==
  ASSUME NEW rows, NEW S, IsFiniteSet(S), S # {}
  PROVE  Total(rows, S) = rows[One(S)].size + Total(rows, S \ {One(S)})
<1>1. IsFiniteSet(S \ {One(S)}) /\ S \ {One(S)} \in SUBSET S
  BY FS_Subset
<1>2. SumFcn(rows, S)[S] = rows[One(S)].size + SumFcn(rows, S)[S \ {One(S)}]
  BY SummingExists, SummingAt
<1>3. SumFcn(rows, S \ {One(S)})[S \ {One(S)}] = SumFcn(rows, S)[S \ {One(S)}]
  BY <1>1, SummingExists, SummingUnique
<1> QED
  BY <1>2, <1>3 DEF Total

\* A sum of sizes is a size.
LEMMA TotalIsNat ==
  ASSUME NEW rows, NEW S, IsFiniteSet(S), \A x \in S : rows[x].size \in Nat
  PROVE  Total(rows, S) \in Nat
<1> DEFINE F == {s \in SUBSET S : Total(rows, s) \notin Nat}
<1>1. SUFFICES ASSUME F # {}
               PROVE  FALSE
  BY <1>1
<1>2. \A s \in F : IsFiniteSet(s)
  BY FS_Subset
<1>3. PICK s \in F : \A r \in F : r \subseteq s => r = s
  <2> HIDE DEF F
  <2> QED
    BY <1>1, <1>2, LeastSet
<1>4. s # {}
  BY TotalOfNone
<1>5. Total(rows, s) = rows[One(s)].size + Total(rows, s \ {One(s)}) /\ One(s) \in s
  BY <1>2, <1>4, TotalOfOne, OneIn
<1>6. s \ {One(s)} \notin F
  BY <1>3, <1>5
<1> QED
  BY <1>5, <1>6

\* The sum depends on the sizes of the set alone.
LEMMA TotalAgrees ==
  ASSUME NEW rows, NEW newrows, NEW S, IsFiniteSet(S), \A x \in S : rows[x].size = newrows[x].size
  PROVE  Total(rows, S) = Total(newrows, S)
<1> DEFINE F == {s \in SUBSET S : Total(rows, s) # Total(newrows, s)}
<1>1. SUFFICES ASSUME F # {}
               PROVE  FALSE
  BY <1>1
<1>2. \A s \in F : IsFiniteSet(s)
  BY FS_Subset
<1>3. PICK s \in F : \A r \in F : r \subseteq s => r = s
  <2> HIDE DEF F
  <2> QED
    BY <1>1, <1>2, LeastSet
<1>4. s # {}
  BY TotalOfNone
<1>5. /\ Total(rows, s) = rows[One(s)].size + Total(rows, s \ {One(s)})
      /\ Total(newrows, s) = newrows[One(s)].size + Total(newrows, s \ {One(s)})
      /\ One(s) \in s
  BY <1>2, <1>4, TotalOfOne, OneIn
<1>6. s \ {One(s)} \notin F
  BY <1>3, <1>5
<1> QED
  BY <1>5, <1>6

\* The sum does not depend on which element is taken out first.
LEMMA TotalOfAny ==
  ASSUME NEW rows, NEW S, IsFiniteSet(S), \A x \in S : rows[x].size \in Nat, NEW x \in S
  PROVE  Total(rows, S) = rows[x].size + Total(rows, S \ {x})
<1> DEFINE F == {s \in SUBSET S : \E y \in s : Total(rows, s) # rows[y].size + Total(rows, s \ {y})}
<1>1. SUFFICES ASSUME F # {}
               PROVE  FALSE
  BY <1>1
<1>2. \A s \in F : IsFiniteSet(s)
  BY FS_Subset
<1>3. PICK s \in F : \A r \in F : r \subseteq s => r = s
  <2> HIDE DEF F
  <2> QED
    BY <1>1, <1>2, LeastSet
<1>4. PICK y \in s : Total(rows, s) # rows[y].size + Total(rows, s \ {y})
  BY <1>3
<1> DEFINE c == One(s)
<1>5. c \in s /\ Total(rows, s) = rows[c].size + Total(rows, s \ {c}) /\ c # y
  BY <1>2, <1>4, TotalOfOne, OneIn
<1> HIDE DEF c
<1>6. s \ {c} \notin F /\ s \ {y} \notin F
  BY <1>3, <1>4, <1>5
<1>7. /\ Total(rows, s \ {c}) = rows[y].size + Total(rows, (s \ {c}) \ {y})
      /\ Total(rows, s \ {y}) = rows[c].size + Total(rows, (s \ {y}) \ {c})
  BY <1>4, <1>5, <1>6
<1>8. (s \ {c}) \ {y} = (s \ {y}) \ {c}
  OBVIOUS
<1>9. Total(rows, (s \ {y}) \ {c}) \in Nat /\ rows[c].size \in Nat /\ rows[y].size \in Nat
  <2>1. IsFiniteSet((s \ {y}) \ {c}) /\ (s \ {y}) \ {c} \subseteq S
    BY <1>2, FS_Subset
  <2> QED
    BY <1>5, <2>1, TotalIsNat
<1>10. \A a, b, r \in Nat : a + (b + r) = b + (a + r)
  OBVIOUS
<1>11. /\ Total(rows, s) = rows[c].size + (rows[y].size + Total(rows, (s \ {y}) \ {c}))
       /\ Total(rows, s \ {y}) = rows[c].size + Total(rows, (s \ {y}) \ {c})
  BY <1>5, <1>7, <1>8, Zenon
<1>12. rows[c].size + (rows[y].size + Total(rows, (s \ {y}) \ {c}))
         = rows[y].size + (rows[c].size + Total(rows, (s \ {y}) \ {c}))
  BY <1>9, <1>10, Zenon
<1>13. Total(rows, s) = rows[y].size + Total(rows, s \ {y})
  BY <1>11, <1>12, Zenon
<1> QED
  BY <1>4, <1>13, Zenon

-----------------------------------------------------------------------------
Fits(total, size, old, limit) ==
  (IF total + size >= old THEN total + size - old ELSE 0) <= limit

StoredInv ==
  /\ \A t \in Payers : IsFiniteSet(LiveDocs(t))
  /\ \A t \in Payers \ overlapped : \A b, c \in Chargers : Beyond(b, t) /\ Beyond(c, t) => b = c
  /\ \A t \in Payers \ (overlapped \cup credited \cup lowered) :
       /\ Total(file, LiveDocs(t)) <= StorageLimit[tier[t]]
       /\ \A c \in Chargers : Beyond(c, t) /\ upload[c].at = "commit" =>
            upload[c].size + Total(file, LiveDocs(t) \ {upload[c].doc}) <= StorageLimit[tier[t]]

\* What the gate compares: with the old size given back, the new one fits.
LEMMA FitsRest == \A old, rest, size, limit \in Nat : Fits(old + rest, size, old, limit) => size + rest <= limit
  BY DEF Fits

\* Every step keeps what a tenant stores within its plan.
LEMMA StoredStep == QuotaTypes /\ StoredInv /\ [QuotaNext]_quotaVars => StoredInv'
<1> SUFFICES ASSUME QuotaTypes, StoredInv, [QuotaNext]_quotaVars
             PROVE  StoredInv'
  OBVIOUS
<1> USE QuotaAssumption
<1>0. /\ QuotaTypes'
      /\ \A t \in Payers : tier[t] \in Plans /\ StorageLimit[tier[t]] \in Nat
  BY QuotaTypesStep DEF QuotaTypes
<1>a. ASSUME NEW t \in Payers, NEW d
      PROVE  /\ IsFiniteSet(LiveDocs(t)) /\ IsFiniteSet(LiveDocs(t) \ {d})
             /\ \A e \in LiveDocs(t) : e \in Payers \X Docs /\ file[e] \in DocRow /\ file[e].size \in Nat
             /\ Total(file, LiveDocs(t)) \in Nat /\ Total(file, LiveDocs(t) \ {d}) \in Nat
             /\ d \in LiveDocs(t) => Total(file, LiveDocs(t)) = file[d].size + Total(file, LiveDocs(t) \ {d})
             /\ d \notin LiveDocs(t) => Total(file, LiveDocs(t)) = Total(file, LiveDocs(t) \ {d})
  <2>1. IsFiniteSet(LiveDocs(t)) /\ IsFiniteSet(LiveDocs(t) \ {d})
    BY FS_Subset DEF StoredInv
  <2>2. ASSUME NEW e \in LiveDocs(t)
        PROVE  e \in Payers \X Docs /\ file[e] \in DocRow /\ file[e].size \in Nat
    BY DEF LiveDocs, QuotaTypes, DocRow
  <2>3. Total(file, LiveDocs(t)) \in Nat /\ Total(file, LiveDocs(t) \ {d}) \in Nat
    BY <2>1, <2>2, TotalIsNat
  <2>4. d \in LiveDocs(t) => Total(file, LiveDocs(t)) = file[d].size + Total(file, LiveDocs(t) \ {d})
    BY <2>1, <2>2, TotalOfAny
  <2>5. d \notin LiveDocs(t) => LiveDocs(t) \ {d} = LiveDocs(t)
    OBVIOUS
  <2> QED
    BY <2>1, <2>2, <2>3, <2>4, <2>5
<1>1. ASSUME NEW c \in Chargers, NEW d \in Payers \X Docs, NEW size \in Sizes, CheckUpload(c, d, size)
      PROVE  StoredInv'
  <2>1. /\ upload[c] = Idle /\ upload'[c] = [doc |-> d, size |-> size, at |-> "commit"]
        /\ \A b \in Chargers \ {c} : upload'[b] = upload[b]
        /\ UNCHANGED <<tier, file, lowered>> /\ d[1] \in Payers
        /\ overlapped' = IF Over(d[1]) THEN overlapped \cup {d[1]} ELSE overlapped
        /\ credited' = IF file[d] # Idle /\ file[d].deleted THEN credited \cup {d[1]} ELSE credited
    BY <1>1 DEF CheckUpload, QuotaTypes
  <2>2. \A t \in Payers : LiveDocs(t)' = LiveDocs(t) /\ Total(file', LiveDocs(t)') = Total(file, LiveDocs(t))
    BY <2>1 DEF LiveDocs
  <2>3. overlapped \subseteq overlapped' /\ credited \subseteq credited'
    BY <2>1
  <2>4. ASSUME NEW t \in Payers \ overlapped', NEW a \in Chargers, NEW b \in Chargers,
               Beyond(a, t)', Beyond(b, t)'
        PROVE  a = b
    BY <2>1, <2>4 DEF Beyond, Over, StoredInv
  <2>5. ASSUME d[1] \notin credited'
        PROVE  size + Total(file, LiveDocs(d[1]) \ {d}) <= StorageLimit[tier[d[1]]]
    <3> DEFINE t == d[1]
    <3>1. size \in Nat /\ StorageLimit[tier[t]] \in Nat /\ Total(file, LiveDocs(t)) \in Nat
          /\ Total(file, LiveDocs(t) \ {d}) \in Nat
      BY <1>0, <1>a, <2>1
    <3>2. Fits(Total(file, LiveDocs(t)), size, OldSize(d), StorageLimit[tier[t]])
      BY <1>1, InUseIsTotal DEF CheckUpload, WithinStorage, Fits
    <3>3. CASE d \in LiveDocs(t)
      <4>1. OldSize(d) = file[d].size /\ file[d].size \in Nat
        BY <1>a, <2>1, <3>3 DEF OldSize, LiveDocs
      <4>2. Total(file, LiveDocs(t)) = file[d].size + Total(file, LiveDocs(t) \ {d})
        BY <1>a, <2>1, <3>3
      <4>3. Fits(file[d].size + Total(file, LiveDocs(t) \ {d}), size, file[d].size, StorageLimit[tier[t]])
        BY <3>2, <4>1, <4>2
      <4> QED
        BY <3>1, <4>1, <4>3, FitsRest, Zenon
    <3>4. CASE d \notin LiveDocs(t)
      <4>1. file[d] = Idle
        BY <2>1, <2>5, <3>4 DEF LiveDocs
      <4>2. OldSize(d) = 0 /\ Total(file, LiveDocs(t)) = Total(file, LiveDocs(t) \ {d})
        BY <1>a, <2>1, <3>4, <4>1 DEF OldSize
      <4>3. Fits(0 + Total(file, LiveDocs(t) \ {d}), size, 0, StorageLimit[tier[t]])
        BY <3>1, <3>2, <4>2
      <4>4. 0 \in Nat
        OBVIOUS
      <4> QED
        BY <3>1, <4>3, <4>4, FitsRest, Zenon
    <3> QED
      BY <3>3, <3>4
  <2>6. ASSUME NEW t \in Payers \ (overlapped' \cup credited' \cup lowered'), NEW b \in Chargers,
               Beyond(b, t)', upload'[b].at = "commit"
        PROVE  upload'[b].size + Total(file', LiveDocs(t)' \ {upload'[b].doc}) <= StorageLimit[tier'[t]]
    <3>1. CASE b = c
      <4>1. upload'[b].size = size /\ upload'[b].doc = d /\ t = d[1]
        BY <2>1, <2>6, <3>1 DEF Beyond
      <4> QED
        BY <2>1, <2>2, <2>5, <4>1
    <3>2. CASE b # c
      <4>1. upload'[b] = upload[b] /\ Beyond(b, t)
        BY <2>1, <2>6, <3>2 DEF Beyond
      <4> QED
        BY <2>1, <2>2, <2>3, <2>6, <4>1 DEF StoredInv
    <3> QED
      BY <3>1, <3>2
  <2> QED
    BY <2>1, <2>2, <2>3, <2>4, <2>6 DEF StoredInv
<1>2. ASSUME NEW c \in Chargers, CommitCharged(c)
      PROVE  StoredInv'
  <2>0. PICK d, n : d = upload[c].doc /\ n = upload[c].size
    OBVIOUS
  <2>1. /\ upload[c] \in Charge /\ upload[c].at = "commit" /\ d \in Payers \X Docs /\ n \in Nat
        /\ d[1] \in Payers
    BY <1>2, <2>0 DEF CommitCharged, QuotaTypes, Charge
  <2>2. /\ file' = [file EXCEPT ![d] = [size |-> n, deleted |-> FALSE]]
        /\ UNCHANGED <<tier, overlapped, credited, lowered>>
        /\ upload'[c] = [upload[c] EXCEPT !.at = "usage"]
        /\ \A b \in Chargers \ {c} : upload'[b] = upload[b]
    BY <1>2, <2>0 DEF CommitCharged, QuotaTypes
  <2>3. upload'[c] \in Charge /\ upload'[c].doc = d /\ upload'[c].at = "usage"
    BY <2>0, <2>1, <2>2 DEF Charge
  <2>4. /\ file'[d].size = n /\ file'[d] \in DocRow /\ ~file'[d].deleted
        /\ \A e \in (Payers \X Docs) \ {d} : file'[e] = file[e]
    <3>1. n \in Sizes
      BY <2>0, <2>1 DEF Charge
    <3>2. file'[d] = [size |-> n, deleted |-> FALSE] /\ \A e \in (Payers \X Docs) \ {d} : file'[e] = file[e]
      BY <2>1, <2>2 DEF QuotaTypes
    <3> QED
      BY <3>1, <3>2 DEF DocRow
  <2>5. \A t \in Payers : LiveDocs(t)' = IF t = d[1] THEN LiveDocs(t) \cup {d} ELSE LiveDocs(t)
    BY <2>1, <2>4 DEF LiveDocs
  <2>6. ASSUME NEW t \in Payers, t # d[1], NEW e
        PROVE  Total(file', LiveDocs(t)') = Total(file, LiveDocs(t)) /\ Total(file', LiveDocs(t)' \ {e}) = Total(file, LiveDocs(t) \ {e})
    <3>1. LiveDocs(t)' = LiveDocs(t)
      BY <2>5, <2>6
    <3>2. d \notin LiveDocs(t)
      BY <2>6 DEF LiveDocs
    <3>3. \A x \in LiveDocs(t) : file[x].size = file'[x].size
      BY <1>a, <2>4, <3>2
    <3>4. Total(file, LiveDocs(t)) = Total(file', LiveDocs(t))
      <4>1. IsFiniteSet(LiveDocs(t))
        BY <1>a
      <4> QED
        BY <3>3, <4>1, TotalAgrees
    <3>5. Total(file, LiveDocs(t) \ {e}) = Total(file', LiveDocs(t) \ {e})
      <4>1. IsFiniteSet(LiveDocs(t) \ {e})
        BY <1>a
      <4>2. \A x \in LiveDocs(t) \ {e} : file[x].size = file'[x].size
        BY <3>3
      <4> QED
        BY <4>1, <4>2, TotalAgrees
    <3> QED
      BY <3>1, <3>4, <3>5
  <2>7. Total(file', LiveDocs(d[1])') = n + Total(file, LiveDocs(d[1]) \ {d})
    <3> DEFINE t == d[1]
    <3>0. LiveDocs(t)' = LiveDocs(t) \cup {d}
      BY <2>1, <2>5, Zenon
    <3>1. LiveDocs(t)' = LiveDocs(t) \cup {d} /\ LiveDocs(t)' \ {d} = LiveDocs(t) \ {d}
      BY <3>0
    <3>2. \A x \in LiveDocs(t) \ {d} : file[x].size = file'[x].size /\ file[x].size \in Nat
      BY <1>a, <2>1, <2>4
    <3>3. IsFiniteSet(LiveDocs(t) \cup {d})
      BY <1>a, <2>1, FS_AddElement
    <3>4. Total(file', LiveDocs(t) \cup {d}) = file'[d].size + Total(file', (LiveDocs(t) \cup {d}) \ {d})
      <4>1. \A x \in LiveDocs(t) \cup {d} : file'[x].size \in Nat
        BY <2>1, <2>4, <3>2
      <4> QED
        BY <3>3, <4>1, TotalOfAny
    <3>5. Total(file', LiveDocs(t) \ {d}) = Total(file, LiveDocs(t) \ {d})
      <4>1. IsFiniteSet(LiveDocs(t) \ {d})
        BY <1>a, <2>1
      <4> QED
        BY <3>2, <4>1, TotalAgrees
    <3>6. Total(file', LiveDocs(t)') = Total(file', LiveDocs(t)')
      OBVIOUS
    <3> QED
      BY <2>4, <3>1, <3>4, <3>5, <3>6
  <2>8. ASSUME NEW t \in Payers \ (overlapped \cup credited \cup lowered)
        PROVE  Total(file', LiveDocs(t)') <= StorageLimit[tier[t]]
    <3>1. CASE t = d[1]
      <4>1. Beyond(c, t)
        BY <1>2, <2>0, <3>1 DEF Beyond, CommitCharged
      <4>2. n + Total(file, LiveDocs(t) \ {d}) <= StorageLimit[tier[t]]
        BY <2>0, <2>1, <4>1 DEF StoredInv
      <4> QED
        BY <2>7, <3>1, <4>2, Zenon
    <3>2. CASE t # d[1]
      BY <2>6, <3>2 DEF StoredInv
    <3> QED
      BY <3>1, <3>2
  <2>9. \A t \in Payers, b \in Chargers : Beyond(b, t)' = Beyond(b, t)
    <3>1. upload'[c] # Idle /\ upload[c] # Idle
      BY <2>1, <2>3, QuotaAssumption
    <3>2. upload'[c].doc = upload[c].doc
      BY <2>0, <2>3
    <3> QED
      BY <2>2, <3>1, <3>2, Zenon DEF Beyond
  <2>10. ASSUME NEW t \in Payers \ (overlapped \cup credited \cup lowered), NEW b \in Chargers,
                Beyond(b, t)', upload'[b].at = "commit"
         PROVE  upload'[b].size + Total(file', LiveDocs(t)' \ {upload'[b].doc}) <= StorageLimit[tier[t]]
    <3>1. b # c /\ upload'[b] = upload[b] /\ Beyond(b, t)
      BY <2>2, <2>3, <2>9, <2>10
    <3>2. t # d[1]
      BY <1>2, <2>0, <3>1 DEF StoredInv, Beyond, CommitCharged
    <3> QED
      BY <2>6, <2>10, <3>1, <3>2 DEF StoredInv
  <2>11. \A t \in Payers : IsFiniteSet(LiveDocs(t)')
    <3>1. \A t \in Payers : IsFiniteSet(LiveDocs(t)) /\ IsFiniteSet(LiveDocs(t) \cup {d})
      BY <1>a, FS_AddElement
    <3> QED
      BY <2>5, <3>1
  <2> QED
    BY <2>2, <2>8, <2>9, <2>10, <2>11 DEF StoredInv
<1>3. ASSUME NEW c \in Chargers, RecordUsage(c) \/ UploadFails(c)
      PROVE  StoredInv'
  <2>1. \A b \in Chargers : upload'[b] = IF b = c THEN Idle ELSE upload[b]
    BY <1>3 DEF RecordUsage, UploadFails, QuotaTypes
  <2>2. UNCHANGED <<tier, file, overlapped, credited, lowered>>
    BY <1>3 DEF RecordUsage, UploadFails
  <2>3. \A t \in Payers : LiveDocs(t)' = LiveDocs(t) /\ Total(file', LiveDocs(t)') = Total(file, LiveDocs(t))
    BY <2>2 DEF LiveDocs
  <2> QED
    BY <2>1, <2>2, <2>3 DEF StoredInv, Beyond
<1>5. ASSUME NEW d \in Payers \X Docs, TombstoneDoc(d)
      PROVE  StoredInv'
  <2>1. /\ d \in LiveDocs(d[1]) /\ UNCHANGED <<tier, upload, overlapped, credited, lowered>>
        /\ file'[d] = [file[d] EXCEPT !.deleted = TRUE]
        /\ \A e \in (Payers \X Docs) \ {d} : file'[e] = file[e]
    BY <1>5 DEF TombstoneDoc, QuotaTypes
  <2>2. file'[d].size = file[d].size /\ file'[d].deleted /\ d[1] \in Payers
    BY <1>a, <2>1 DEF DocRow
  <2>3. ASSUME NEW t \in Payers
        PROVE  LiveDocs(t)' = LiveDocs(t) \ {d}
    <3>1. d \notin LiveDocs(t)'
      BY <2>2 DEF LiveDocs
    <3>2. \A x \in ({t} \X Docs) \ {d} : file'[x] = file[x]
      BY <2>1
    <3> QED
      BY <3>1, <3>2 DEF LiveDocs
  <2>4. ASSUME NEW t \in Payers, NEW e
        PROVE  /\ Total(file', LiveDocs(t)') <= Total(file, LiveDocs(t)) /\ Total(file', LiveDocs(t)') \in Nat
               /\ Total(file', LiveDocs(t)' \ {e}) <= Total(file, LiveDocs(t) \ {e})
               /\ Total(file', LiveDocs(t)' \ {e}) \in Nat
    <3>1. \A x \in LiveDocs(t) : file[x].size = file'[x].size /\ file[x].size \in Nat
      BY <1>a, <2>1, <2>2
    <3>2. IsFiniteSet(LiveDocs(t) \ {e}) /\ IsFiniteSet(LiveDocs(t) \ {d})
          /\ IsFiniteSet((LiveDocs(t) \ {e}) \ {d}) /\ IsFiniteSet(LiveDocs(t))
      BY <1>a, FS_Subset
    <3>3. Total(file', LiveDocs(t)') = Total(file, LiveDocs(t) \ {d})
      <4>1. \A x \in LiveDocs(t) \ {d} : file[x].size = file'[x].size
        BY <3>1
      <4>2. Total(file, LiveDocs(t) \ {d}) = Total(file', LiveDocs(t) \ {d})
        BY <3>2, <4>1, TotalAgrees
      <4> QED
        BY <2>3, <4>2
    <3>4. Total(file', LiveDocs(t)' \ {e}) = Total(file, (LiveDocs(t) \ {e}) \ {d})
      <4>1. LiveDocs(t)' \ {e} = (LiveDocs(t) \ {e}) \ {d}
        BY <2>3
      <4>2. \A x \in (LiveDocs(t) \ {e}) \ {d} : file[x].size = file'[x].size
        BY <3>1
      <4>3. Total(file, (LiveDocs(t) \ {e}) \ {d}) = Total(file', (LiveDocs(t) \ {e}) \ {d})
        BY <3>2, <4>2, TotalAgrees
      <4> QED
        BY <4>1, <4>3
    <3>5. ASSUME NEW S \in SUBSET LiveDocs(t), IsFiniteSet(S)
          PROVE  Total(file, S \ {d}) <= Total(file, S) /\ Total(file, S \ {d}) \in Nat
      <4>1. IsFiniteSet(S \ {d}) /\ Total(file, S \ {d}) \in Nat
        BY <3>1, <3>5, FS_Subset, TotalIsNat
      <4>2. CASE d \in S
        <5>1. Total(file, S) = file[d].size + Total(file, S \ {d})
          BY <3>1, <3>5, <4>2, TotalOfAny
        <5>2. file[d].size \in Nat
          BY <3>1, <4>2
        <5> QED
          BY <4>1, <5>1, <5>2
      <4>3. CASE d \notin S
        <5>1. S \ {d} = S
          BY <4>3
        <5>2. Total(file, S \ {d}) = Total(file, S)
          BY <5>1, Zenon
        <5> QED
          BY <4>1, <5>2
      <4> QED
        BY <4>2, <4>3
    <3> QED
      BY <3>2, <3>3, <3>4, <3>5
  <2>5. ASSUME NEW t \in Payers \ (overlapped \cup credited \cup lowered)
        PROVE  /\ Total(file', LiveDocs(t)') <= StorageLimit[tier[t]]
               /\ \A c \in Chargers : Beyond(c, t) /\ upload[c].at = "commit" =>
                    upload[c].size + Total(file', LiveDocs(t)' \ {upload[c].doc}) <= StorageLimit[tier[t]]
    <3>1. Total(file', LiveDocs(t)') <= Total(file, LiveDocs(t)) /\ Total(file', LiveDocs(t)') \in Nat /\ Total(file, LiveDocs(t)) \in Nat
          /\ Total(file, LiveDocs(t)) <= StorageLimit[tier[t]] /\ StorageLimit[tier[t]] \in Nat
      BY <1>0, <1>a, <2>4 DEF StoredInv
    <3>2. ASSUME NEW c \in Chargers, Beyond(c, t), upload[c].at = "commit"
          PROVE  upload[c].size + Total(file', LiveDocs(t)' \ {upload[c].doc}) <= StorageLimit[tier[t]]
      <4> DEFINE e == upload[c].doc
      <4>1. upload[c].size \in Nat
        BY <3>2 DEF Beyond, QuotaTypes, Charge
      <4>2. /\ Total(file', LiveDocs(t)' \ {e}) <= Total(file, LiveDocs(t) \ {e})
            /\ Total(file', LiveDocs(t)' \ {e}) \in Nat /\ Total(file, LiveDocs(t) \ {e}) \in Nat
        BY <1>a, <2>4
      <4>3. upload[c].size + Total(file, LiveDocs(t) \ {e}) <= StorageLimit[tier[t]]
        BY <3>2 DEF StoredInv
      <4> QED
        BY <3>1, <4>1, <4>2, <4>3
    <3> QED
      BY <3>1, <3>2
  <2>6. \A t \in Payers : IsFiniteSet(LiveDocs(t)')
    BY <1>a, <2>3
  <2>7. \A t \in Payers, b \in Chargers : Beyond(b, t)' = Beyond(b, t)
    BY <2>1 DEF Beyond
  <2> QED
    BY <2>1, <2>5, <2>6, <2>7 DEF StoredInv
<1>6. ASSUME NEW t \in Payers, NEW p \in Plans, Becomes(t, p)
      PROVE  StoredInv'
  <2>1. /\ UNCHANGED <<file, upload, overlapped, credited>> /\ lowered \subseteq lowered'
        /\ \A u \in Payers : /\ LiveDocs(u)' = LiveDocs(u) /\ Total(file', LiveDocs(u)') = Total(file, LiveDocs(u))
                             /\ \A b \in Chargers : Beyond(b, u)' = Beyond(b, u)
    BY <1>6 DEF Becomes, LiveDocs, Beyond
  <2>2. ASSUME NEW u \in Payers \ lowered'
        PROVE  StorageLimit[tier[u]] <= StorageLimit[tier'[u]]
    <3>1. tier[u] \in Plans /\ tier'[u] \in Plans /\ Plans \subseteq Nat /\ u \notin lowered'
      BY <1>0 DEF QuotaTypes
    <3>2. tier'[u] = IF u = t THEN p ELSE tier[u]
      BY <1>6 DEF Becomes, QuotaTypes
    <3>3. u = t => ~(p < tier[u])
      BY <1>6, <3>1 DEF Becomes
    <3>4. tier[u] <= tier'[u]
      <4>1. tier[u] \in Nat /\ p \in Nat
        BY <3>1
      <4> QED
        BY <3>2, <3>3, <4>1
    <3>5. \A a, b \in Plans : a <= b => StorageLimit[a] <= StorageLimit[b]
      OBVIOUS
    <3> QED
      BY <3>1, <3>4, <3>5
  <2>3. ASSUME NEW u \in Payers \ (overlapped \cup credited \cup lowered'), NEW m \in Nat,
               m <= StorageLimit[tier[u]]
        PROVE  m <= StorageLimit[tier'[u]]
    <3>1. StorageLimit[tier[u]] \in Nat /\ StorageLimit[tier'[u]] \in Nat
      BY <1>0 DEF QuotaTypes
    <3> QED
      BY <2>2, <2>3, <3>1
  <2>4. ASSUME NEW u \in Payers \ (overlapped \cup credited \cup lowered'), NEW c \in Chargers, Beyond(c, u)
        PROVE  upload[c].size + Total(file, LiveDocs(u) \ {upload[c].doc}) \in Nat
    <3>1. upload[c].size \in Nat
      BY <2>4 DEF Beyond, QuotaTypes, Charge
    <3>2. Total(file, LiveDocs(u) \ {upload[c].doc}) \in Nat
      BY <1>a
    <3> QED
      BY <3>1, <3>2
  <2>5. \A u \in Payers : Total(file, LiveDocs(u)) \in Nat
    BY <1>a
  <2> QED
    BY <2>1, <2>3, <2>4, <2>5 DEF StoredInv
<1>7. CASE UNCHANGED quotaVars
  BY <1>7 DEF quotaVars, StoredInv, Beyond, LiveDocs
<1> QED
  BY <1>1, <1>2, <1>3, <1>5, <1>6, <1>7, PlansMin DEF QuotaNext, StripeWebhook, SignupPlan

\* A tenant stores no more, and has no more vaults, than its plan allows, unless
\* two of its uploads overlapped, it was credited with a tombstone's bytes or its
\* plan was lowered (enforcer.rs).
THEOREM PlanHolds == QuotaSpec => []WithinPlan
<1>1. QuotaInit => QuotaTypes /\ VaultsInv /\ StoredInv
  <2> SUFFICES ASSUME QuotaInit
               PROVE  QuotaTypes /\ VaultsInv /\ StoredInv
    OBVIOUS
  <2> USE QuotaAssumption
  <2>1. QuotaTypes
    BY PlansMin, FS_EmptySet DEF QuotaInit, QuotaTypes
  <2>2. ASSUME NEW t \in Payers
        PROVE  LiveDocs(t) = {} /\ KnownTo(t) = {} /\ \A c \in Chargers : ~Beyond(c, t)
    BY DEF QuotaInit, LiveDocs, KnownTo, Beyond
  <2>3. \A t \in Payers : StorageLimit[tier[t]] \in Nat /\ VaultLimit[tier[t]] \in Nat
    BY <2>1 DEF QuotaTypes
  <2>4. Cardinality({}) = 0 /\ IsFiniteSet({})
    BY FS_EmptySet
  <2>5. \A t \in Payers : Total(file, LiveDocs(t)) = 0
    BY <2>2, TotalOfNone
  <2>6. VaultsInv
    BY <2>2, <2>3, <2>4 DEF VaultsInv
  <2>7. StoredInv
    <3>1. \A t \in Payers : IsFiniteSet(LiveDocs(t))
      BY <2>2, <2>4
    <3>2. \A t \in Payers : Total(file, LiveDocs(t)) <= StorageLimit[tier[t]]
      BY <2>3, <2>5
    <3> QED
      BY <2>2, <3>1, <3>2 DEF StoredInv
  <2> QED
    BY <2>1, <2>6, <2>7
<1>2. QuotaTypes /\ VaultsInv /\ StoredInv => WithinPlan
  BY InUseIsTotal DEF VaultsInv, StoredInv, WithinPlan, VaultsWithinPlan, StorageWithinPlan
<1> QED
  BY <1>1, <1>2, QuotaTypesStep, VaultsStep, StoredStep, PTL DEF QuotaSpec

-----------------------------------------------------------------------------
(* Stored bodies *)

\* The rows of the backend in use: the key names the content.
RowsOf(backend) ==
  IF backend = "local" THEN {[body |-> b, key |-> <<b>>] : b \in BodiesT}
  ELSE {[body |-> b, key |-> <<p, b>>] : p \in PathsT, b \in BodiesT}

StepsT == {"idle", "check", "create", "write", "move", "tidy", "send", "upsert", "lookup",
           "drop", "count", "remove", "lookup_to", "update"}

CallT == [op : {"idle", "put", "delete", "rename"}, at : StepsT,
          path : PathsT \cup {NoBodyT}, to : PathsT \cup {NoBodyT},
          row : RowsOf(backendT) \cup {AbsentRow},
          inode : {"tmp", "blob", "gone"}, tries : Nat]

\* Where each operation may be, and what it carries there.
CallShape(call) ==
  /\ call.op = "idle" => call.at = "idle"
  /\ call.op = "put" =>
       /\ call.path \in PathsT /\ call.row \in RowsOf(backendT)
       /\ call.at \in {"check", "create", "write", "move", "tidy", "send", "upsert"}
       /\ call.at \in {"check", "create", "write", "move", "tidy"} => backendT = "local"
  /\ call.op = "delete" => call.path \in PathsT /\ call.at \in {"lookup", "drop", "count", "remove"}
  /\ call.op = "rename" => /\ call.path \in PathsT /\ call.to \in PathsT
                           /\ call.at \in {"lookup", "lookup_to", "update", "upsert"}
  /\ call.op \in {"delete", "rename"} /\ call.at # "lookup" => call.row \in RowsOf(backendT)

GoodCalls == {call \in CallT : CallShape(call)}

StorageTypes ==
  /\ backendT \in {"local", "s3"}
  /\ rowsT \in [PathsT -> RowsOf(backendT) \cup {AbsentRow}]
  /\ bodiesT \in [StoreKeys -> {"absent", "torn", "whole"}]
  /\ tmpT \in [BodiesT -> {"absent", "torn", "whole"}]
  /\ callsT \in [CallsT -> GoodCalls]

\* Without an overlap no operation adds rows while another deletes them.
Apart ==
  \A c, o \in CallsT : callsT[c].op = "delete" => callsT[o].op \notin {"put", "rename"}

\* A delete that is about to remove a body has counted no row with its content.
RemovesUnreferenced ==
  \A c \in CallsT : InStep(c, "delete", "remove") =>
    \A p \in PathsT : rowsT[p].body # callsT[c].row.body

\* What a row, or an operation that will write a row, refers to is there.
BodiesThere ==
  /\ \A p \in PathsT : PresentT(p) => bodiesT[rowsT[p].key] # "absent"
  /\ \A c \in CallsT :
       \/ callsT[c].op = "put" /\ callsT[c].at \in {"tidy", "upsert"}
       \/ callsT[c].op = "rename" /\ callsT[c].at # "lookup"
       => bodiesT[callsT[c].row.key] # "absent"

\* A torn file has a writer that will complete it.  A temporary file without one may
\* be left behind, but then nobody is about to move it.
TornBlobs ==
  \A k \in StoreKeys : bodiesT[k] = "torn" =>
    \E c \in CallsT : InStep(c, "put", "write") /\ callsT[c].inode = "blob"
                      /\ callsT[c].row.key = k
TornTmps ==
  \A b \in BodiesT : tmpT[b] = "torn" =>
    \/ \E c \in CallsT : InStep(c, "put", "write") /\ callsT[c].inode = "tmp"
                         /\ callsT[c].row.body = b
    \/ \A c \in CallsT : callsT[c].op = "put" /\ callsT[c].at \in {"write", "move"} =>
         callsT[c].row.body # b
TornHasWriter == TornBlobs /\ TornTmps

StoreSound == Apart /\ RemovesUnreferenced /\ BodiesThere /\ TornHasWriter

StorageInv ==
  /\ StorageTypes
  /\ troubleT = {} => StoreSound

-----------------------------------------------------------------------------

\* The store key of a row and its content determine each other as far as needed.
LEMMA KeyNamesBody ==
  ASSUME NEW backend \in {"local", "s3"}, NEW r \in RowsOf(backend), NEW s \in RowsOf(backend)
  PROVE  /\ r.key \in StoreKeys /\ r.body \in BodiesT
         /\ r.key = s.key => r.body = s.body
         /\ backend = "local" /\ r.body = s.body => r.key = s.key
<1>1. CASE backend = "local"
  BY <1>1 DEF RowsOf, StoreKeys
<1>2. CASE backend = "s3"
  BY <1>2 DEF RowsOf, StoreKeys
<1> QED
  BY <1>1, <1>2

\* The row that an upload writes is one of the backend's.
LEMMA RowTOf ==
  ASSUME backendT \in {"local", "s3"}, NEW p \in PathsT, NEW b \in BodiesT
  PROVE  RowT(p, b) \in RowsOf(backendT) /\ RowT(p, b).body = b
<1>1. CASE backendT = "local"
  BY <1>1 DEF RowsOf, RowT, StoreKey
<1>2. CASE backendT = "s3"
  BY <1>2 DEF RowsOf, RowT, StoreKey
<1> QED
  BY <1>1, <1>2

\* A body that no row counts is in no row.
LEMMA UnreferencedMeans ==
  ASSUME NEW b, Unreferenced(b) PROVE \A p \in PathsT : rowsT[p].body # b
<1> DEFINE S == {p \in PathsT : rowsT[p].body = b}
<1>1. IsFiniteSet(S)
  BY StorageAssumption, FS_Subset, S \subseteq PathsT
<1> QED
  BY <1>1, FS_EmptySet DEF Unreferenced

\* A call that moves on keeps its arguments.
LEMMA NextStepT ==
  ASSUME NEW call \in GoodCalls, NEW at \in StepsT, NEW next, next = [call EXCEPT !.at = at]
  PROVE  /\ next \in CallT /\ next.at = at
         /\ next.op = call.op /\ next.path = call.path /\ next.to = call.to /\ next.row = call.row
BY DEF GoodCalls, CallT

\* Every step keeps the types of the rows, the bodies and the calls.
LEMMA StorageTypesStep == StorageTypes /\ [StorageNext]_storageVars => StorageTypes'
<1> SUFFICES ASSUME StorageTypes, [StorageNext]_storageVars
             PROVE  StorageTypes'
  OBVIOUS
<1> USE DEF StorageTypes, InStep, AdvanceCall, EndCall
<1>a. IdleT \in GoodCalls
  BY DEF GoodCalls, CallT, CallShape, IdleT, StepsT
<1>b. \A c \in CallsT : callsT[c] \in CallT /\ CallShape(callsT[c])
  BY DEF GoodCalls
<1>c. backendT' = backendT /\ GoodCalls' = GoodCalls => (StorageTypes' <=>
        /\ rowsT' \in [PathsT -> RowsOf(backendT) \cup {AbsentRow}]
        /\ bodiesT' \in [StoreKeys -> {"absent", "torn", "whole"}]
        /\ tmpT' \in [BodiesT -> {"absent", "torn", "whole"}]
        /\ callsT' \in [CallsT -> GoodCalls])
  OBVIOUS
<1>d. backendT' = backendT => GoodCalls' = GoodCalls
  BY DEF GoodCalls, CallT, CallShape, AbsentRow
<1>1. ASSUME NEW c \in CallsT, BeginPut(c)
      PROVE  StorageTypes'
  <2>1. PICK p \in PathsT, b \in BodiesT :
          Begin(c, [IdleT EXCEPT !.op = "put", !.path = p, !.row = RowT(p, b),
                    !.at = IF backendT = "local" THEN "check" ELSE "send"])
    BY <1>1 DEF BeginPut
  <2>2. [IdleT EXCEPT !.op = "put", !.path = p, !.row = RowT(p, b),
         !.at = IF backendT = "local" THEN "check" ELSE "send"] \in GoodCalls
    BY RowTOf DEF GoodCalls, CallT, CallShape, IdleT, StepsT
  <2> QED
    BY <2>1, <2>2, <1>c, <1>d DEF Begin
<1>2. ASSUME NEW c \in CallsT, CheckBlob(c)
      PROVE  StorageTypes'
  <2>1. \A step \in {"upsert", "create"} : [callsT[c] EXCEPT !.at = step] \in GoodCalls
    <3> SUFFICES ASSUME NEW step \in {"upsert", "create"}, NEW next,
                        next = [callsT[c] EXCEPT !.at = step]
                 PROVE  next \in CallT /\ CallShape(next)
      BY DEF GoodCalls
    <3> step \in StepsT
      BY DEF StepsT
    <3> QED
      BY <1>b, <1>2, NextStepT DEF CheckBlob, CallShape
  <2> QED
    BY <1>2, <2>1, <1>c, <1>d DEF CheckBlob
<1>3. ASSUME NEW c \in CallsT, CreateTmp(c)
      PROVE  StorageTypes'
  <2>1. [callsT[c] EXCEPT !.at = "write", !.inode = "tmp"] \in GoodCalls
    <3> DEFINE next == [callsT[c] EXCEPT !.at = "write", !.inode = "tmp"]
    <3>1. /\ next \in CallT /\ next.at = "write"
          /\ next.op = callsT[c].op /\ next.path = callsT[c].path /\ next.row = callsT[c].row
      BY <1>b DEF CallT, StepsT
    <3> HIDE DEF next
    <3>2. CallShape(next)
      BY <1>b, <1>3, <3>1 DEF CreateTmp, CallShape
    <3> QED
      BY <3>1, <3>2 DEF GoodCalls, next
  <2>2. callsT' = [callsT EXCEPT ![c] = [callsT[c] EXCEPT !.at = "write", !.inode = "tmp"]]
    BY <1>3 DEF CreateTmp
  <2> QED
    BY <1>3, <2>1, <2>2, <1>c, <1>d DEF CreateTmp
<1>4. ASSUME NEW c \in CallsT, WriteTmp(c)
      PROVE  StorageTypes'
  <2>1. [callsT[c] EXCEPT !.at = "move"] \in GoodCalls
    BY <1>b, <1>4 DEF WriteTmp, GoodCalls, CallT, CallShape, StepsT
  <2>2. callsT[c].row.key \in StoreKeys /\ callsT[c].row.body \in BodiesT
    BY <1>b, <1>4, KeyNamesBody DEF WriteTmp, CallShape
  <2> QED
    BY <1>4, <2>1, <2>2, <1>c, <1>d DEF WriteTmp
<1>5. ASSUME NEW c \in CallsT, MoveTmp(c)
      PROVE  StorageTypes'
  <2>1. /\ [callsT[c] EXCEPT !.at = "upsert"] \in GoodCalls
        /\ [callsT[c] EXCEPT !.at = "tidy"] \in GoodCalls
    BY <1>b, <1>5 DEF MoveTmp, GoodCalls, CallT, CallShape, StepsT
  <2>2. \A o \in CallsT : /\ [callsT[o] EXCEPT !.inode = "blob"] \in GoodCalls
                          /\ [callsT[o] EXCEPT !.inode = "gone"] \in GoodCalls
    BY <1>b DEF GoodCalls, CallT, CallShape
  <2>3. callsT[c].row.key \in StoreKeys /\ callsT[c].row.body \in BodiesT
    BY <1>b, <1>5, KeyNamesBody DEF MoveTmp, CallShape
  <2>4. callsT' \in [CallsT -> GoodCalls]
    <3>1. CASE tmpT[callsT[c].row.body] # "absent"
      <4> DEFINE new(o) == IF o = c THEN [callsT[c] EXCEPT !.at = "upsert"]
                           ELSE IF o \in Holding(c, "tmp") THEN [callsT[o] EXCEPT !.inode = "blob"]
                           ELSE IF o \in Holding(c, "blob") THEN [callsT[o] EXCEPT !.inode = "gone"]
                           ELSE callsT[o]
      <4>1. \A o \in CallsT : new(o) \in GoodCalls
        BY <2>1, <2>2
      <4>2. callsT' = [o \in CallsT |-> new(o)]
        BY <1>5, <3>1 DEF MoveTmp
      <4> QED
        BY <4>1, <4>2
    <3>2. CASE tmpT[callsT[c].row.body] = "absent"
      BY <1>5, <1>a, <2>1, <3>2 DEF MoveTmp
    <3> QED
      BY <3>1, <3>2
  <2> QED
    BY <1>5, <2>3, <2>4, <1>c, <1>d DEF MoveTmp
<1>6. ASSUME NEW c \in CallsT, TidyTmp(c)
      PROVE  StorageTypes'
  <2>1. [callsT[c] EXCEPT !.at = "upsert"] \in GoodCalls
    BY <1>b, <1>6 DEF TidyTmp, GoodCalls, CallT, CallShape, StepsT
  <2>2. \A o \in CallsT : [callsT[o] EXCEPT !.inode = "gone"] \in GoodCalls
    BY <1>b DEF GoodCalls, CallT, CallShape
  <2>3. callsT[c].row.body \in BodiesT
    BY <1>b, <1>6, KeyNamesBody DEF TidyTmp, CallShape
  <2> QED
    BY <1>6, <2>1, <2>2, <2>3, <1>c, <1>d DEF TidyTmp
<1>7. ASSUME NEW c \in CallsT, SendObject(c)
      PROVE  StorageTypes'
  <2>1. /\ [callsT[c] EXCEPT !.at = "upsert"] \in GoodCalls
        /\ [callsT[c] EXCEPT !.tries = @ + 1] \in GoodCalls
    BY <1>b, <1>7 DEF SendObject, GoodCalls, CallT, CallShape, StepsT
  <2>2. callsT[c].row.key \in StoreKeys
    BY <1>b, <1>7, KeyNamesBody DEF SendObject, CallShape
  <2> QED
    BY <1>7, <1>a, <2>1, <2>2, <1>c, <1>d DEF SendObject
<1>8. ASSUME NEW c \in CallsT, UpsertObject(c)
      PROVE  StorageTypes'
  <2>1. callsT[c].row \in RowsOf(backendT)
    BY <1>b, <1>8 DEF UpsertObject, CallShape, CallT
  <2> QED
    BY <1>8, <1>a, <2>1, <1>c, <1>d DEF UpsertObject
<1>9. ASSUME NEW c \in CallsT, BeginDelete(c)
      PROVE  StorageTypes'
  <2>1. PICK p \in PathsT :
          Begin(c, [IdleT EXCEPT !.op = "delete", !.path = p, !.at = "lookup"])
    BY <1>9 DEF BeginDelete
  <2>2. [IdleT EXCEPT !.op = "delete", !.path = p, !.at = "lookup"] \in GoodCalls
    BY DEF GoodCalls, CallT, CallShape, IdleT, StepsT
  <2> QED
    BY <2>1, <2>2, <1>c, <1>d DEF Begin
<1>10. ASSUME NEW c \in CallsT, LookUp(c)
      PROVE  StorageTypes'
  <2>1. CASE PresentT(callsT[c].path)
    <3> DEFINE new == [callsT[c] EXCEPT !.row = rowsT[callsT[c].path],
                         !.at = IF callsT[c].op = "delete" THEN "drop" ELSE "lookup_to"]
    <3>1. callsT[c].op \in {"delete", "rename"} /\ callsT[c].path \in PathsT
      BY <1>b, <1>10 DEF LookUp, CallShape, CallT
    <3>2. rowsT[callsT[c].path] \in RowsOf(backendT)
      BY <3>1, <2>1 DEF PresentT
    <3>3. new \in GoodCalls
      <4>1. /\ new \in CallT /\ new.row = rowsT[callsT[c].path] /\ new.op = callsT[c].op
            /\ new.at = IF callsT[c].op = "delete" THEN "drop" ELSE "lookup_to"
            /\ new.path = callsT[c].path /\ new.to = callsT[c].to
        BY <1>b, <3>2 DEF CallT, StepsT
      <4> HIDE DEF new
      <4>2. CallShape(new)
        BY <1>b, <3>1, <3>2, <4>1 DEF CallShape
      <4> QED
        BY <4>1, <4>2 DEF GoodCalls
    <3>4. callsT' = [callsT EXCEPT ![c] = new]
      BY <1>10, <2>1 DEF LookUp
    <3> QED
      BY <1>10, <3>3, <3>4, <1>c, <1>d DEF LookUp
  <2>2. CASE ~PresentT(callsT[c].path)
    BY <1>10, <2>2, <1>a, <1>c, <1>d DEF LookUp
  <2> QED
    BY <2>1, <2>2
<1>11. ASSUME NEW c \in CallsT, DropRow(c)
      PROVE  StorageTypes'
  <2>1. [callsT[c] EXCEPT !.at = "count"] \in GoodCalls
    BY <1>b, <1>11 DEF DropRow, GoodCalls, CallT, CallShape, StepsT
  <2> QED
    BY <1>11, <1>a, <2>1, <1>c, <1>d DEF DropRow
<1>12. ASSUME NEW c \in CallsT, CountRefs(c)
      PROVE  StorageTypes'
  <2>1. [callsT[c] EXCEPT !.at = "remove"] \in GoodCalls
    BY <1>b, <1>12 DEF CountRefs, GoodCalls, CallT, CallShape, StepsT
  <2> QED
    BY <1>12, <1>a, <2>1, <1>c, <1>d DEF CountRefs
<1>13. ASSUME NEW c \in CallsT, RemoveBody(c)
      PROVE  StorageTypes'
  <2>1. \A o \in CallsT : [callsT[o] EXCEPT !.inode = "gone"] \in GoodCalls
    BY <1>b DEF GoodCalls, CallT, CallShape
  <2>2. callsT[c].row.key \in StoreKeys
    BY <1>b, <1>13, KeyNamesBody DEF RemoveBody, CallShape
  <2> QED
    BY <1>13, <1>a, <2>1, <2>2, <1>c, <1>d DEF RemoveBody
<1>14. ASSUME NEW c \in CallsT, BeginRename(c)
      PROVE  StorageTypes'
  <2>1. PICK p \in PathsT, q \in PathsT :
          Begin(c, [IdleT EXCEPT !.op = "rename", !.path = p, !.to = q, !.at = "lookup"])
    BY <1>14 DEF BeginRename
  <2>2. [IdleT EXCEPT !.op = "rename", !.path = p, !.to = q, !.at = "lookup"] \in GoodCalls
    BY DEF GoodCalls, CallT, CallShape, IdleT, StepsT
  <2> QED
    BY <2>1, <2>2, <1>c, <1>d DEF Begin
<1>15. ASSUME NEW c \in CallsT, LookUpTarget(c)
      PROVE  StorageTypes'
  <2>1. [callsT[c] EXCEPT !.at = "update"] \in GoodCalls
    BY <1>b, <1>15 DEF LookUpTarget, GoodCalls, CallT, CallShape, StepsT
  <2> QED
    BY <1>15, <1>a, <2>1, <1>c, <1>d DEF LookUpTarget
<1>16. ASSUME NEW c \in CallsT, UpdateKey(c)
      PROVE  StorageTypes'
  <2>1. [callsT[c] EXCEPT !.at = "upsert"] \in GoodCalls
    BY <1>b, <1>16 DEF UpdateKey, GoodCalls, CallT, CallShape, StepsT
  <2>2. callsT[c].path \in PathsT
    BY <1>b, <1>16 DEF UpdateKey, CallShape
  <2> QED
    BY <1>16, <1>a, <2>1, <2>2, <1>c, <1>d DEF UpdateKey
<1>17. ASSUME NEW c \in CallsT, StorageStops(c)
      PROVE  StorageTypes'
  BY <1>17, <1>a, <1>c, <1>d DEF StorageStops
<1>18. CASE UNCHANGED storageVars
  BY <1>18, <1>c, <1>d DEF storageVars
<1> HIDE DEF StorageTypes
<1> QED
  BY <1>1, <1>2, <1>3, <1>4, <1>5, <1>6, <1>7, <1>8, <1>9, <1>10, <1>11, <1>12, <1>13, <1>14, <1>15, <1>16, <1>17, <1>18 DEF StorageNext

\* A call that writes no file, before or after, leaves the torn files their writers.
LEMMA TornStays ==
  ASSUME TornHasWriter, UNCHANGED <<bodiesT, tmpT>>, NEW c \in CallsT,
         \A o \in CallsT \ {c} : callsT'[o] = callsT[o],
         callsT[c].op = "put" => callsT[c].at # "write",
         callsT'[c].op = "put" => callsT'[c].at \notin {"write", "move"}
  PROVE  TornHasWriter'
<1>1. TornBlobs'
  BY DEF TornHasWriter, TornBlobs, InStep
<1>2. TornTmps'
  BY DEF TornHasWriter, TornTmps, InStep
<1> QED
  BY <1>1, <1>2 DEF TornHasWriter

\* As long as nothing has gone wrong, every step keeps the bodies of the rows.
LEMMA StoreSoundStep ==
  ASSUME StorageTypes, StoreSound, [StorageNext]_storageVars, troubleT' = {}
  PROVE  troubleT = {} => StoreSound'
<1> SUFFICES ASSUME troubleT = {}
             PROVE  StoreSound'
  OBVIOUS
<1> USE DEF StorageTypes, StoreSound, InStep, AdvanceCall, EndCall
<1>a. \A c \in CallsT : callsT[c] \in CallT /\ CallShape(callsT[c])
  BY DEF GoodCalls
<1>1. ASSUME NEW c \in CallsT, BeginPut(c)
      PROVE  StoreSound'
  <2> USE <1>1, <1>a DEF BeginPut, CallT, CallShape, IdleT, PresentT, Begin
  <2>1. Apart'
    <3>1. callsT[c].op = "idle" /\ Overlap(callsT'[c].op) = {} /\ callsT'[c].op = "put"
          /\ \A o \in CallsT \ {c} : callsT'[o] = callsT[o]
      OBVIOUS
    <3> QED
      BY <3>1 DEF Apart, Overlap, InFlight
  <2>2. RemovesUnreferenced'
    BY DEF RemovesUnreferenced
  <2>3. BodiesThere'
    BY DEF BodiesThere
  <2>4. TornHasWriter'
    <3>1. /\ UNCHANGED <<bodiesT, tmpT>> /\ \A o \in CallsT \ {c} : callsT'[o] = callsT[o]
          /\ callsT[c].op = "put" => callsT[c].at # "write"
          /\ callsT'[c].op = "put" => callsT'[c].at \notin {"write", "move"}
      OBVIOUS
    <3> QED
      BY <3>1, TornStays
  <2> QED
    BY <2>1, <2>2, <2>3, <2>4
<1>2. ASSUME NEW c \in CallsT, CheckBlob(c)
      PROVE  StoreSound'
  <2> USE <1>2, <1>a DEF CheckBlob, CallT, CallShape, IdleT, PresentT
  <2>1. Apart'
    BY DEF Apart
  <2>2. RemovesUnreferenced'
    BY DEF RemovesUnreferenced
  <2>3. BodiesThere'
    BY DEF BodiesThere
  <2>4. TornHasWriter'
    <3>1. /\ UNCHANGED <<bodiesT, tmpT>> /\ \A o \in CallsT \ {c} : callsT'[o] = callsT[o]
          /\ callsT[c].op = "put" => callsT[c].at # "write"
          /\ callsT'[c].op = "put" => callsT'[c].at \notin {"write", "move"}
      OBVIOUS
    <3> QED
      BY <3>1, TornStays
  <2> QED
    BY <2>1, <2>2, <2>3, <2>4
<1>3. ASSUME NEW c \in CallsT, CreateTmp(c)
      PROVE  StoreSound'
  <2> USE <1>3, <1>a DEF CreateTmp, CallT, CallShape, IdleT, PresentT
  <2>1. Apart'
    BY DEF Apart
  <2>2. RemovesUnreferenced'
    BY DEF RemovesUnreferenced
  <2>3. BodiesThere'
    BY DEF BodiesThere
  <2>4. TornHasWriter'
    <3>1. /\ callsT'[c].op = "put" /\ callsT'[c].at = "write" /\ callsT'[c].inode = "tmp"
          /\ callsT'[c].row = callsT[c].row /\ callsT[c].at = "create"
          /\ tmpT' = [tmpT EXCEPT ![callsT[c].row.body] = "torn"] /\ UNCHANGED bodiesT
          /\ \A o \in CallsT \ {c} : callsT'[o] = callsT[o]
      OBVIOUS
    <3> HIDE <1>3, <1>a DEF CreateTmp
    <3>2. TornBlobs'
      BY <3>1 DEF TornHasWriter, TornBlobs
    <3>3. TornTmps'
      BY <3>1 DEF TornHasWriter, TornTmps
    <3> QED
      BY <3>2, <3>3 DEF TornHasWriter
  <2> QED
    BY <2>1, <2>2, <2>3, <2>4
<1>4. ASSUME NEW c \in CallsT, WriteTmp(c)
      PROVE  StoreSound'
  <2> USE <1>4, <1>a DEF WriteTmp, CallT, CallShape, IdleT, PresentT
  <2>1. Apart'
    BY DEF Apart
  <2>2. RemovesUnreferenced'
    BY DEF RemovesUnreferenced
  <2>3. BodiesThere'
    BY KeyNamesBody DEF BodiesThere
  <2>4. TornHasWriter'
    <3>1. /\ callsT'[c].op = "put" /\ callsT'[c].at = "move" /\ callsT[c].at = "write"
          /\ callsT'[c].row = callsT[c].row /\ callsT[c].op = "put"
          /\ \A o \in CallsT \ {c} : callsT'[o] = callsT[o]
      OBVIOUS
    <3>2. callsT[c].row \in RowsOf(backendT) /\ backendT = "local"
      OBVIOUS
    <3>3. callsT[c].row.key \in StoreKeys /\ callsT[c].row.body \in BodiesT
      BY <3>2, KeyNamesBody
    <3>4. CASE callsT[c].inode = "tmp"
      <4>1. tmpT' = [tmpT EXCEPT ![callsT[c].row.body] = "whole"] /\ UNCHANGED bodiesT
        BY <3>4
      <4> HIDE <1>4, <1>a DEF WriteTmp
      <4>2. TornBlobs'
        BY <3>1, <3>3, <3>4, <4>1 DEF TornHasWriter, TornBlobs
      <4>3. TornTmps'
        BY <3>1, <3>3, <3>4, <4>1 DEF TornHasWriter, TornTmps
      <4> QED
        BY <4>2, <4>3 DEF TornHasWriter
    <3>5. CASE callsT[c].inode = "blob"
      <4>1. bodiesT' = [bodiesT EXCEPT ![callsT[c].row.key] = "whole"] /\ UNCHANGED tmpT
        BY <3>5
      <4> HIDE <1>4, <1>a DEF WriteTmp
      <4>2. TornBlobs'
        BY <3>1, <3>3, <3>5, <4>1 DEF TornHasWriter, TornBlobs
      <4>3. TornTmps'
        BY <3>1, <3>3, <3>5, <4>1 DEF TornHasWriter, TornTmps
      <4> QED
        BY <4>2, <4>3 DEF TornHasWriter
    <3>6. CASE callsT[c].inode = "gone"
      <4>1. bodiesT' = bodiesT /\ UNCHANGED tmpT
        BY <3>6, <3>3
      <4> HIDE <1>4, <1>a DEF WriteTmp
      <4>2. TornBlobs'
        BY <3>1, <3>6, <4>1 DEF TornHasWriter, TornBlobs
      <4>3. TornTmps'
        BY <3>1, <3>6, <4>1 DEF TornHasWriter, TornTmps
      <4> QED
        BY <4>2, <4>3 DEF TornHasWriter
    <3> QED
      BY <3>4, <3>5, <3>6
  <2> QED
    BY <2>1, <2>2, <2>3, <2>4
<1>5. ASSUME NEW c \in CallsT, MoveTmp(c)
      PROVE  StoreSound'
  <2> DEFINE row == callsT[c].row
  <2>1. /\ row \in RowsOf(backendT) /\ backendT = "local" /\ UNCHANGED rowsT
        /\ callsT[c].op = "put" /\ callsT[c].at = "move"
    BY <1>5, <1>a DEF MoveTmp, CallShape
  <2>2. row.key \in StoreKeys /\ row.body \in BodiesT
    BY <2>1, KeyNamesBody
  <2>3. CASE tmpT[row.body] # "absent"
    <3>1. /\ bodiesT' = [bodiesT EXCEPT ![row.key] = tmpT[row.body]]
          /\ tmpT' = [tmpT EXCEPT ![row.body] = "absent"]
          /\ callsT' = [o \in CallsT |->
               IF o = c THEN [callsT[c] EXCEPT !.at = "upsert"]
               ELSE IF o \in Holding(c, "tmp") THEN [callsT[o] EXCEPT !.inode = "blob"]
               ELSE IF o \in Holding(c, "blob") THEN [callsT[o] EXCEPT !.inode = "gone"]
               ELSE callsT[o]]
      BY <1>5, <2>3 DEF MoveTmp
    <3>2. callsT'[c].op = "put" /\ callsT'[c].at = "upsert" /\ callsT'[c].row = row
      BY <3>1, <2>1, <1>a DEF CallT
    <3>3. ASSUME NEW o \in CallsT \ {c}
          PROVE  /\ callsT'[o].op = callsT[o].op /\ callsT'[o].at = callsT[o].at
                 /\ callsT'[o].row = callsT[o].row
                 /\ callsT[o].op = "put" /\ callsT[o].at = "write" /\ callsT[o].row.body = row.body
                      /\ callsT[o].inode = "tmp" => callsT'[o].inode = "blob"
                 /\ callsT[o].op = "put" /\ callsT[o].row.body # row.body =>
                      callsT'[o].inode = callsT[o].inode
      <4>1. callsT'[o] \in {callsT[o], [callsT[o] EXCEPT !.inode = "blob"],
                            [callsT[o] EXCEPT !.inode = "gone"]}
        BY <3>1
      <4>2. callsT[o] \in CallT /\ (callsT[o].op = "put" => callsT[o].row \in RowsOf(backendT))
        BY <1>a DEF CallShape
      <4>3. callsT[o].op = "put" /\ callsT[o].row.body = row.body =>
              callsT[o].row = [row EXCEPT !.key = callsT[o].row.key]
        BY <2>1, <4>2 DEF RowsOf
      <4>4. callsT[o].op = "put" /\ callsT[o].row.body # row.body =>
              callsT[o].row # [row EXCEPT !.key = callsT[o].row.key]
        BY <2>1, <4>2 DEF RowsOf
      <4> QED
        BY <3>1, <4>1, <4>2, <4>3, <4>4 DEF Holding, CallT
    <3>4. Apart' /\ RemovesUnreferenced'
      BY <2>1, <3>2, <3>3 DEF Apart, RemovesUnreferenced
    <3>5. BodiesThere'
      BY <2>1, <2>2, <2>3, <3>1, <3>2, <3>3 DEF BodiesThere, PresentT
    <3>6. TornBlobs'
      <4> SUFFICES ASSUME NEW k \in StoreKeys, bodiesT'[k] = "torn"
                   PROVE  \E o \in CallsT : /\ callsT'[o].op = "put" /\ callsT'[o].at = "write"
                                            /\ callsT'[o].inode = "blob" /\ callsT'[o].row.key = k
        BY DEF TornBlobs
      <4>1. CASE k = row.key
        <5>1. tmpT[row.body] = "torn"
          BY <4>1, <3>1, <2>2
        <5>2. PICK o \in CallsT : InStep(o, "put", "write") /\ callsT[o].inode = "tmp"
                                  /\ callsT[o].row.body = row.body
          BY <5>1, <2>1, <2>2 DEF TornHasWriter, TornTmps
        <5>3. callsT[o].row.key = row.key
          BY <5>2, <2>1, <1>a, KeyNamesBody DEF CallShape
        <5> QED
          BY <5>2, <5>3, <4>1, <3>3, <2>1
      <4>2. CASE k # row.key
        <5>1. PICK o \in CallsT : InStep(o, "put", "write") /\ callsT[o].inode = "blob"
                                  /\ callsT[o].row.key = k
          BY <4>2, <3>1, <2>2 DEF TornHasWriter, TornBlobs
        <5>2. callsT[o].row.body # row.body
          BY <5>1, <4>2, <2>1, <1>a, KeyNamesBody DEF CallShape
        <5> QED
          BY <5>1, <5>2, <3>3, <2>1
      <4> QED
        BY <4>1, <4>2
    <3>7. TornTmps'
      <4> SUFFICES ASSUME NEW b \in BodiesT, tmpT'[b] = "torn"
                   PROVE  \/ \E o \in CallsT : /\ callsT'[o].op = "put" /\ callsT'[o].at = "write"
                                               /\ callsT'[o].inode = "tmp" /\ callsT'[o].row.body = b
                          \/ \A o \in CallsT :
                               callsT'[o].op = "put" /\ callsT'[o].at \in {"write", "move"} =>
                                 callsT'[o].row.body # b
        BY DEF TornTmps
      <4>1. b # row.body /\ tmpT[b] = "torn"
        BY <3>1, <2>2
      <4> QED
        BY <4>1, <3>2, <3>3, <2>1 DEF TornHasWriter, TornTmps
    <3> QED
      BY <3>4, <3>5, <3>6, <3>7 DEF TornHasWriter
  <2>4. CASE tmpT[row.body] = "absent"
    <3>1. /\ UNCHANGED <<bodiesT, tmpT>> /\ \A o \in CallsT \ {c} : callsT'[o] = callsT[o]
          /\ \/ bodiesT[row.key] # "absent" /\ callsT'[c] = [callsT[c] EXCEPT !.at = "tidy"]
             \/ callsT'[c] = IdleT
      BY <1>5, <2>4 DEF MoveTmp
    <3>2. /\ callsT'[c].op \in {"put", "idle"} /\ callsT'[c].at \in {"tidy", "idle"}
          /\ callsT'[c].op = "put" => callsT'[c].row = row /\ bodiesT[row.key] # "absent"
      BY <3>1, <2>1, <1>a DEF CallT, IdleT
    <3>3. Apart' /\ RemovesUnreferenced'
      BY <2>1, <3>1, <3>2 DEF Apart, RemovesUnreferenced
    <3>4. BodiesThere'
      BY <2>1, <3>1, <3>2 DEF BodiesThere, PresentT
    <3>5. TornBlobs'
      BY <2>1, <3>1, <3>2 DEF TornHasWriter, TornBlobs
    <3>6. TornTmps'
      BY <2>1, <2>2, <2>4, <3>1, <3>2 DEF TornHasWriter, TornTmps
    <3> QED
      BY <3>3, <3>4, <3>5, <3>6 DEF TornHasWriter
  <2> QED
    BY <2>3, <2>4
<1>6. ASSUME NEW c \in CallsT, TidyTmp(c)
      PROVE  StoreSound'
  <2> USE <1>6, <1>a DEF TidyTmp, CallT, CallShape, IdleT, PresentT, Holding
  <2>1. Apart'
    BY DEF Apart
  <2>2. RemovesUnreferenced'
    BY DEF RemovesUnreferenced
  <2>3. BodiesThere'
    BY DEF BodiesThere
  <2>4. TornHasWriter'
    <3>1. callsT[c].row \in RowsOf(backendT) /\ backendT = "local" /\ callsT[c].at = "tidy"
      OBVIOUS
    <3>2. /\ callsT'[c].at = "upsert" /\ tmpT' = [tmpT EXCEPT ![callsT[c].row.body] = "absent"]
          /\ UNCHANGED bodiesT
      OBVIOUS
    <3>3. \A o \in CallsT \ {c} :
            /\ callsT'[o].op = callsT[o].op /\ callsT'[o].at = callsT[o].at
            /\ callsT'[o].row = callsT[o].row
            /\ callsT[o].inode = "blob" \/ callsT[o].row.body # callsT[c].row.body =>
                 callsT'[o].inode = callsT[o].inode
      <4> SUFFICES ASSUME NEW o \in CallsT \ {c}
                   PROVE  /\ callsT'[o].op = callsT[o].op /\ callsT'[o].at = callsT[o].at
                          /\ callsT'[o].row = callsT[o].row
                          /\ callsT[o].inode = "blob" \/ callsT[o].row.body # callsT[c].row.body =>
                               callsT'[o].inode = callsT[o].inode
        OBVIOUS
      <4>1. callsT'[o] = callsT[o] \/ callsT'[o] = [callsT[o] EXCEPT !.inode = "gone"]
        OBVIOUS
      <4>2. callsT[o].inode = "blob" => callsT'[o] = callsT[o]
        OBVIOUS
      <4>3. callsT[o].row.body # callsT[c].row.body => callsT'[o] = callsT[o]
        BY <3>1 DEF RowsOf
      <4> QED
        BY <4>1, <4>2, <4>3
    <3> HIDE <1>6, <1>a DEF TidyTmp
    <3>4. callsT[c].row.body \in BodiesT
      BY <3>1, KeyNamesBody
    <3>5. TornBlobs'
      BY <3>1, <3>2, <3>3 DEF TornHasWriter, TornBlobs
    <3>6. TornTmps'
      <4> SUFFICES ASSUME NEW b \in BodiesT, tmpT'[b] = "torn"
                   PROVE  \/ \E o \in CallsT : /\ callsT'[o].op = "put" /\ callsT'[o].at = "write"
                                               /\ callsT'[o].inode = "tmp" /\ callsT'[o].row.body = b
                          \/ \A o \in CallsT :
                               callsT'[o].op = "put" /\ callsT'[o].at \in {"write", "move"} =>
                                 callsT'[o].row.body # b
        BY DEF TornTmps
      <4>1. b # callsT[c].row.body /\ tmpT[b] = "torn"
        BY <3>2, <3>4
      <4> HIDE DEF CallT, CallShape, GoodCalls, Holding
      <4> QED
        BY <4>1, <3>1, <3>2, <3>3 DEF TornHasWriter, TornTmps
    <3> QED
      BY <3>5, <3>6 DEF TornHasWriter
  <2> QED
    BY <2>1, <2>2, <2>3, <2>4
<1>7. ASSUME NEW c \in CallsT, SendObject(c)
      PROVE  StoreSound'
  <2> USE <1>7, <1>a DEF SendObject, CallT, CallShape, IdleT, PresentT
  <2>1. Apart'
    BY DEF Apart
  <2>2. RemovesUnreferenced'
    BY DEF RemovesUnreferenced
  <2>3. BodiesThere'
    BY KeyNamesBody DEF BodiesThere
  <2>4. TornHasWriter'
    <3>1. /\ callsT[c].op = "put" /\ callsT[c].at = "send" /\ callsT'[c].at \notin {"write", "move"}
          /\ \A o \in CallsT \ {c} : callsT'[o] = callsT[o]
          /\ UNCHANGED tmpT /\ \A k \in StoreKeys : bodiesT'[k] \in {bodiesT[k], "whole"}
      OBVIOUS
    <3> HIDE <1>7, <1>a DEF SendObject
    <3>2. TornBlobs'
      BY <3>1 DEF TornHasWriter, TornBlobs
    <3>3. TornTmps'
      BY <3>1 DEF TornHasWriter, TornTmps
    <3> QED
      BY <3>2, <3>3 DEF TornHasWriter
  <2> QED
    BY <2>1, <2>2, <2>3, <2>4
<1>8. ASSUME NEW c \in CallsT, UpsertObject(c)
      PROVE  StoreSound'
  <2> USE <1>8, <1>a DEF UpsertObject, CallT, CallShape, IdleT, PresentT
  <2>1. Apart'
    BY DEF Apart
  <2>2. RemovesUnreferenced'
    BY DEF RemovesUnreferenced, Apart
  <2>3. BodiesThere'
    BY DEF BodiesThere
  <2>4. TornHasWriter'
    <3>1. /\ UNCHANGED <<bodiesT, tmpT>> /\ \A o \in CallsT \ {c} : callsT'[o] = callsT[o]
          /\ callsT[c].op = "put" => callsT[c].at # "write"
          /\ callsT'[c].op = "put" => callsT'[c].at \notin {"write", "move"}
      OBVIOUS
    <3> QED
      BY <3>1, TornStays
  <2> QED
    BY <2>1, <2>2, <2>3, <2>4
<1>9. ASSUME NEW c \in CallsT, BeginDelete(c)
      PROVE  StoreSound'
  <2> USE <1>9, <1>a DEF BeginDelete, CallT, CallShape, IdleT, PresentT, Begin
  <2>1. Apart'
    <3>1. callsT[c].op = "idle" /\ Overlap(callsT'[c].op) = {} /\ callsT'[c].op = "delete"
          /\ \A o \in CallsT \ {c} : callsT'[o] = callsT[o]
      OBVIOUS
    <3> QED
      BY <3>1 DEF Apart, Overlap, InFlight
  <2>2. RemovesUnreferenced'
    BY DEF RemovesUnreferenced
  <2>3. BodiesThere'
    BY DEF BodiesThere
  <2>4. TornHasWriter'
    <3>1. /\ UNCHANGED <<bodiesT, tmpT>> /\ \A o \in CallsT \ {c} : callsT'[o] = callsT[o]
          /\ callsT[c].op = "put" => callsT[c].at # "write"
          /\ callsT'[c].op = "put" => callsT'[c].at \notin {"write", "move"}
      OBVIOUS
    <3> QED
      BY <3>1, TornStays
  <2> QED
    BY <2>1, <2>2, <2>3, <2>4
<1>10. ASSUME NEW c \in CallsT, LookUp(c)
      PROVE  StoreSound'
  <2> USE <1>10, <1>a DEF LookUp, CallT, CallShape, IdleT, PresentT
  <2>1. Apart'
    <3>1. callsT'[c].op \in {"idle", callsT[c].op} /\ \A o \in CallsT \ {c} : callsT'[o] = callsT[o]
      OBVIOUS
    <3> QED
      BY <3>1 DEF Apart
  <2>2. RemovesUnreferenced'
    <3>1. /\ callsT'[c].at # "remove" /\ \A o \in CallsT \ {c} : callsT'[o] = callsT[o]
          /\ \A p \in PathsT : rowsT'[p] \in {rowsT[p], AbsentRow}
      BY DEF AbsentRow
    <3>2. \A o \in CallsT : InStep(o, "delete", "remove") => callsT[o].row.body \in BodiesT
      BY KeyNamesBody
    <3> QED
      BY <3>1, <3>2, StorageAssumption DEF RemovesUnreferenced, AbsentRow
  <2>3. BodiesThere'
    BY DEF BodiesThere
  <2>4. TornHasWriter'
    <3>1. /\ UNCHANGED <<bodiesT, tmpT>> /\ \A o \in CallsT \ {c} : callsT'[o] = callsT[o]
          /\ callsT[c].op = "put" => callsT[c].at # "write"
          /\ callsT'[c].op = "put" => callsT'[c].at \notin {"write", "move"}
      OBVIOUS
    <3> QED
      BY <3>1, TornStays
  <2> QED
    BY <2>1, <2>2, <2>3, <2>4
<1>11. ASSUME NEW c \in CallsT, DropRow(c)
      PROVE  StoreSound'
  <2> USE <1>11, <1>a DEF DropRow, CallT, CallShape, IdleT, PresentT
  <2>1. Apart'
    <3>1. callsT'[c].op \in {"idle", callsT[c].op} /\ \A o \in CallsT \ {c} : callsT'[o] = callsT[o]
      OBVIOUS
    <3> QED
      BY <3>1 DEF Apart
  <2>2. RemovesUnreferenced'
    <3>1. /\ callsT'[c].at # "remove" /\ \A o \in CallsT \ {c} : callsT'[o] = callsT[o]
          /\ \A p \in PathsT : rowsT'[p] \in {rowsT[p], AbsentRow}
      BY DEF AbsentRow
    <3>2. \A o \in CallsT : InStep(o, "delete", "remove") => callsT[o].row.body \in BodiesT
      BY KeyNamesBody
    <3> QED
      BY <3>1, <3>2, StorageAssumption DEF RemovesUnreferenced, AbsentRow
  <2>3. BodiesThere'
    <3>1. /\ callsT[c].op = "delete" /\ callsT'[c].op \in {"delete", "idle"} /\ UNCHANGED bodiesT
          /\ \A o \in CallsT \ {c} : callsT'[o] = callsT[o]
          /\ \A p \in PathsT : rowsT'[p] \in {rowsT[p], AbsentRow}
      OBVIOUS
    <3> HIDE <1>11, <1>a DEF DropRow
    <3> QED
      BY <3>1 DEF BodiesThere
  <2>4. TornHasWriter'
    <3>1. /\ UNCHANGED <<bodiesT, tmpT>> /\ \A o \in CallsT \ {c} : callsT'[o] = callsT[o]
          /\ callsT[c].op = "put" => callsT[c].at # "write"
          /\ callsT'[c].op = "put" => callsT'[c].at \notin {"write", "move"}
      OBVIOUS
    <3> QED
      BY <3>1, TornStays
  <2> QED
    BY <2>1, <2>2, <2>3, <2>4
<1>12. ASSUME NEW c \in CallsT, CountRefs(c)
      PROVE  StoreSound'
  <2> USE <1>12, <1>a DEF CountRefs, CallT, CallShape, IdleT, PresentT
  <2>1. Apart'
    <3>1. callsT'[c].op \in {"idle", callsT[c].op} /\ \A o \in CallsT \ {c} : callsT'[o] = callsT[o]
      OBVIOUS
    <3> QED
      BY <3>1 DEF Apart
  <2>2. RemovesUnreferenced'
    BY UnreferencedMeans DEF RemovesUnreferenced
  <2>3. BodiesThere'
    <3>1. /\ callsT'[c].op \in {"delete", "idle"} /\ UNCHANGED <<rowsT, bodiesT>>
          /\ \A o \in CallsT \ {c} : callsT'[o] = callsT[o]
      OBVIOUS
    <3> HIDE <1>12, <1>a DEF CountRefs
    <3> QED
      BY <3>1 DEF BodiesThere
  <2>4. TornHasWriter'
    <3>1. /\ UNCHANGED <<bodiesT, tmpT>> /\ \A o \in CallsT \ {c} : callsT'[o] = callsT[o]
          /\ callsT[c].op = "put" => callsT[c].at # "write"
          /\ callsT'[c].op = "put" => callsT'[c].at \notin {"write", "move"}
      OBVIOUS
    <3> QED
      BY <3>1, TornStays
  <2> QED
    BY <2>1, <2>2, <2>3, <2>4
<1>13. ASSUME NEW c \in CallsT, RemoveBody(c)
      PROVE  StoreSound'
  <2> USE <1>13, <1>a DEF RemoveBody, CallT, CallShape, IdleT, PresentT, Holding
  <2>1. Apart'
    BY DEF Apart
  <2>2. RemovesUnreferenced'
    BY DEF RemovesUnreferenced
  <2>3. BodiesThere'
    <3>1. /\ callsT[c].op = "delete" /\ callsT[c].row \in RowsOf(backendT)
          /\ callsT'[c].op = "idle" /\ UNCHANGED rowsT
          /\ bodiesT' = [bodiesT EXCEPT ![callsT[c].row.key] = "absent"]
          /\ \A o \in CallsT \ {c} : callsT'[o].op = callsT[o].op
      OBVIOUS
    <3>2. \A p \in PathsT : rowsT[p].body # callsT[c].row.body
      BY DEF RemovesUnreferenced
    <3>3. \A p \in PathsT : PresentT(p) => rowsT[p] \in RowsOf(backendT)
      OBVIOUS
    <3> HIDE <1>13, <1>a DEF RemoveBody
    <3>4. \A p \in PathsT : PresentT(p) => rowsT[p].key # callsT[c].row.key /\ rowsT[p].key \in StoreKeys
      <4> HIDE DEF PresentT
      <4> QED
        BY <3>1, <3>2, <3>3, KeyNamesBody
    <3> QED
      BY <3>1, <3>4 DEF BodiesThere, Apart
  <2>4. TornHasWriter'
    BY DEF TornHasWriter, TornBlobs, TornTmps, Apart
  <2> QED
    BY <2>1, <2>2, <2>3, <2>4
<1>14. ASSUME NEW c \in CallsT, BeginRename(c)
      PROVE  StoreSound'
  <2> USE <1>14, <1>a DEF BeginRename, CallT, CallShape, IdleT, PresentT, Begin
  <2>1. Apart'
    <3>1. callsT[c].op = "idle" /\ Overlap(callsT'[c].op) = {} /\ callsT'[c].op = "rename"
          /\ \A o \in CallsT \ {c} : callsT'[o] = callsT[o]
      OBVIOUS
    <3> QED
      BY <3>1 DEF Apart, Overlap, InFlight
  <2>2. RemovesUnreferenced'
    BY DEF RemovesUnreferenced
  <2>3. BodiesThere'
    BY DEF BodiesThere
  <2>4. TornHasWriter'
    <3>1. /\ UNCHANGED <<bodiesT, tmpT>> /\ \A o \in CallsT \ {c} : callsT'[o] = callsT[o]
          /\ callsT[c].op = "put" => callsT[c].at # "write"
          /\ callsT'[c].op = "put" => callsT'[c].at \notin {"write", "move"}
      OBVIOUS
    <3> QED
      BY <3>1, TornStays
  <2> QED
    BY <2>1, <2>2, <2>3, <2>4
<1>15. ASSUME NEW c \in CallsT, LookUpTarget(c)
      PROVE  StoreSound'
  <2> USE <1>15, <1>a DEF LookUpTarget, CallT, CallShape, IdleT, PresentT
  <2>1. Apart'
    BY DEF Apart
  <2>2. RemovesUnreferenced'
    BY DEF RemovesUnreferenced
  <2>3. BodiesThere'
    BY DEF BodiesThere
  <2>4. TornHasWriter'
    <3>1. /\ UNCHANGED <<bodiesT, tmpT>> /\ \A o \in CallsT \ {c} : callsT'[o] = callsT[o]
          /\ callsT[c].op = "put" => callsT[c].at # "write"
          /\ callsT'[c].op = "put" => callsT'[c].at \notin {"write", "move"}
      OBVIOUS
    <3> QED
      BY <3>1, TornStays
  <2> QED
    BY <2>1, <2>2, <2>3, <2>4
<1>16. ASSUME NEW c \in CallsT, UpdateKey(c)
      PROVE  StoreSound'
  <2> USE <1>16, <1>a DEF UpdateKey, CallT, CallShape, IdleT, PresentT
  <2>1. Apart'
    BY DEF Apart
  <2>2. RemovesUnreferenced'
    BY DEF RemovesUnreferenced
  <2>3. BodiesThere'
    <3>1. /\ callsT[c].op = "rename" /\ callsT[c].at = "update" /\ UNCHANGED bodiesT
          /\ callsT'[c].op = "idle" \/ (callsT'[c].op = "rename" /\ callsT'[c].row = callsT[c].row)
          /\ \A o \in CallsT \ {c} : callsT'[o] = callsT[o]
          /\ \A p \in PathsT : \/ rowsT'[p] \in {rowsT[p], AbsentRow}
                               \/ rowsT'[p] = rowsT[callsT[c].path] /\ callsT[c].path \in PathsT
      OBVIOUS
    <3> HIDE <1>16, <1>a DEF UpdateKey
    <3> QED
      BY <3>1 DEF BodiesThere
  <2>4. TornHasWriter'
    <3>1. /\ UNCHANGED <<bodiesT, tmpT>> /\ \A o \in CallsT \ {c} : callsT'[o] = callsT[o]
          /\ callsT[c].op = "put" => callsT[c].at # "write"
          /\ callsT'[c].op = "put" => callsT'[c].at \notin {"write", "move"}
      OBVIOUS
    <3> QED
      BY <3>1, TornStays
  <2> QED
    BY <2>1, <2>2, <2>3, <2>4
<1>17. ASSUME NEW c \in CallsT, StorageStops(c)
      PROVE  StoreSound'
  <2> USE <1>17, <1>a DEF StorageStops, CallT, CallShape, IdleT, PresentT, Beside
  <2>1. Apart'
    BY DEF Apart
  <2>2. RemovesUnreferenced'
    BY DEF RemovesUnreferenced
  <2>3. BodiesThere'
    BY DEF BodiesThere
  <2>4. TornHasWriter'
    <3>1. /\ callsT'[c].op = "idle" /\ \A o \in CallsT \ {c} : callsT'[o] = callsT[o]
          /\ UNCHANGED <<tmpT, bodiesT>>
      OBVIOUS
    <3>2. callsT[c].at = "write" => callsT[c].inode # "blob" /\ (callsT[c].inode = "tmp" => Beside(c) = {})
      OBVIOUS
    <3> HIDE <1>17 DEF StorageStops
    <3>3. TornBlobs'
      BY <3>1, <3>2 DEF TornHasWriter, TornBlobs
    <3>4. TornTmps'
      BY <3>1, <3>2 DEF TornHasWriter, TornTmps
    <3> QED
      BY <3>3, <3>4 DEF TornHasWriter
  <2> QED
    BY <2>1, <2>2, <2>3, <2>4
<1>18. CASE UNCHANGED storageVars
  BY <1>18 DEF storageVars, Apart, RemovesUnreferenced, BodiesThere, TornHasWriter, TornBlobs, TornTmps, PresentT
<1> HIDE DEF StoreSound
<1> QED
  BY <1>1, <1>2, <1>3, <1>4, <1>5, <1>6, <1>7, <1>8, <1>9, <1>10, <1>11, <1>12, <1>13, <1>14, <1>15, <1>16, <1>17, <1>18 DEF StorageNext

\* Every row leads to its whole body, unless a delete ran beside a put or a rename
\* or a writer was lost beside another writer of the same content, for any number
\* of calls (put, delete and rename of disk-storage).
THEOREM RowsReadable == StorageSpec => []RowsAreReadable
<1>1. StorageInit => StorageInv
  <2> SUFFICES ASSUME StorageInit
               PROVE  StorageInv
    OBVIOUS
  <2>1. IdleT \in GoodCalls
    BY DEF GoodCalls, CallT, CallShape, IdleT, StepsT
  <2>2. StorageTypes
    BY <2>1 DEF StorageInit, StorageTypes
  <2>3. StoreSound
    BY StorageAssumption DEF StorageInit, StoreSound, Apart, RemovesUnreferenced, BodiesThere,
       TornHasWriter, TornBlobs, TornTmps, PresentT, InStep, IdleT
  <2> QED
    BY <2>2, <2>3 DEF StorageInv
<1>2. StorageInv /\ [StorageNext]_storageVars => StorageInv'
  <2> SUFFICES ASSUME StorageInv, [StorageNext]_storageVars
               PROVE  StorageInv'
    OBVIOUS
  <2>1. troubleT' = {} => troubleT = {}
    BY DEF StorageNext, storageVars, BeginPut, CheckBlob, CreateTmp, WriteTmp, MoveTmp, TidyTmp,
       SendObject, UpsertObject, BeginDelete, LookUp, DropRow, CountRefs, RemoveBody, BeginRename,
       LookUpTarget, UpdateKey, StorageStops, Begin
  <2> QED
    BY <2>1, StorageTypesStep, StoreSoundStep DEF StorageInv
<1>3. StorageInv => RowsAreReadable
  <2> SUFFICES ASSUME StorageInv, troubleT = {}, NEW p \in PathsT, PresentT(p)
               PROVE  \/ Served(p) = "whole"
                      \/ \E c \in CallsT : InStep(c, "put", "write") /\ callsT[c].inode = "blob"
                                           /\ callsT[c].row.body = rowsT[p].body
    BY DEF RowsAreReadable
  <2>1. rowsT[p] \in RowsOf(backendT) /\ backendT \in {"local", "s3"}
    BY DEF StorageInv, StorageTypes, PresentT
  <2>2. rowsT[p].key \in StoreKeys /\ bodiesT[rowsT[p].key] \in {"torn", "whole"}
    BY <2>1, KeyNamesBody DEF StorageInv, StoreSound, BodiesThere, StorageTypes
  <2>3. CASE bodiesT[rowsT[p].key] = "torn"
    <3>1. PICK c \in CallsT : InStep(c, "put", "write") /\ callsT[c].inode = "blob"
                              /\ callsT[c].row.key = rowsT[p].key
      BY <2>2, <2>3 DEF StorageInv, StoreSound, TornHasWriter, TornBlobs
    <3>2. callsT[c].row \in RowsOf(backendT)
      BY <3>1 DEF StorageInv, StorageTypes, GoodCalls, CallShape, InStep
    <3> QED
      BY <2>1, <3>1, <3>2, KeyNamesBody
  <2>4. CASE bodiesT[rowsT[p].key] = "whole"
    BY <2>4 DEF Served
  <2> QED
    BY <2>2, <2>3, <2>4
<1> QED
  BY <1>1, <1>2, <1>3, PTL DEF StorageSpec

-----------------------------------------------------------------------------
(* Rows of the database *)

RowF == [db : TenantsF \cup {"control", "_legacy"}, tenant : AllTenants, path : PathsF,
         body : Nat, id : Nat]
WriterF == [at : {"idle", "insert"}, tenant : AllTenants, path : PathsF \cup {NoTenant}, body : Nat]

FileTypes ==
  /\ splitF \in BOOLEAN /\ filesF \subseteq RowF /\ countF \in Nat
  /\ writesF \in [WritersF -> WriterF]
  /\ baselineF \in [AllTenants -> [PathsF -> Nat]]
  /\ batchF \in [tenant : AllTenants, done : SUBSET PathsF, gen : Nat]

\* What is stored or about to be stored was written by the tenant it is stored for.
OwnContent ==
  /\ \A r \in filesF : /\ r.body \in 1..countF /\ ownerF[r.body] = r.tenant
                       /\ r.db = ShardOf(r.tenant)
  /\ \A w \in WritersF : writesF[w].at = "insert" =>
       /\ writesF[w].path \in PathsF
       /\ writesF[w].body \in 1..countF /\ ownerF[writesF[w].body] = writesF[w].tenant

\* The index keeps two rows of a named tenant apart; without a tenant, a path that no
\* two upserts were in flight for has one row, or one upsert that will insert it.
OneRow ==
  /\ \A r, s \in filesF : r.tenant = s.tenant /\ r.path = s.path =>
       r = s \/ (r.tenant = NoTenant /\ <<NoTenant, r.path>> \in overlapF)
  /\ \A w \in WritersF : writesF[w].at = "insert" /\ writesF[w].tenant = NoTenant
       /\ <<NoTenant, writesF[w].path>> \notin overlapF =>
       /\ \A r \in filesF : ~(r.tenant = NoTenant /\ r.path = writesF[w].path)
       /\ \A v \in WritersF \ {w} : ~(/\ writesF[v].at = "insert" /\ writesF[v].tenant = NoTenant
                                      /\ writesF[v].path = writesF[w].path)

FilesInv == FileTypes /\ OwnContent /\ OneRow /\ BaselineIsWhole

-----------------------------------------------------------------------------

\* Every step of a writer keeps the rows of the tenants apart.
LEMMA FilesStep == FilesInv /\ [FilesNext]_fileVars => FilesInv'
<1> SUFFICES ASSUME FilesInv, [FilesNext]_fileVars
             PROVE  FilesInv'
  OBVIOUS
<1> USE DEF FilesInv, FileTypes, AllTenants, WriterF, RowF, IdleWriter
<1>1. ASSUME NEW w \in WritersF, UpsertFile(w)
      PROVE  FilesInv'
  <2>1. PICK t \in AllTenants, p \in PathsF :
          LET hit == {r \in filesF : InScope(r, t, p)}
              body == countF + 1
              beside == \E o \in WritersF \ {w} : writesF[o].tenant = t /\ writesF[o].path = p
                                                  /\ writesF[o].at = "insert" IN
          /\ writesF[w] = IdleWriter
          /\ countF' = body
          /\ ownerF' = [b \in 1 .. body |-> IF b = body THEN t ELSE ownerF[b]]
          /\ filesF' = (filesF \ hit) \cup {[r EXCEPT !.body = body] : r \in hit}
          /\ writesF' = IF hit = {}
                        THEN [writesF EXCEPT ![w] =
                                 [at |-> "insert", tenant |-> t, path |-> p, body |-> body]]
                        ELSE writesF
          /\ overlapF' = IF beside THEN overlapF \cup {<<t, p>>} ELSE overlapF
          /\ UNCHANGED <<splitF, baselineF, batchF>>
    BY <1>1 DEF UpsertFile
  <2> DEFINE hit == {r \in filesF : InScope(r, t, p)}
             body == countF + 1
  <2>2. \A r \in filesF : r \in hit <=> r.tenant = t /\ r.path = p
    BY DEF InScope, OwnContent
  <2>3. ASSUME NEW s \in filesF'
        PROVE  \/ s \in filesF /\ ~(s.tenant = t /\ s.path = p)
               \/ /\ s \in RowF /\ s.tenant = t /\ s.path = p /\ s.body = body
                  /\ \E r \in hit : s = [r EXCEPT !.body = body] /\ s.db = r.db
    <3>1. CASE s \in filesF \ hit
      BY <3>1, <2>2
    <3>2. CASE s \in {[r EXCEPT !.body = body] : r \in hit}
      <4>1. PICK r \in hit : s = [r EXCEPT !.body = body]
        BY <3>2
      <4>2. r \in RowF /\ body \in Nat
        OBVIOUS
      <4> QED
        BY <4>1, <4>2, <2>2
    <3> QED
      BY <2>1, <3>1, <3>2
  <2>4. filesF' \subseteq RowF
    BY <2>3
  <2> HIDE DEF hit, RowF
  <2>5. /\ FileTypes' /\ BaselineIsWhole'
    BY <2>1, <2>4 DEF BaselineIsWhole
  <2>6. OwnContent'
    <3>1. \A r \in filesF : r.db = ShardOf(r.tenant) /\ r.body \in 1..countF /\ ownerF[r.body] = r.tenant
      BY DEF OwnContent
    <3>2. \A b \in 1..countF : b \in 1..body /\ ownerF'[b] = ownerF[b]
      BY <2>1
    <3>3. ownerF'[body] = t /\ body \in 1..body /\ countF' = body
      BY <2>1
    <3>4. ShardOf(t)' = ShardOf(t) /\ \A r \in filesF : ShardOf(r.tenant)' = ShardOf(r.tenant)
      BY <2>1 DEF ShardOf
    <3>5. \A s \in filesF' : /\ s.body \in 1..body /\ ownerF'[s.body] = s.tenant
                             /\ s.db = ShardOf(s.tenant)'
      BY <2>2, <2>3, <3>1, <3>2, <3>3, <3>4 DEF hit
    <3>6. ASSUME NEW v \in WritersF, writesF'[v].at = "insert"
          PROVE  /\ writesF'[v].path \in PathsF /\ writesF'[v].body \in 1..body
                 /\ ownerF'[writesF'[v].body] = writesF'[v].tenant
      <4>1. CASE writesF'[v] = writesF[v]
        BY <3>6, <4>1, <3>2 DEF OwnContent
      <4>2. CASE writesF'[v] = [at |-> "insert", tenant |-> t, path |-> p, body |-> body]
        BY <4>2, <3>3
      <4> QED
        BY <2>1, <4>1, <4>2 DEF hit
    <3> QED
      BY <3>3, <3>5, <3>6 DEF OwnContent
  <2>7. OneRow'
    <3>1. \A r, s \in filesF : r \in hit /\ s \in hit =>
            r = s \/ (t = NoTenant /\ <<NoTenant, p>> \in overlapF)
      BY <2>2 DEF OneRow
    <3>2. overlapF \subseteq overlapF'
      BY <2>1
    <3>3. ASSUME NEW r \in filesF', NEW s \in filesF', r.tenant = s.tenant, r.path = s.path
          PROVE  r = s \/ (r.tenant = NoTenant /\ <<NoTenant, r.path>> \in overlapF')
      BY <2>3, <3>1, <3>2, <3>3 DEF OneRow, hit
    <3>4. ASSUME NEW v \in WritersF, writesF'[v].at = "insert", writesF'[v].tenant = NoTenant,
                 <<NoTenant, writesF'[v].path>> \notin overlapF'
          PROVE  /\ \A r \in filesF' : ~(r.tenant = NoTenant /\ r.path = writesF'[v].path)
                 /\ \A u \in WritersF \ {v} :
                      ~(/\ writesF'[u].at = "insert" /\ writesF'[u].tenant = NoTenant
                        /\ writesF'[u].path = writesF'[v].path)
      <4>1. CASE hit = {}
        <5>1. filesF' = filesF
          BY <2>1, <4>1 DEF hit
        <5>2. /\ writesF'[w] = [at |-> "insert", tenant |-> t, path |-> p, body |-> body]
              /\ \A u \in WritersF \ {w} : writesF'[u] = writesF[u]
          BY <2>1, <4>1 DEF hit
        <5>3. \A r \in filesF : ~(r.tenant = t /\ r.path = p)
          BY <2>2, <4>1
        <5>4. <<t, p>> \notin overlapF' =>
                \A u \in WritersF \ {w} : ~(/\ writesF[u].at = "insert" /\ writesF[u].tenant = t
                                            /\ writesF[u].path = p)
          BY <2>1
        <5> QED
          BY <3>2, <3>4, <5>1, <5>2, <5>3, <5>4 DEF OneRow
      <4>2. CASE hit # {}
        <5>1. writesF' = writesF
          BY <2>1, <4>2 DEF hit
        <5>2. \A r \in filesF' : \E s \in filesF : s.tenant = r.tenant /\ s.path = r.path
          BY <2>2, <2>3 DEF hit
        <5> QED
          BY <3>2, <3>4, <5>1, <5>2 DEF OneRow
      <4> QED
        BY <4>1, <4>2
    <3> QED
      BY <3>3, <3>4 DEF OneRow
  <2> QED
    BY <2>5, <2>6, <2>7
<1>2. ASSUME NEW w \in WritersF, InsertFile(w)
      PROVE  FilesInv'
  <2>1. FileTypes' /\ BaselineIsWhole'
    BY <1>2 DEF InsertFile, OwnContent, BaselineIsWhole, ShardOf
  <2>2. OwnContent'
    BY <1>2 DEF InsertFile, OwnContent, ShardOf
  <2>3. OneRow'
    BY <1>2 DEF InsertFile, OwnContent, OneRow, ShardOf, InScope
  <2> QED
    BY <2>1, <2>2, <2>3
<1>3. ASSUME DeleteFile
      PROVE  FilesInv'
  <2>1. FileTypes' /\ BaselineIsWhole' /\ OwnContent'
    BY <1>3 DEF DeleteFile, OwnContent, BaselineIsWhole, ShardOf
  <2>2. OneRow'
    BY <1>3 DEF DeleteFile, OneRow
  <2> QED
    BY <2>1, <2>2
<1>4. ASSUME BeginBatch
      PROVE  FilesInv'
  <2>1. FileTypes' /\ BaselineIsWhole' /\ OwnContent'
    BY <1>4 DEF BeginBatch, OwnContent, BaselineIsWhole, ShardOf
  <2>2. OneRow'
    BY <1>4 DEF BeginBatch, OneRow
  <2> QED
    BY <2>1, <2>2
<1>5. ASSUME BatchRow
      PROVE  FilesInv'
  BY <1>5 DEF BatchRow, BatchSeen, OwnContent, OneRow, BaselineIsWhole, ShardOf
<1>6. ASSUME CommitBatch
      PROVE  FilesInv'
  BY <1>6 DEF CommitBatch, NoBatch, OwnContent, OneRow, BaselineIsWhole, ShardOf
<1>7. ASSUME WriteStops
      PROVE  FilesInv'
  <2>1. FileTypes' /\ BaselineIsWhole' /\ OwnContent'
    BY <1>7 DEF WriteStops, NoBatch, OwnContent, BaselineIsWhole, ShardOf
  <2>2. OneRow'
    BY <1>7 DEF WriteStops, OneRow
  <2> QED
    BY <2>1, <2>2
<1>8. CASE UNCHANGED fileVars
  BY <1>8 DEF fileVars, OwnContent, OneRow, BaselineIsWhole, ShardOf
<1> HIDE DEF FilesInv
<1> QED
  BY <1>1, <1>2, <1>3, <1>4, <1>5, <1>6, <1>7, <1>8 DEF FilesNext

\* A set of equal elements has at most one.
LEMMA AtMostOne ==
  ASSUME NEW S, \A x, y \in S : x = y PROVE Cardinality(S) <= 1
<1>1. CASE S = {}
  BY <1>1, FS_EmptySet
<1>2. CASE S # {}
  <2> PICK x \in S : TRUE
    BY <1>2
  <2>1. S = {x}
    OBVIOUS
  <2> QED
    BY <2>1, FS_Singleton
<1> QED
  BY <1>1, <1>2

\* The rows of a tenant are its own, one per path, and a baseline is that of one
\* whole exchange, for any number of tenants, paths and writers (files.rs,
\* node_baseline.rs).
THEOREM RowsApart == FilesSpec => [](TenantsApart /\ OneRowPerPath /\ BaselineIsWhole)
<1>1. FilesInit => FilesInv
  BY DEF FilesInit, FilesInv, FileTypes, OwnContent, OneRow, BaselineIsWhole, AllTenants, WriterF,
     IdleWriter, NoBatch
<1>2. FilesInv => TenantsApart
  BY DEF FilesInv, OwnContent, TenantsApart, Listed
<1>3. FilesInv => OneRowPerPath
  <2> SUFFICES ASSUME FilesInv, NEW t \in AllTenants, NEW p \in PathsF,
                      t = NoTenant => <<t, p>> \notin overlapF
               PROVE  Cardinality({r \in Listed(t) : r.path = p}) <= 1
    BY DEF OneRowPerPath
  <2>1. \A x, y \in {r \in Listed(t) : r.path = p} : x = y
    BY DEF FilesInv, OneRow, Listed
  <2> QED
    BY <2>1, AtMostOne
<1> QED
  BY <1>1, <1>2, <1>3, FilesStep, PTL DEF FilesSpec, FilesInv

-----------------------------------------------------------------------------
(* The history of a file *)

\* A number is spent per request.
NumbersFit ==
  /\ current # Absent => VersionId(current) <= ops + 1
  /\ job # Absent => ops >= 1
  /\ job # Absent /\ job.vid = 0 /\ current # Absent => VersionId(current) <= ops
  /\ job # Absent => job.vid <= ops + 1

\* Until something breaks off between the history and the row, the history lies
\* below the row, or below the number that the row will get.
HistoryBelow ==
  ~torn =>
    /\ current = Absent => versions = {}
    /\ current # Absent /\ (job = Absent \/ job.vid = 0) => \A v \in versions : v.vid < VersionId(current)
    /\ job # Absent /\ job.vid # 0 => \A v \in versions : v.vid < job.vid

\* What is about to be replaced is what the handler found, and is in the history.
PriorRecorded ==
  job # Absent /\ ~job.raced =>
    /\ current = job.prior
    /\ job.vid # 0 /\ ~torn /\ Superseded(job.prior, job.hash) =>
         \E v \in versions : v.hash = job.prior.hash /\ v.vid = job.vid - 1

HistoryInv ==
  HistoryTypeOK /\ NumbersFit /\ BlobsGenuine /\ HistoryBelow /\ PriorRecorded
-----------------------------------------------------------------------------

\* A blob filed under its own hash keeps the store genuine.
LEMMA PutKeeps ==
  ASSUME NEW store \in [Bodies -> Bodies \cup {Absent}], NEW h \in Bodies, NEW content \in Bodies
  PROVE  /\ Put(store, h, content) \in [Bodies -> Bodies \cup {Absent}]
         /\ (\A g \in Bodies : store[g] \in {Absent, g}) /\ content = h
            => \A g \in Bodies : Put(store, h, content)[g] \in {Absent, g}
  BY DEF Put

\* So does an archived file that the row describes.
LEMMA ArchiveKeeps ==
  ASSUME HistoryTypeOK, NEW content
  PROVE  /\ Archive(content) \in [Bodies -> Bodies \cup {Absent}]
         /\ (\A g \in Bodies : blobs[g] \in {Absent, g}) /\ ~Misfiles
            => \A g \in Bodies : Archive(content)[g] \in {Absent, g}
  BY PutKeeps DEF HistoryTypeOK, Archive, Misfiles, RowType

\* A restore finds bytes, never the absence of bytes.
LEMMA ResolvedBlob ==
  ASSUME HistoryTypeOK, NEW h \in Bodies, NEW id, NEW content \in ResolveBlob(h, id)
  PROVE  content \in Bodies
  BY HistoryAssumption DEF HistoryTypeOK, ResolveBlob

\* A row with a content and a number is a row.
LEMMA RowMade ==
  ASSUME NEW h \in Bodies, NEW dead \in BOOLEAN, NEW id \in 0..MaxVid
  PROVE  /\ Row(h, dead, id) \in RowType /\ Row(h, dead, id) # Absent
         /\ Row(h, dead, id).vid = id /\ Row(h, dead, id).hash = h
<1>1. Row(h, dead, id) \in RowType /\ Row(h, dead, id).vid = id /\ Row(h, dead, id).hash = h
  BY DEF Row, RowType
<1> QED
  BY <1>1, HistoryAssumption

\* So is a row in the trash, which keeps its number.
LEMMA RowTrashed ==
  ASSUME NEW row \in RowType
  PROVE  /\ [row EXCEPT !.deleted = TRUE] \in RowType /\ [row EXCEPT !.deleted = TRUE] # Absent
         /\ [row EXCEPT !.deleted = TRUE].vid = row.vid /\ row.vid \in 0..MaxVid /\ row.vid \in Nat
<1>1. /\ [row EXCEPT !.deleted = TRUE] \in RowType
      /\ [row EXCEPT !.deleted = TRUE].vid = row.vid /\ row.vid \in 0..MaxVid
  BY DEF RowType
<1>2. row.vid \in Nat
  BY <1>1
<1> QED
  BY <1>1, <1>2, HistoryAssumption

\* A handler that the index has overtaken is a handler.
LEMMA JobRaced ==
  ASSUME NEW r \in JobType
  PROVE  /\ [r EXCEPT !.raced = TRUE] \in JobType /\ [r EXCEPT !.raced = TRUE] # Absent
         /\ [r EXCEPT !.raced = TRUE].raced /\ [r EXCEPT !.raced = TRUE].vid = r.vid /\ r.vid \in Nat
         /\ [r EXCEPT !.raced = TRUE].bytes = r.bytes /\ [r EXCEPT !.raced = TRUE].hash = r.hash
<1>1. /\ [r EXCEPT !.raced = TRUE] \in JobType
      /\ [r EXCEPT !.raced = TRUE].raced /\ [r EXCEPT !.raced = TRUE].vid = r.vid /\ r.vid \in 0..MaxVid
      /\ [r EXCEPT !.raced = TRUE].bytes = r.bytes /\ [r EXCEPT !.raced = TRUE].hash = r.hash
  BY DEF JobType
<1>2. r.vid \in Nat
  BY <1>1
<1> QED
  BY <1>1, <1>2, HistoryAssumption

\* A handler that has written the bytes, and nothing else yet, keeps the invariant.
LEMMA WritesStep ==
  ASSUME HistoryInv, Request, NEW kind \in {"upload", "restore"}, NEW h \in Bodies, NEW content \in Bodies,
         Writes(kind, h, content),
         blobs' \in [Bodies -> Bodies \cup {Absent}], misfiled' \in BOOLEAN, misfiled => misfiled',
         ~misfiled' => content = h /\ \A g \in Bodies : blobs'[g] \in {Absent, g}
  PROVE  HistoryInv'
<1> USE HistoryAssumption DEF HistoryInv
<1> DEFINE r == [kind |-> kind, hash |-> h, bytes |-> content, vid |-> 0, prior |-> current, raced |-> FALSE]
<1>1. /\ bytes' = content /\ job' = r /\ ops \in 0..MaxOps /\ ops' = ops + 1 /\ ops < MaxOps /\ job = Absent
      /\ UNCHANGED <<tenant, current, versions, snapshots, torn>>
  BY DEF Writes, Request, HistoryTypeOK
<1>2. r \in JobType /\ r.vid = 0 /\ r.prior = current /\ r.hash = h /\ r.bytes = content
  BY DEF JobType, HistoryTypeOK, MaxVid
<1> HIDE DEF r
<1>3. HistoryTypeOK'
  BY <1>1, <1>2 DEF HistoryTypeOK
<1>4. current # Absent => VersionId(current) \in Nat
  BY DEF HistoryTypeOK, RowType, VersionId
<1>5. NumbersFit'
  BY <1>1, <1>2, <1>4 DEF NumbersFit, VersionId
<1>6. BlobsGenuine'
  BY <1>1, <1>2 DEF BlobsGenuine
<1>7. HistoryBelow' /\ PriorRecorded'
  BY <1>1, <1>2 DEF HistoryBelow, PriorRecorded, VersionId
<1> QED
  BY <1>3, <1>5, <1>6, <1>7

\* Every step keeps the invariant, and no step loses what it replaces.
LEMMA HistoryStep ==
  HistoryInv /\ [HistoryNext]_historyVars => HistoryInv' /\ (SupersededKept \/ UNCHANGED historyVars)
<1> SUFFICES ASSUME HistoryInv, [HistoryNext]_historyVars
             PROVE  HistoryInv' /\ (SupersededKept \/ UNCHANGED historyVars)
  OBVIOUS
<1> DEFINE Goal == HistoryInv' /\ SupersededKept
<1>0. HistoryTypeOK /\ BlobsGenuine
  BY DEF HistoryInv
<1>a. Absent \notin JobType /\ Absent \notin RowType /\ Absent \notin Bodies
  BY HistoryAssumption
<1>c. MaxVersions \in Nat \ {0} /\ MaxSnapshots \in Nat \ {0} /\ MaxOps \in Nat
  BY HistoryAssumption
<1> USE <1>a, <1>c
<1>b. ASSUME job = Absent \/ current' = current \/ job' # Absent
      PROVE  SupersededKept
  BY <1>b DEF SupersededKept
<1>1. ASSUME NEW h \in Bodies, Upload(h)
      PROVE  Goal
  <2>1. HistoryInv'
    BY <1>0, <1>1, WritesStep, ArchiveKeeps DEF Upload, BlobsGenuine, HistoryTypeOK
  <2> QED
    BY <1>1, <1>b, <2>1 DEF Upload, Request
<1>2. ASSUME NEW v \in versions, RestoreVersion(v)
      PROVE  Goal
  <2>1. v.hash \in Bodies /\ blobs[v.hash] \in Bodies
    BY <1>0, <1>2 DEF HistoryTypeOK, RestoreVersion
  <2>2. HistoryInv'
    BY <1>0, <1>2, <2>1, WritesStep, ArchiveKeeps DEF RestoreVersion, BlobsGenuine, HistoryTypeOK
  <2> QED
    BY <1>2, <1>b, <2>2 DEF RestoreVersion, Request
<1>3. ASSUME RestoreTrash
      PROVE  Goal
  <2>1. PICK content \in ResolveBlob(current.hash, current.vid) :
          Writes("restore", current.hash, content) /\ misfiled' = (misfiled \/ content # current.hash)
    BY <1>3 DEF RestoreTrash
  <2>2. current.hash \in Bodies /\ UNCHANGED blobs /\ Request
    BY <1>0, <1>3 DEF RestoreTrash, InTrash, HistoryTypeOK, RowType
  <2>3. content \in Bodies
    BY <1>0, <2>2, ResolvedBlob
  <2>4. HistoryInv'
    BY <1>0, <2>1, <2>2, <2>3, WritesStep DEF BlobsGenuine, HistoryTypeOK
  <2> QED
    BY <1>b, <2>2, <2>4 DEF Request
<1>4. ASSUME NEW i \in DOMAIN snapshots, RestoreSnapshot(i)
      PROVE  Goal
  <2>0. PICK entry : entry = snapshots[i]
    OBVIOUS
  <2>1. PICK content \in ResolveBlob(entry.hash, VersionId(entry)) :
          /\ Writes("restore", entry.hash, content) /\ blobs' = Archive(content)
          /\ misfiled' = (misfiled \/ Misfiles \/ content # entry.hash)
    BY <1>4, <2>0 DEF RestoreSnapshot
  <2>2. entry.hash \in Bodies /\ Request
    BY <1>0, <1>4, <2>0 DEF RestoreSnapshot, HistoryTypeOK, RowType
  <2>3. content \in Bodies
    BY <1>0, <2>2, ResolvedBlob
  <2>4. HistoryInv'
    BY <1>0, <2>1, <2>2, <2>3, WritesStep, ArchiveKeeps DEF BlobsGenuine, HistoryTypeOK
  <2> QED
    BY <1>b, <2>2, <2>4 DEF Request
<1>5. ASSUME RecordVersion
      PROVE  Goal
  <2>0. PICK id : id = IF current = Absent THEN 1 ELSE VersionId(current)
    OBVIOUS
  <2>1. /\ job # Absent /\ job \in JobType /\ job.vid = 0 /\ job.hash \in Bodies
        /\ UNCHANGED <<tenant, bytes, current, blobs, snapshots, misfiled, ops>>
    BY <1>0, <1>5 DEF RecordVersion, HistoryTypeOK, JobType
  <2>2. id \in 1..ops /\ ops \in 0..MaxOps /\ ops \in Nat /\ (current # Absent => id = VersionId(current))
    BY <1>0, <2>0, <2>1 DEF HistoryInv, NumbersFit, HistoryTypeOK, RowType, VersionId
  <2>3. SupersededKept
    BY <1>b, <2>1
  <2>4. ASSUME ~Superseded(current, job.hash)
        PROVE  HistoryInv'
    <3>1. job' = [job EXCEPT !.vid = id] /\ UNCHANGED <<versions, torn>>
      BY <1>5, <2>0, <2>4 DEF RecordVersion
    <3>2. /\ job' \in JobType /\ job'.vid = id /\ job'.hash = job.hash /\ job'.bytes = job.bytes
          /\ job'.raced = job.raced /\ job'.prior = job.prior
      BY <2>1, <2>2, <3>1 DEF JobType, MaxVid
    <3>3. HistoryTypeOK' /\ BlobsGenuine'
      BY <1>0, <2>1, <3>1, <3>2 DEF HistoryTypeOK, BlobsGenuine
    <3>4. NumbersFit'
      BY <2>1, <2>2, <3>2 DEF HistoryInv, NumbersFit, VersionId
    <3>5. HistoryBelow'
      BY <1>a, <2>1, <2>2, <3>1, <3>2 DEF HistoryInv, HistoryBelow
    <3>6. PriorRecorded'
      BY <2>1, <2>4, <3>1, <3>2 DEF HistoryInv, PriorRecorded, Superseded
    <3> QED
      BY <3>3, <3>4, <3>5, <3>6 DEF HistoryInv
  <2>5. ASSUME Superseded(current, job.hash), job' = Absent, torn' = TRUE, UNCHANGED versions
        PROVE  HistoryInv'
    BY <1>0, <2>1, <2>5 DEF HistoryInv, HistoryTypeOK, BlobsGenuine, NumbersFit, HistoryBelow, PriorRecorded, VersionId
  <2>6. ASSUME Superseded(current, job.hash), versions' = versions \cup {[vid |-> id, hash |-> current.hash]},
               job' = [job EXCEPT !.vid = id + 1], UNCHANGED torn
        PROVE  HistoryInv'
    <3>1. current # Absent /\ current \in RowType /\ current.hash \in Bodies
      BY <1>0, <2>6 DEF Superseded, HistoryTypeOK, RowType
    <3>2. /\ job' \in JobType /\ job'.vid = id + 1 /\ job'.hash = job.hash /\ job'.bytes = job.bytes
          /\ job'.raced = job.raced /\ job'.prior = job.prior
      BY <2>1, <2>2, <2>6 DEF JobType, MaxVid
    <3> DEFINE w == [vid |-> id, hash |-> current.hash]
    <3>3. w \in [vid : 1..MaxVid, hash : Bodies] /\ w.vid = id /\ w.hash = current.hash /\ w \in versions'
      BY <2>2, <2>6, <3>1 DEF MaxVid
    <3>4. versions' = versions \cup {w}
      BY <2>6
    <3> HIDE DEF w
    <3>5. HistoryTypeOK' /\ BlobsGenuine'
      BY <1>0, <2>1, <2>6, <3>2, <3>3, <3>4 DEF HistoryTypeOK, BlobsGenuine
    <3>6. NumbersFit'
      BY <2>1, <2>2, <3>2 DEF HistoryInv, NumbersFit, VersionId
    <3>7. HistoryBelow'
      <4>1. ~torn => \A v \in versions : v.vid < id /\ v.vid \in Nat
        BY <1>0, <2>1, <2>2, <3>1 DEF HistoryInv, HistoryBelow, HistoryTypeOK
      <4>2. ~torn => \A v \in versions' : v.vid < id + 1
        BY <2>2, <3>3, <3>4, <4>1
      <4> QED
        BY <1>a, <2>1, <2>2, <2>6, <3>1, <3>2, <4>2 DEF HistoryBelow
    <3>8. PriorRecorded'
      BY <2>1, <2>2, <2>6, <3>2, <3>3 DEF HistoryInv, PriorRecorded
    <3> QED
      BY <3>5, <3>6, <3>7, <3>8 DEF HistoryInv
  <2> QED
    BY <1>5, <2>0, <2>3, <2>4, <2>5, <2>6 DEF RecordVersion, NextNumber
<1>6. ASSUME WriteFileRow
      PROVE  Goal
  <2>1. PICK youngest \in {0} \cup {v.vid : v \in versions} :
          versions' = {v \in Newest(versions) : v.vid >= youngest}
    BY <1>6 DEF WriteFileRow
  <2>2. /\ job # Absent /\ job \in JobType /\ job.vid # 0 /\ job' = Absent
        /\ current' = Row(job.hash, FALSE, job.vid)
        /\ UNCHANGED <<tenant, bytes, snapshots, misfiled, torn, ops>>
        /\ job.hash \in Bodies /\ job.bytes \in Bodies /\ job.vid \in 1..MaxVid /\ ops \in Nat
    BY <1>0, <1>6 DEF WriteFileRow, HistoryTypeOK, JobType
  <2>3. current' \in RowType /\ current' # Absent /\ current'.vid = job.vid
    <3>1. job.vid \in 0..MaxVid /\ FALSE \in BOOLEAN
      BY <2>2 DEF MaxVid
    <3>2. current' = Row(job.hash, FALSE, job.vid) /\ job.hash \in Bodies
      BY <2>2
    <3> QED
      BY <3>1, <3>2, RowMade, Zenon
  <2>4. versions' \subseteq versions
    BY <2>1 DEF Newest
  <2>5. /\ blobs' \in [Bodies -> Bodies \cup {Absent}]
        /\ ~misfiled => \A g \in Bodies : blobs'[g] \in {Absent, g}
    BY <1>0, <1>6, <2>2, PutKeeps DEF WriteFileRow, HistoryTypeOK, BlobsGenuine
  <2>6. HistoryTypeOK' /\ BlobsGenuine'
    BY <1>0, <2>2, <2>3, <2>4, <2>5 DEF HistoryTypeOK, BlobsGenuine
  <2>7. NumbersFit' /\ HistoryBelow' /\ PriorRecorded'
    BY <2>2, <2>3, <2>4 DEF HistoryInv, NumbersFit, HistoryBelow, PriorRecorded, VersionId
  <2>8. SupersededKept
    <3> SUFFICES ASSUME ~job.raced, ~torn, Superseded(job.prior, job.hash)
                 PROVE  \E v \in versions' : v.hash = job.prior.hash /\ v.vid = current'.vid - 1
      BY DEF SupersededKept
    <3>1. PICK v \in versions : v.hash = job.prior.hash /\ v.vid = job.vid - 1
      BY <2>2 DEF HistoryInv, PriorRecorded
    <3>2. \A w \in versions : w.vid < job.vid /\ w.vid \in Nat
      BY <1>0, <2>2 DEF HistoryInv, HistoryBelow, HistoryTypeOK
    <3>3. {x \in versions : x.vid > v.vid} = {}
      BY <2>2, <3>1, <3>2
    <3>4. {w.vid : w \in {x \in versions : x.vid > v.vid}} = {}
      BY <3>3
    <3>5. v \in Newest(versions)
      BY <3>4, FS_EmptySet DEF Newest
    <3>6. v.vid >= youngest
      BY <2>2, <3>1, <3>2
    <3> QED
      BY <2>1, <2>3, <3>1, <3>5, <3>6
  <2> QED
    BY <2>6, <2>7, <2>8 DEF HistoryInv
<1>7. ASSUME RowNotWritten
      PROVE  Goal
  <2>1. /\ job' = Absent /\ torn' = TRUE /\ ops' = ops + 1 /\ ops' \in 0..MaxOps /\ ops \in Nat
        /\ UNCHANGED <<tenant, bytes, current, versions, blobs, snapshots, misfiled>>
    BY <1>0, <1>7 DEF RowNotWritten, HistoryTypeOK
  <2>2. HistoryTypeOK' /\ BlobsGenuine'
    BY <1>0, <2>1 DEF HistoryTypeOK, BlobsGenuine
  <2>3. current # Absent => VersionId(current) \in Nat
    BY <1>0 DEF HistoryTypeOK, RowType, VersionId
  <2>4. NumbersFit' /\ HistoryBelow' /\ PriorRecorded'
    BY <2>1, <2>3 DEF HistoryInv, NumbersFit, HistoryBelow, PriorRecorded, VersionId
  <2> QED
    BY <1>b, <2>1, <2>2, <2>4 DEF HistoryInv
<1>8. ASSUME CreateSnapshot
      PROVE  Goal
  <2>1. /\ ops' = ops + 1 /\ ops' \in 0..MaxOps /\ ops \in Nat /\ job = Absent
        /\ UNCHANGED <<tenant, bytes, current, versions, blobs, job, misfiled, torn>>
    BY <1>0, <1>8 DEF CreateSnapshot, Request, HistoryTypeOK
  <2>2. snapshots' \in Seq(RowType \cup {Absent}) /\ Len(snapshots') <= MaxSnapshots
    <3> DEFINE all == Append(snapshots, current)
               S == RowType \cup {Absent}
    <3>1. snapshots \in Seq(S) /\ current \in S /\ Len(snapshots) <= MaxSnapshots
          /\ Len(snapshots) \in Nat /\ MaxSnapshots \in Nat
      BY <1>0 DEF HistoryTypeOK
    <3>2. all \in Seq(S) /\ Len(all) = Len(snapshots) + 1
      <4> HIDE DEF S
      <4> QED
        BY <3>1
    <3>3. snapshots' = IF Len(all) > MaxSnapshots THEN Tail(all) ELSE all
      BY <1>8 DEF CreateSnapshot, PruneSnapshots, Snapshot
    <3> HIDE DEF all, S
    <3>4. Tail(all) \in Seq(S) /\ Len(Tail(all)) = Len(snapshots)
      BY <3>1, <3>2
    <3> QED
      BY <3>1, <3>2, <3>3, <3>4 DEF S
  <2>3. HistoryTypeOK' /\ BlobsGenuine'
    BY <1>0, <2>1, <2>2 DEF HistoryTypeOK, BlobsGenuine
  <2>4. current # Absent => VersionId(current) \in Nat
    BY <1>0 DEF HistoryTypeOK, RowType, VersionId
  <2>5. NumbersFit' /\ HistoryBelow' /\ PriorRecorded'
    BY <2>1, <2>4 DEF HistoryInv, NumbersFit, HistoryBelow, PriorRecorded, VersionId
  <2> QED
    BY <1>b, <2>1, <2>3, <2>5 DEF HistoryInv
<1>9. ASSUME TombstoneRow
      PROVE  Goal
  <2>1. /\ ops' = ops + 1 /\ ops' \in 0..MaxOps /\ ops \in Nat /\ job = Absent
        /\ current # Absent /\ current \in RowType /\ current' = [current EXCEPT !.deleted = TRUE]
        /\ UNCHANGED <<tenant, bytes, versions, blobs, snapshots, job, misfiled, torn>>
    BY <1>0, <1>9 DEF TombstoneRow, LiveRow, Request, HistoryTypeOK
  <2>2. current' \in RowType /\ current' # Absent /\ current'.vid = current.vid /\ current.vid \in Nat
    BY <2>1, RowTrashed
  <2>3. HistoryTypeOK' /\ BlobsGenuine'
    BY <1>0, <2>1, <2>2 DEF HistoryTypeOK, BlobsGenuine
  <2>4. NumbersFit' /\ HistoryBelow' /\ PriorRecorded'
    BY <2>1, <2>2 DEF HistoryInv, NumbersFit, HistoryBelow, PriorRecorded, VersionId
  <2> QED
    BY <1>b, <2>1, <2>3, <2>4 DEF HistoryInv
<1>10. ASSUME DeleteTrash \/ EmptyTrash \/ ListTrash \/ ScheduledPrune
       PROVE  Goal
  <2>1. /\ ops' = ops + 1 /\ ops' \in 0..MaxOps /\ ops \in Nat /\ job = Absent /\ current' = Absent
        /\ torn' = (torn \/ versions # {})
        /\ UNCHANGED <<tenant, bytes, versions, blobs, snapshots, job, misfiled>>
    BY <1>0, <1>10 DEF DeleteTrash, EmptyTrash, ListTrash, ScheduledPrune, RowPurged, Request, HistoryTypeOK
  <2>2. HistoryTypeOK' /\ BlobsGenuine'
    BY <1>0, <2>1 DEF HistoryTypeOK, BlobsGenuine
  <2>3. NumbersFit' /\ HistoryBelow' /\ PriorRecorded'
    BY <2>1 DEF HistoryInv, NumbersFit, HistoryBelow, PriorRecorded
  <2> QED
    BY <1>b, <2>1, <2>2, <2>3 DEF HistoryInv
<1>11. ASSUME NEW content \in Bodies \cup {Absent}, HostChange(content)
       PROVE  Goal
  <2>1. /\ ops' = ops + 1 /\ ops' \in 0..MaxOps /\ ops \in Nat /\ bytes' = content
        /\ UNCHANGED <<tenant, current, versions, blobs, snapshots, job, misfiled, torn>>
    BY <1>0, <1>11 DEF HostChange, HistoryTypeOK
  <2>2. HistoryTypeOK' /\ BlobsGenuine'
    BY <1>0, <2>1 DEF HistoryTypeOK, BlobsGenuine
  <2>3. (current # Absent => VersionId(current) \in Nat) /\ (job # Absent => job.vid \in Nat)
    BY <1>0 DEF HistoryTypeOK, RowType, JobType, VersionId
  <2>4. NumbersFit'
    BY <2>1, <2>3 DEF HistoryInv, NumbersFit, VersionId
  <2>5. HistoryBelow' /\ PriorRecorded'
    BY <2>1 DEF HistoryInv, HistoryBelow, PriorRecorded, VersionId
  <2> QED
    BY <1>b, <2>1, <2>2, <2>4, <2>5 DEF HistoryInv
<1>12. ASSUME IndexRow
       PROVE  Goal
  <2>1. /\ UNCHANGED <<tenant, bytes, versions, blobs, snapshots, misfiled, torn, ops>>
        /\ ops \in Nat /\ job' = IF job = Absent THEN Absent ELSE [job EXCEPT !.raced = TRUE]
    BY <1>0, <1>12 DEF IndexRow, HistoryTypeOK
  <2>2. /\ current' # Absent => /\ current' \in RowType
                                /\ current'.vid = IF current = Absent THEN 0 ELSE current.vid
        /\ current' = Absent => current = Absent
        /\ current # Absent => current \in RowType /\ current.vid \in Nat
    <3>0. current = Absent \/ current \in RowType
      BY <1>0 DEF HistoryTypeOK
    <3>1. CASE bytes # Absent
      <4>0. PICK id : id = IF current = Absent THEN 0 ELSE current.vid
        OBVIOUS
      <4>1. current' = Row(bytes, FALSE, id)
        BY <1>12, <3>1, <4>0 DEF IndexRow
      <4>2. bytes \in Bodies
        BY <1>0, <3>1 DEF HistoryTypeOK
      <4>3. id \in 0..MaxVid
        <5>1. 0 \in 0..MaxVid
          BY DEF MaxVid
        <5> QED
          BY <3>0, <4>0, <5>1, RowTrashed
      <4>4. current # Absent => current.vid \in Nat
        BY <3>0, RowTrashed
      <4>5. current' \in RowType /\ current' # Absent /\ current'.vid = id
        BY <4>1, <4>2, <4>3, RowMade, Zenon
      <4> QED
        BY <3>0, <4>0, <4>4, <4>5
    <3>2. CASE bytes = Absent
      <4>1. current' = IF current = Absent THEN Absent ELSE [current EXCEPT !.deleted = TRUE]
        BY <1>12, <3>2 DEF IndexRow
      <4> QED
        BY <3>0, <4>1, RowTrashed
    <3> QED
      BY <3>1, <3>2
  <2>3. /\ job = Absent <=> job' = Absent
        /\ job # Absent => /\ job' \in JobType /\ job'.raced /\ job'.vid = job.vid /\ job.vid \in Nat
                           /\ job'.bytes = job.bytes /\ job'.hash = job.hash
    <3>1. job = Absent \/ job \in JobType
      BY <1>0 DEF HistoryTypeOK
    <3> QED
      BY <2>1, <3>1, JobRaced
  <2>4. HistoryTypeOK' /\ BlobsGenuine'
    BY <1>0, <2>1, <2>2, <2>3 DEF HistoryTypeOK, BlobsGenuine
  <2>5. NumbersFit'
    BY <1>a, <2>1, <2>2, <2>3 DEF HistoryInv, NumbersFit, VersionId
  <2>6. HistoryBelow' /\ PriorRecorded'
    BY <1>a, <2>1, <2>2, <2>3 DEF HistoryInv, HistoryBelow, PriorRecorded, VersionId
  <2>7. SupersededKept
    BY <1>b, <2>3
  <2> QED
    BY <2>4, <2>5, <2>6, <2>7 DEF HistoryInv
<1>13. ASSUME UNCHANGED historyVars
       PROVE  HistoryInv'
  BY <1>13 DEF historyVars, HistoryInv, HistoryTypeOK, BlobsGenuine, NumbersFit, HistoryBelow, PriorRecorded, VersionId
<1> HIDE DEF Goal
<1>14. ASSUME HistoryNext
       PROVE  Goal
  BY <1>1, <1>2, <1>3, <1>4, <1>5, <1>6, <1>7, <1>8, <1>9, <1>10, <1>11, <1>12, <1>14 DEF HistoryNext, Goal
<1> QED
  BY <1>13, <1>14 DEF Goal

\* Nothing of a file's history is lost or mislabelled, for any retention and any
\* number of requests (versions.rs, content_store.rs, trash.rs, snapshots.rs).
THEOREM HistoryHolds == HistorySpec => HistorySound
<1>1. HistoryInit => HistoryInv
  <2> SUFFICES ASSUME HistoryInit
               PROVE  HistoryInv
    OBVIOUS
  <2>1. << >> \in Seq(RowType \cup {Absent}) /\ Len(<< >>) = 0
    OBVIOUS
  <2>2. MaxSnapshots \in Nat /\ MaxOps \in Nat
    BY HistoryAssumption
  <2>3. /\ ops \in 0..MaxOps /\ job = Absent /\ bytes = Absent /\ current = Absent /\ versions = {}
        /\ snapshots = << >>
    BY <2>2 DEF HistoryInit
  <2>5. blobs \in [Bodies -> Bodies \cup {Absent}]
    BY DEF HistoryInit
  <2>6. tenant \in BOOLEAN /\ misfiled \in BOOLEAN /\ torn \in BOOLEAN
    BY Zenon DEF HistoryInit
  <2>4. HistoryTypeOK
    BY <2>1, <2>2, <2>3, <2>5, <2>6 DEF HistoryTypeOK
  <2> QED
    BY <2>4 DEF HistoryInit, HistoryInv, NumbersFit, BlobsGenuine, HistoryBelow, PriorRecorded
<1>2. HistoryInv /\ [HistoryNext]_historyVars => HistoryInv'
  BY HistoryStep
<1>3. HistoryInv => HistoryTypeOK /\ BlobsGenuine /\ HistoryBelowCurrent
  BY DEF HistoryInv, HistoryBelow, HistoryBelowCurrent
<1>4. HistoryInv /\ [HistoryNext]_historyVars =>
        [SupersededKept /\ HistoryTypeOK' /\ BlobsGenuine' /\ HistoryBelowCurrent']_historyVars
  <2> SUFFICES ASSUME HistoryInv, [HistoryNext]_historyVars
               PROVE  [SupersededKept /\ HistoryTypeOK' /\ BlobsGenuine' /\ HistoryBelowCurrent']_historyVars
    OBVIOUS
  <2>1. HistoryInv' /\ (SupersededKept \/ UNCHANGED historyVars)
    BY HistoryStep
  <2>2. HistoryTypeOK' /\ BlobsGenuine' /\ HistoryBelowCurrent'
    BY <2>1 DEF HistoryInv, HistoryBelow, HistoryBelowCurrent
  <2> QED
    BY <2>1, <2>2
<1> QED
  BY <1>1, <1>2, <1>4, PTL DEF HistorySpec, HistorySound

-----------------------------------------------------------------------------
(* Selective sync *)

SelTypes ==
  /\ rowS \in [PathsS -> MaybeMeta] /\ baseS \in [PathsS -> MaybeMeta]
  /\ localS \in [PathsS -> Hashes \cup {None}]
  /\ todo \in [up : SUBSET PathsS, down : SUBSET PathsS, del : SUBSET PathsS]
  /\ rules \in [UsersS -> SUBSET PathsS]

\* What the device never gave up: no side has a tombstone of it, and a baseline
\* without the file on one side means that the file is on its way there.
KeptPath(p) ==
  /\ ~Tomb(rowS[p]) /\ ~Tomb(baseS[p])
  /\ baseS[p] # None /\ localS[p] = None => p \in todo.down
  /\ baseS[p] # None /\ rowS[p] = None => p \in todo.up /\ localS[p] # None

SelInv ==
  /\ SelTypes
  /\ \A p \in PathsS : p \in outside \/ PathMatches(p)
  /\ \A p \in PathsS : p \in gone \/ p \in outside \/ KeptPath(p)
  /\ \A p \in todo.del : p \in gone \/ p \in outside
  /\ \A p \in todo.up : Present(baseS[p]) /\ p \notin todo.del
  /\ \A p \in todo.down : Present(baseS[p]) /\ Present(rowS[p]) /\ p \notin todo.del
-----------------------------------------------------------------------------

\* The records of the model are metadata: a device reports what it has, an upload
\* makes a row of it, a deletion a tombstone.
LEMMA Metas ==
  /\ \A h \in Hashes : /\ LiveS(h) \in Meta /\ LiveS(h) # None /\ ~LiveS(h).deleted
                       /\ UploadedS(h) \in Meta /\ UploadedS(h) # None /\ ~UploadedS(h).deleted
  /\ \A m \in Meta : /\ BuriedS(m) \in Meta /\ BuriedS(m) # None /\ BuriedS(m).deleted
                     /\ m.hash \in Hashes /\ m # None
<1>1. ZeroClock \in Clock
  BY MaxTickAssumption DEF ZeroClock, Clock
<1>2. Advance(ZeroClock, ServerS) \in Clock
  BY MaxTickAssumption, SelAssumption DEF ZeroClock, Clock, Advance
<1>3. ASSUME NEW h \in Hashes
      PROVE  /\ LiveS(h) \in Meta /\ ~LiveS(h).deleted
             /\ UploadedS(h) \in Meta /\ ~UploadedS(h).deleted
  BY <1>1, <1>2 DEF LiveS, UploadedS, Meta
<1>4. ASSUME NEW m \in Meta
      PROVE  BuriedS(m) \in Meta /\ BuriedS(m).deleted /\ m.hash \in Hashes
  BY DEF BuriedS, Meta
<1> QED
  BY <1>3, <1>4, NoneAssumption

\* resolve_one wants a transfer only from a side that has the file.
LEMMA Transfers ==
  ASSUME NEW r \in MaybeMeta, NEW d \in MaybeMeta, NEW b \in MaybeMeta
  PROVE  /\ ResolveOne(r, d, b).action = "Upload" => Present(r)
         /\ ResolveOne(r, d, b).action = "Download" => Present(d)
<1>1. ASSUME ~Present(r)
      PROVE  ResolveOne(r, d, b).action # "Upload"
  BY <1>1, SMTT(30) DEF ResolveOne, Make, MakeWithConflict
<1>2. ASSUME ~Present(d)
      PROVE  ResolveOne(r, d, b).action # "Download"
  BY <1>2, ZenonT(60) DEF ResolveOne, Make, MakeWithConflict
<1> QED
  BY <1>1, <1>2

\* Without a tombstone, and with the file on both sides wherever there is a
\* baseline, resolve_one deletes nothing and sends what one side lacks.
LEMMA KeepsDecision ==
  ASSUME NEW r \in MaybeMeta, NEW d \in MaybeMeta, NEW b \in MaybeMeta,
         ~Tomb(r), ~Tomb(d), ~Tomb(b), b # None => r # None /\ d # None
  PROVE  /\ ResolveOne(r, d, b).action \notin {"DeleteLocal", "DeleteRemote"}
         /\ r = None /\ d = None => ResolveOne(r, d, b).action = "Skip"
         /\ r = None /\ d # None => ResolveOne(r, d, b).action = "Download"
         /\ r # None /\ d = None => ResolveOne(r, d, b).action = "Upload"
<1> DEFINE x == ResolveOne(r, d, b)
<1>1. \/ r = None /\ d = None /\ x = Make("Skip")
      \/ r = None /\ d # None /\ x = Make("Download")
      \/ r # None /\ d = None /\ x = Make("Upload")
      \/ r # None /\ d # None /\ \E a \in {"Upload", "Download", "ConflictFork", "Skip"} :
           \E k \in ConflictKinds : x = MakeWithConflict(a, k)
  <2>1. \/ r = None /\ d = None /\ x = Make("Skip")
        \/ r = None /\ d # None /\ x = Make("Download")
        \/ r # None /\ d = None /\ x = Make("Upload")
        \/ r # None /\ d # None /\ x = ResolveThreeWay(r, d, b)
        \/ r # None /\ d # None /\ \E a \in {"Upload", "Download", "ConflictFork", "Skip"} :
             \E k \in ConflictKinds : x = MakeWithConflict(a, k)
    BY ZenonT(60) DEF ResolveOne, Make, MakeWithConflict, ConflictKinds, Present, Tomb
  <2>2. \E a \in {"Upload", "Download", "ConflictFork", "Skip"} :
          \E k \in ConflictKinds : ResolveThreeWay(r, d, b) = MakeWithConflict(a, k)
    BY ZenonT(60) DEF ResolveThreeWay, Make, MakeWithConflict, ConflictKinds
  <2> QED
    BY <2>1, <2>2
<1> QED
  BY <1>1 DEF Make, MakeWithConflict

\* Every step keeps the invariant, and no step buries a file the device kept.
LEMMA SelectiveStep ==
  SelInv /\ [SelNext]_selVars => SelInv' /\ ((\A p \in BuriedNow : p \in gone \/ p \in outside) \/ UNCHANGED selVars)
<1> SUFFICES ASSUME SelInv, [SelNext]_selVars
             PROVE  SelInv' /\ ((\A p \in BuriedNow : p \in gone \/ p \in outside) \/ UNCHANGED selVars)
  OBVIOUS
<1> DEFINE Goal == SelInv' /\ \A p \in BuriedNow : p \in gone \/ p \in outside
<1>0. SelTypes
  BY DEF SelInv
<1>a. ASSUME \A p \in PathsS : rowS'[p] = rowS[p] \/ ~Tomb(rowS'[p])
      PROVE  \A p \in BuriedNow : p \in gone \/ p \in outside
  BY <1>a DEF BuriedNow, Present, Tomb
<1>b. todo.up \in SUBSET PathsS /\ todo.down \in SUBSET PathsS /\ todo.del \in SUBSET PathsS
  BY <1>0 DEF SelTypes
<1>1. ASSUME NEW u \in UsersS, NEW ps \in SUBSET PathsS, PutSelectiveSync(u, ps)
      PROVE  Goal
  <2>1. /\ UNCHANGED <<rowS, baseS, localS, todo, gone>>
        /\ outside' = outside \cup {p \in PathsS : ~PathMatches(p)'}
    BY <1>1 DEF PutSelectiveSync
  <2>2. SelTypes'
    BY <1>0, <1>1, <2>1 DEF SelTypes, PutSelectiveSync
  <2>3. \A p \in PathsS : p \in outside' \/ PathMatches(p)'
    BY <2>1
  <2>4. \A p \in PathsS : KeptPath(p) => KeptPath(p)'
    BY <2>1 DEF KeptPath
  <2>5. SelInv'
    BY <2>1, <2>2, <2>3, <2>4 DEF SelInv
  <2> QED
    BY <1>a, <2>1, <2>5
<1>2. ASSUME NEW p \in PathsS, NEW h \in Hashes, DeviceEdit(p, h)
      PROVE  Goal
  <2>1. UNCHANGED <<rules, rowS, baseS, todo, gone, outside>> /\ localS' = [localS EXCEPT ![p] = h]
    BY <1>2 DEF DeviceEdit
  <2>2. SelTypes'
    BY <1>0, <2>1 DEF SelTypes
  <2>3. \A q \in PathsS : localS[q] # None => localS'[q] # None
    BY <1>0, <2>1, SelAssumption DEF SelTypes
  <2>4. \A q \in PathsS : KeptPath(q) => KeptPath(q)'
    BY <2>1, <2>3 DEF KeptPath
  <2>5. \A q \in PathsS : PathMatches(q) => PathMatches(q)'
    BY <2>1 DEF PathMatches, NodeSyncIncludes
  <2>6. SelInv'
    BY <2>1, <2>2, <2>4, <2>5 DEF SelInv
  <2> QED
    BY <1>a, <2>1, <2>6
<1>3. ASSUME NEW p \in PathsS, DeviceRemove(p)
      PROVE  Goal
  <2>1. UNCHANGED <<rules, rowS, baseS, todo, outside>> /\ localS' = [localS EXCEPT ![p] = None] /\ gone' = gone \cup {p}
    BY <1>3 DEF DeviceRemove
  <2>2. SelTypes'
    BY <1>0, <2>1 DEF SelTypes
  <2>3. \A q \in PathsS : q # p => localS'[q] = localS[q]
    BY <1>0, <2>1 DEF SelTypes
  <2>4. \A q \in PathsS : q # p /\ KeptPath(q) => KeptPath(q)'
    BY <2>1, <2>3 DEF KeptPath
  <2>5. \A q \in PathsS : PathMatches(q) => PathMatches(q)'
    BY <2>1 DEF PathMatches, NodeSyncIncludes
  <2>6. SelInv'
    BY <2>1, <2>2, <2>4, <2>5 DEF SelInv
  <2> QED
    BY <1>a, <2>1, <2>6
<1>4. ASSUME NEW p \in PathsS, NEW h \in Hashes, OtherDevice(p, h)
      PROVE  Goal
  <2>1. UNCHANGED <<rules, localS, baseS, todo, gone, outside>> /\ rowS' = [rowS EXCEPT ![p] = UploadedS(h)]
    BY <1>4 DEF OtherDevice
  <2>2. UploadedS(h) \in Meta /\ UploadedS(h) # None /\ ~UploadedS(h).deleted
    BY Metas
  <2>3. rowS' \in [PathsS -> MaybeMeta] /\ Present(rowS'[p]) /\ \A q \in PathsS : q # p => rowS'[q] = rowS[q]
    BY <1>0, <2>1, <2>2 DEF SelTypes, MaybeMeta, Present
  <2>4. SelTypes'
    BY <1>0, <2>1, <2>3 DEF SelTypes
  <2>5. \A q \in PathsS : KeptPath(q) => KeptPath(q)'
    BY <2>1, <2>3 DEF KeptPath, Present, Tomb
  <2>6. \A q \in PathsS : PathMatches(q) => PathMatches(q)'
    BY <2>1 DEF PathMatches, NodeSyncIncludes
  <2>7. \A q \in todo.down : Present(rowS'[q])
    BY <1>b, <2>3 DEF SelInv
  <2>8. SelInv'
    BY <2>1, <2>4, <2>5, <2>6, <2>7 DEF SelInv
  <2>9. \A q \in PathsS : rowS'[q] = rowS[q] \/ ~Tomb(rowS'[q])
    BY <2>3 DEF Present, Tomb
  <2> QED
    BY <1>a, <2>8, <2>9
<1>5. ASSUME NEW p \in PathsS, UploadSelective(p)
      PROVE  Goal
  <2>1. p \in todo.up /\ todo' = [todo EXCEPT !.up = @ \ {p}] /\ UNCHANGED <<rules, baseS, localS, outside>>
    BY <1>5 DEF UploadSelective
  <2>2. /\ todo'.up = todo.up \ {p} /\ todo'.down = todo.down /\ todo'.del = todo.del
        /\ todo' \in [up : SUBSET PathsS, down : SUBSET PathsS, del : SUBSET PathsS]
    BY <1>0, <2>1 DEF SelTypes
  <2>3. \A q \in PathsS : PathMatches(q) => PathMatches(q)'
    BY <2>1 DEF PathMatches, NodeSyncIncludes
  <2>4. Present(baseS[p]) /\ p \notin todo.del
    BY <2>1 DEF SelInv
  <2>5. ASSUME ~(PathMatches(p) /\ localS[p] # None)
        PROVE  Goal
    <3>1. UNCHANGED <<rowS, gone>>
      BY <1>5, <2>5 DEF UploadSelective
    <3>2. \A q \in PathsS : q # p /\ KeptPath(q) => KeptPath(q)'
      BY <2>1, <2>2, <3>1 DEF KeptPath
    <3>3. p \in gone \/ p \in outside \/ KeptPath(p)'
      BY <2>1, <2>2, <2>4, <2>5, <3>1 DEF SelInv, KeptPath, Present
    <3>4. SelTypes'
      BY <1>0, <2>1, <2>2, <3>1 DEF SelTypes
    <3>5. SelInv'
      BY <2>1, <2>2, <2>3, <3>1, <3>2, <3>3, <3>4 DEF SelInv
    <3> QED
      BY <1>a, <3>1, <3>5
  <2>6. ASSUME PathMatches(p), localS[p] # None
        PROVE  Goal
    <3>0. PICK h \in Hashes : h = localS[p]
      BY <1>0, <2>6 DEF SelTypes
    <3>1. rowS' = [rowS EXCEPT ![p] = UploadedS(h)] /\ gone' = gone \ {p}
      BY <1>5, <2>6, <3>0 DEF UploadSelective
    <3>2. UploadedS(h) \in Meta /\ UploadedS(h) # None /\ ~UploadedS(h).deleted
      BY Metas
    <3>3. rowS' \in [PathsS -> MaybeMeta] /\ Present(rowS'[p]) /\ \A q \in PathsS : q # p => rowS'[q] = rowS[q]
      BY <1>0, <3>1, <3>2 DEF SelTypes, MaybeMeta, Present
    <3>4. SelTypes'
      BY <1>0, <2>1, <2>2, <3>3 DEF SelTypes
    <3>5. \A q \in PathsS : q # p /\ KeptPath(q) => KeptPath(q)'
      BY <2>1, <2>2, <3>3 DEF KeptPath
    <3>6. KeptPath(p)'
      BY <2>1, <2>4, <2>6, <3>3 DEF KeptPath, Present, Tomb
    <3>7. \A q \in todo.down : Present(rowS'[q])
      BY <1>b, <3>3 DEF SelInv
    <3>8. SelInv'
      BY <2>1, <2>2, <2>3, <2>4, <3>1, <3>4, <3>5, <3>6, <3>7 DEF SelInv
    <3>9. \A q \in PathsS : rowS'[q] = rowS[q] \/ ~Tomb(rowS'[q])
      BY <3>3 DEF Present, Tomb
    <3> QED
      BY <1>a, <3>8, <3>9
  <2> QED
    BY <2>5, <2>6
<1>6. ASSUME NEW p \in PathsS, DownloadSelective(p)
      PROVE  Goal
  <2>1. p \in todo.down /\ todo' = [todo EXCEPT !.down = @ \ {p}] /\ UNCHANGED <<rules, rowS, baseS, outside>>
    BY <1>6 DEF DownloadSelective
  <2>2. /\ todo'.up = todo.up /\ todo'.down = todo.down \ {p} /\ todo'.del = todo.del
        /\ todo' \in [up : SUBSET PathsS, down : SUBSET PathsS, del : SUBSET PathsS]
    BY <1>0, <2>1 DEF SelTypes
  <2>3. \A q \in PathsS : PathMatches(q) => PathMatches(q)'
    BY <2>1 DEF PathMatches, NodeSyncIncludes
  <2>4. Present(baseS[p]) /\ Present(rowS[p]) /\ p \notin todo.del
    BY <2>1 DEF SelInv
  <2>5. ASSUME ~PathMatches(p)
        PROVE  SelInv'
    <3>1. UNCHANGED <<localS, gone>>
      BY <1>6, <2>5 DEF DownloadSelective
    <3>2. \A q \in PathsS : q # p /\ KeptPath(q) => KeptPath(q)'
      BY <2>1, <2>2, <3>1 DEF KeptPath
    <3>3. p \in outside
      BY <2>5 DEF SelInv
    <3>4. SelTypes'
      BY <1>0, <2>1, <2>2, <3>1 DEF SelTypes
    <3> QED
      BY <2>1, <2>2, <2>3, <3>1, <3>2, <3>3, <3>4 DEF SelInv
  <2>6. ASSUME PathMatches(p)
        PROVE  SelInv'
    <3>1. localS' = [localS EXCEPT ![p] = rowS[p].hash] /\ gone' = gone \ {p}
      BY <1>6, <2>4, <2>6 DEF DownloadSelective
    <3>2. rowS[p].hash \in Hashes
      BY <1>0, <2>4, Metas DEF SelTypes, MaybeMeta, Present
    <3>3. localS' \in [PathsS -> Hashes \cup {None}] /\ localS'[p] # None /\ \A q \in PathsS : q # p => localS'[q] = localS[q]
      BY <1>0, <3>1, <3>2, SelAssumption DEF SelTypes
    <3>4. SelTypes'
      BY <1>0, <2>1, <2>2, <3>3 DEF SelTypes
    <3>5. \A q \in PathsS : q # p /\ KeptPath(q) => KeptPath(q)'
      BY <2>1, <2>2, <3>3 DEF KeptPath
    <3>6. KeptPath(p)'
      BY <2>1, <2>4, <3>3 DEF KeptPath, Present, Tomb
    <3> QED
      BY <2>1, <2>2, <2>3, <2>4, <3>1, <3>4, <3>5, <3>6 DEF SelInv
  <2> QED
    BY <1>a, <2>1, <2>5, <2>6
<1>7. ASSUME NEW p \in PathsS, DeleteSelective(p)
      PROVE  Goal
  <2>1. /\ p \in todo.del /\ todo' = [todo EXCEPT !.del = @ \ {p}] /\ UNCHANGED <<rules, rowS, baseS, gone, outside>>
        /\ localS' = [localS EXCEPT ![p] = None]
    BY <1>7 DEF DeleteSelective
  <2>2. /\ todo'.up = todo.up /\ todo'.down = todo.down /\ todo'.del = todo.del \ {p}
        /\ todo' \in [up : SUBSET PathsS, down : SUBSET PathsS, del : SUBSET PathsS]
    BY <1>0, <2>1 DEF SelTypes
  <2>3. \A q \in PathsS : PathMatches(q) => PathMatches(q)'
    BY <2>1 DEF PathMatches, NodeSyncIncludes
  <2>4. localS' \in [PathsS -> Hashes \cup {None}] /\ \A q \in PathsS : q # p => localS'[q] = localS[q]
    BY <1>0, <2>1 DEF SelTypes
  <2>5. \A q \in PathsS : q # p /\ KeptPath(q) => KeptPath(q)'
    BY <2>1, <2>2, <2>4 DEF KeptPath
  <2>6. SelTypes'
    BY <1>0, <2>1, <2>2, <2>4 DEF SelTypes
  <2>7. p \in gone \/ p \in outside
    BY <2>1 DEF SelInv
  <2>8. SelInv'
    BY <2>1, <2>2, <2>3, <2>5, <2>6, <2>7 DEF SelInv
  <2> QED
    BY <1>a, <2>1, <2>8
<1>8. ASSUME ExchangeSelective
      PROVE  Goal
  <2>1. todo = NoTodo /\ UNCHANGED <<rules, localS, gone, outside>> /\ todo.down = {} /\ todo.up = {}
    BY <1>8 DEF ExchangeSelective, NoTodo
  <2>2. /\ rowS' = [p \in PathsS |-> IF Decided(p) = "DeleteLocal" /\ Present(rowS[p]) THEN BuriedS(rowS[p]) ELSE rowS[p]]
        /\ baseS' = [p \in PathsS |-> BaselineAfter(p)]
    BY <1>8 DEF ExchangeSelective
  <2>3. /\ todo'.up = {p \in PathsS : Decided(p) = "Download" /\ PathMatches(p)}
        /\ todo'.down = {p \in PathsS : Decided(p) = "Upload" /\ PathMatches(p)}
        /\ todo'.del = {p \in PathsS : Decided(p) \in {"DeleteLocal", "DeleteRemote"} /\ PathMatches(p)}
        /\ todo' \in [up : SUBSET PathsS, down : SUBSET PathsS, del : SUBSET PathsS]
    BY <1>8 DEF ExchangeSelective, FilterPaths
  <2>4. ASSUME NEW p \in PathsS
        PROVE  /\ rowS[p] \in MaybeMeta /\ baseS[p] \in MaybeMeta
               /\ Reported(p) \in MaybeMeta /\ ~Tomb(Reported(p)) /\ (Reported(p) = None <=> localS[p] = None)
    <3>1. rowS[p] \in MaybeMeta /\ baseS[p] \in MaybeMeta /\ localS[p] \in Hashes \cup {None}
      BY <1>0 DEF SelTypes
    <3> QED
      BY <3>1, Metas DEF Reported, MaybeMeta, Tomb
  <2>5. ASSUME NEW p \in PathsS
        PROVE  /\ Decided(p) = "Upload" => Present(rowS[p])
               /\ Decided(p) = "Download" => Present(Reported(p))
    BY <2>4, Transfers DEF Decided
  <2>6. ASSUME NEW p \in PathsS
        PROVE  /\ rowS'[p] \in MaybeMeta
               /\ rowS'[p] = rowS[p] \/ Decided(p) = "DeleteLocal"
    BY <2>2, <2>4, Metas DEF MaybeMeta, Present
  <2>7. ASSUME NEW p \in PathsS
        PROVE  /\ Decided(p) = "Upload" => baseS'[p] = rowS[p]
               /\ Decided(p) = "Download" => baseS'[p] = Reported(p)
               /\ Decided(p) = "Skip" /\ rowS[p] # None => baseS'[p] = rowS[p]
               /\ Decided(p) = "Skip" /\ rowS[p] = None => baseS'[p] = baseS[p]
               /\ baseS'[p] \in {rowS[p], Reported(p), baseS[p]} \/ Decided(p) \in {"DeleteLocal", "DeleteRemote"}
               /\ baseS'[p] \in MaybeMeta
    <3>1. rowS[p] # None => BuriedS(rowS[p]) \in MaybeMeta
      BY <2>4, Metas DEF MaybeMeta
    <3>2. baseS'[p] = BaselineAfter(p)
      BY <2>2
    <3>3. Decided(p) = "Upload" => rowS[p] # None
      BY <2>5 DEF Present
    <3> QED
      BY <2>4, <3>1, <3>2, <3>3 DEF BaselineAfter
  <2>8. SelTypes'
    <3>1. rowS' \in [PathsS -> MaybeMeta] /\ baseS' \in [PathsS -> MaybeMeta]
      BY <2>2, <2>6, <2>7
    <3> QED
      BY <1>0, <2>1, <2>3, <3>1 DEF SelTypes
  <2>9. ASSUME NEW p \in PathsS, p \notin gone, p \notin outside
        PROVE  Decided(p) \notin {"DeleteLocal", "DeleteRemote"} /\ KeptPath(p)'
    <3>1. KeptPath(p) /\ PathMatches(p)
      BY <2>9 DEF SelInv
    <3>2. /\ ~Tomb(rowS[p]) /\ ~Tomb(baseS[p])
          /\ baseS[p] # None => rowS[p] # None /\ Reported(p) # None
      BY <2>1, <2>4, <3>1 DEF KeptPath
    <3>3. /\ Decided(p) \notin {"DeleteLocal", "DeleteRemote"}
          /\ rowS[p] = None /\ localS[p] = None => Decided(p) = "Skip"
          /\ rowS[p] = None /\ localS[p] # None => Decided(p) = "Download"
          /\ rowS[p] # None /\ localS[p] = None => Decided(p) = "Upload"
      BY <2>4, <3>2, KeepsDecision DEF Decided
    <3>4. rowS'[p] = rowS[p]
      BY <2>6, <3>3
    <3>5. ~Tomb(baseS'[p])
      BY <2>4, <2>7, <3>2, <3>3
    <3>6. baseS'[p] # None /\ localS[p] = None => Decided(p) = "Upload"
      BY <2>7, <3>2, <3>3
    <3>7. baseS'[p] # None /\ rowS[p] = None => Decided(p) = "Download"
      BY <2>4, <2>7, <3>2, <3>3
    <3> QED
      BY <2>1, <2>3, <2>4, <2>5, <3>1, <3>2, <3>3, <3>4, <3>5, <3>6, <3>7 DEF KeptPath, Present
  <2>10. \A p \in PathsS : PathMatches(p) => PathMatches(p)'
    BY <2>1 DEF PathMatches, NodeSyncIncludes
  <2>11. \A p \in todo'.up : Present(baseS'[p]) /\ p \notin todo'.del
    BY <2>3, <2>5, <2>7
  <2>12. \A p \in todo'.down : Present(baseS'[p]) /\ Present(rowS'[p]) /\ p \notin todo'.del
    BY <2>3, <2>5, <2>6, <2>7
  <2>13. \A p \in todo'.del : p \in gone' \/ p \in outside'
    BY <2>1, <2>3, <2>9
  <2>14. \A p \in PathsS : p \in gone' \/ p \in outside' \/ KeptPath(p)'
    BY <2>1, <2>9
  <2>15. \A p \in PathsS : p \in outside' \/ PathMatches(p)'
    BY <2>1, <2>10 DEF SelInv
  <2>16. SelInv'
    BY <2>8, <2>11, <2>12, <2>13, <2>14, <2>15 DEF SelInv
  <2>17. \A p \in BuriedNow : p \in gone \/ p \in outside
    BY <2>6, <2>9 DEF BuriedNow, Present, Tomb
  <2> QED
    BY <2>16, <2>17
<1>9. ASSUME UNCHANGED selVars
      PROVE  SelInv'
  <2>1. UNCHANGED <<rules, rowS, baseS, localS, todo, gone, outside>>
    BY <1>9 DEF selVars
  <2>2. \A p \in PathsS : (PathMatches(p) => PathMatches(p)') /\ (KeptPath(p) => KeptPath(p)')
    BY <2>1 DEF PathMatches, NodeSyncIncludes, KeptPath
  <2>3. SelTypes'
    BY <1>0, <2>1 DEF SelTypes
  <2> QED
    BY <2>1, <2>2, <2>3 DEF SelInv
<1> HIDE DEF Goal
<1>10. ASSUME SelNext
       PROVE  Goal
  BY <1>1, <1>2, <1>3, <1>4, <1>5, <1>6, <1>7, <1>8, <1>10 DEF SelNext
<1> QED
  BY <1>9, <1>10 DEF Goal

\* A file that was in the device's folders all along and that the device did not
\* remove stays in the vault, whatever the rules for other folders do, for any
\* number of paths, users and rules (exchange_state, build_post_sync_baseline).
THEOREM IncludedHold == SelSpec => IncludedSurvives
<1>1. SelInit => SelInv
  BY DEF SelInit, SelInv, SelTypes, MaybeMeta, NoTodo, PathMatches, NodeSyncIncludes, KeptPath, Tomb
<1>2. SelInv /\ [SelNext]_selVars => SelInv'
  BY SelectiveStep
<1>3. SelInv /\ [SelNext]_selVars => [\A p \in BuriedNow : p \in gone \/ p \in outside]_selVars
  BY SelectiveStep
<1> QED
  BY <1>1, <1>2, <1>3, PTL DEF SelSpec, IncludedSurvives

-----------------------------------------------------------------------------
(* The parts together *)

\* A behaviour of the composition starts every part where it starts on its own.
LEMMA PartsInit ==
  MCInit => /\ AccountsInit /\ SharingInit /\ OrgsInit /\ QuotaInit /\ StorageInit /\ SignInit
            /\ DashInit /\ HistoryInit /\ FilesInit /\ EnrollInit /\ GateInit /\ SelInit
BY Zenon DEF MCInit

\* A step of the composition is, for every part, a step of that part or none.
LEMMA PartsStep ==
  [MCNext]_mcVars => /\ [AccountsNext]_accountVars /\ [SharingNext]_sharingVars /\ [OrgsNext]_orgVars
                     /\ [QuotaNext]_quotaVars /\ [StorageNext]_storageVars /\ [SignNext]_signVars
                     /\ [DashNext]_dashVars /\ [HistoryNext]_historyVars /\ [FilesNext]_fileVars
                     /\ [EnrollNext]_enrollVars /\ [GateNext]_gateVars /\ [SelNext]_selVars
<1> SUFFICES ASSUME [MCNext]_mcVars
             PROVE  /\ [AccountsNext]_accountVars /\ [SharingNext]_sharingVars /\ [OrgsNext]_orgVars
                    /\ [QuotaNext]_quotaVars /\ [StorageNext]_storageVars /\ [SignNext]_signVars
                    /\ [DashNext]_dashVars /\ [HistoryNext]_historyVars /\ [FilesNext]_fileVars
                    /\ [EnrollNext]_enrollVars /\ [GateNext]_gateVars /\ [SelNext]_selVars
  OBVIOUS
<1>1. CASE AccountsMoves
  BY <1>1 DEF AccountsMoves
<1>2. CASE SharingMoves
  BY <1>2 DEF SharingMoves
<1>3. CASE OrgsMoves
  BY <1>3 DEF OrgsMoves
<1>4. CASE QuotaMoves
  BY <1>4 DEF QuotaMoves
<1>5. CASE StorageMoves
  BY <1>5 DEF StorageMoves
<1>6. CASE SignInMoves
  BY <1>6 DEF SignInMoves
<1>7. CASE DashboardMoves
  BY <1>7 DEF DashboardMoves
<1>8. CASE HistoryMoves
  BY <1>8 DEF HistoryMoves
<1>9. CASE RowsMoves
  BY <1>9 DEF RowsMoves
<1>10. CASE EnrollmentMoves
  BY <1>10 DEF EnrollmentMoves
<1>11. CASE GateMoves
  BY <1>11 DEF GateMoves
<1>12. CASE SelectiveMoves
  BY <1>12 DEF SelectiveMoves
<1>13. CASE UNCHANGED mcVars
  BY <1>13 DEF mcVars
<1> QED
  BY <1>1, <1>2, <1>3, <1>4, <1>5, <1>6, <1>7, <1>8, <1>9, <1>10, <1>11, <1>12, <1>13 DEF MCNext

\* The composition implements the specification of each of its parts.
THEOREM PartsRun ==
  MCSpec => /\ AccountsSpec /\ SharingSpec /\ OrgsSpec /\ QuotaSpec /\ StorageSpec /\ SignSpec
            /\ DashSpec /\ HistorySpec /\ FilesSpec /\ EnrollSpec /\ GateSpec /\ SelSpec
BY PartsInit, PartsStep, PTL
   DEF MCSpec, AccountsSpec, SharingSpec, OrgsSpec, QuotaSpec, StorageSpec, SignSpec, DashSpec,
       HistorySpec, FilesSpec, EnrollSpec, GateSpec, SelSpec

\* Credentials keep working, for any number of keys, verifiers, sign-ins, tokens
\* and enrolling machines (jwks.rs, oauth.rs, token_refresh.rs, run_enroll).
THEOREM CredentialsKept == MCSpec => []CredentialsHold
<1>1. PublishedKeyAccepted /\ RedirectMatches /\ RefreshTokenKept /\ IdentityHolds => CredentialsHold
  BY DEF CredentialsHold
<1> QED
  BY <1>1, PartsRun, SignInHolds, IdentityKept, PTL

\* What is listed is what is there, for any number of tenants, paths, writers
\* and storage calls (files.rs, node_baseline.rs, disk-storage, summary_inner).
THEOREM RowsHold == MCSpec => []RowsSound
<1>1. TenantsApart /\ OneRowPerPath /\ BaselineIsWhole /\ RowsAreReadable /\ SummaryAgrees => RowsSound
  BY DEF RowsSound
<1> QED
  BY <1>1, PartsRun, RowsApart, RowsReadable, SummaryHolds, PTL

\* Everything the control run checks, in every behaviour of the composition.
THEOREM ControlHolds ==
  MCSpec => /\ [](AccessSound /\ WithinPlan /\ CredentialsHold /\ RowsSound /\ GateSound)
            /\ AccountsSound /\ HistorySound /\ IncludedSurvives
BY PartsRun, AccessHolds, PlanHolds, CredentialsKept, RowsHold, GateIsSound, AccountsHold,
   HistoryHolds, IncludedHold, PTL
=============================================================================
