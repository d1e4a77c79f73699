-------------------------- MODULE VaultSync_proofs --------------------------
(***************************************************************************)
(* VaultSync for any number of clients, paths and edits, any roles, any    *)
(* set of faults and any behaviour of users and operators.  The last       *)
(* sections are about NoEditLost and DeleteAuthority, which do not hold of *)
(* every instance: OneWriter, OneUser and Readers say of which ones they   *)
(* are proved.                                                             *)
(***************************************************************************)
EXTENDS VaultSync, Reconciler_proofs

-----------------------------------------------------------------------------
(* Types of the operators *)

LEMMA ZeroClockType == ZeroClock \in Clock
BY MaxTickAssumption DEF ZeroClock, Clock

LEMMA AdvanceType == ASSUME NEW n \in Nodes PROVE Advance(ZeroClock, n) \in Clock
BY MaxTickAssumption DEF Advance, ZeroClock, Clock

\* A row built from bytes is metadata, and so is a tombstone made of a row.
LEMMA LiveType ==
  ASSUME NEW content \in Hashes
  PROVE  /\ Live(content) \in Meta
         /\ Live(content) # None
         /\ Live(content).hash = content
         /\ UploadedMeta(content) \in Meta
<1>1. Live(content) \in Meta
  BY ZeroClockType DEF Live, Meta
<1>2. UploadedMeta(content) \in Meta
  BY AdvanceType, ShareAssumption DEF UploadedMeta, Meta
<1> QED BY <1>1, <1>2, NoneAssumption DEF Live

LEMMA BuriedType ==
  ASSUME NEW m \in Meta
  PROVE  /\ Buried(m) \in Meta
         /\ Tomb(Buried(m))
<1>1. Buried(m) \in Meta /\ Buried(m).deleted
  BY DEF Buried, Meta
<1> QED BY <1>1, NoneAssumption DEF Tomb

LEMMA WithType ==
  ASSUME NEW content \in MaybeHash, NEW e \in Edits
  PROVE  With(content, e) \in Hashes
BY ShareAssumption DEF With, MaybeHash

LEMMA ClientMetaType ==
  ASSUME TypeOK, NEW c \in Clients, NEW p \in Paths
  PROVE  /\ ClientMeta(c, p) \in MaybeMeta
         /\ snap[c][p] # None => ClientMeta(c, p) \in Meta /\ ClientMeta(c, p) # None
         /\ snap[c][p] = None => ClientMeta(c, p) = None
<1>1. snap[c][p] \in Hashes \cup {None}
  BY DEF TypeOK, MaybeHash
<1> QED BY <1>1, LiveType DEF ClientMeta, MaybeMeta

-----------------------------------------------------------------------------
(* Type invariant *)

\* What TypeOK needs to be inductive: between the two halves of an exchange the
\* plan is that of the tree, so a file the client is told to download or to
\* resolve has metadata to be sent with it; otherwise there is no plan.
PlanOK ==
  \A c \in Clients :
    /\ pc[c] \notin {"planned", "tombstoned"} => plan[c] = NoPlan
    /\ \A p \in Paths :
         /\ plan[c][p].act.action = "Upload" => plan[c][p].srv # None \/ snap[c][p] # None
         /\ plan[c][p].act.action = "ConflictFork" => plan[c][p].srv # None

TInv == TypeOK /\ PlanOK

LEMMA NoPlanSkips ==
  /\ NoPlan \in [Paths -> Verdict]
  /\ \A p \in Paths : NoPlan[p].act.action = "Skip"
BY DEF NoPlan, Verdict, Make, ActionTypes, ConflictKinds, MaybeMeta

LEMMA InitTInv == Init => TInv
<1> SUFFICES ASSUME Init PROVE TInv
  OBVIOUS
<1>2. NoResp \in Pending
  BY DEF NoResp, Pending, NoFiles, MaybeHash
<1>3. TypeOK
  BY NoPlanSkips, <1>2 DEF Init, TypeOK, NoFiles, MaybeHash, MaybeMeta
<1>4. PlanOK
  BY NoPlanSkips DEF Init, PlanOK
<1> QED BY <1>3, <1>4 DEF TInv

LEMMA UserTInv ==
  ASSUME TInv, NEW c \in Clients, User(c) PROVE TInv'
<1> USE DEF TInv, serverVars, clientVars, cycleVars, history
<1>1. ASSUME NEW p \in Paths, NEW e \in Edits, UserEdit(c, p, e) PROVE TInv'
  <2>1. With(local[c][p], e) \in Hashes
    BY WithType DEF TypeOK
  <2>2. TypeOK'
    BY <1>1, <2>1 DEF UserEdit, TypeOK, MaybeHash
  <2>3. PlanOK'
    BY <1>1 DEF UserEdit, PlanOK
  <2> QED BY <2>2, <2>3
<1>2. ASSUME NEW p \in Paths, UserDelete(c, p) PROVE TInv'
  <2>0. local[c][p] \in Hashes /\ dropped' \subseteq Edits
    BY <1>2, ShareAssumption DEF UserDelete, TypeOK, MaybeHash
  <2>1. TypeOK'
    BY <1>2, <2>0 DEF UserDelete, TypeOK, MaybeHash
  <2>2. PlanOK'
    BY <1>2 DEF UserDelete, PlanOK
  <2> QED BY <2>1, <2>2
<1>3. ASSUME NEW p \in Paths, UserUndelete(c, p) PROVE TInv'
  <2>1. TypeOK'
    BY <1>3 DEF UserUndelete, TypeOK, MaybeHash
  <2>2. PlanOK'
    BY <1>3 DEF UserUndelete, PlanOK
  <2> QED BY <2>1, <2>2
<1> QED BY <1>1, <1>2, <1>3 DEF User

LEMMA HostTInv == TInv /\ Host => TInv'
<1> SUFFICES ASSUME TInv, NEW p \in Paths,
                    (\E e \in Edits : HostEdit(p, e)) \/ HostDelete(p)
             PROVE  TInv'
  BY DEF Host
<1> USE DEF TInv, clientVars, cycleVars
<1>1. ASSUME NEW e \in Edits, HostEdit(p, e) PROVE TInv'
  <2>1. With(disk[p], e) \in Hashes
    BY WithType DEF TypeOK
  <2>2. TypeOK'
    BY <1>1, <2>1 DEF HostEdit, TypeOK, MaybeHash
  <2>3. PlanOK'
    BY <1>1 DEF HostEdit, PlanOK
  <2> QED BY <2>2, <2>3
<1>2. ASSUME HostDelete(p) PROVE TInv'
  <2>1. TypeOK'
    BY <1>2, ShareAssumption DEF HostDelete, TypeOK, MaybeHash
  <2>2. PlanOK'
    BY <1>2 DEF HostDelete, PlanOK
  <2> QED BY <2>1, <2>2
<1> QED BY <1>1, <1>2

LEMMA IndexTInv == TInv /\ Index => TInv'
<1> SUFFICES ASSUME TInv, Index PROVE TInv'
  OBVIOUS
<1> USE DEF TInv, clientVars, cycleVars, history
<1>1. ASSUME NEW p \in Paths
      PROVE  /\ disk[p] # None => UpsertLocalFile(p) \in Meta
             /\ TombstoneLocalFile(p) \in Meta
  <2>1. disk[p] \in Hashes \cup {None} /\ row[p] \in Meta \cup {None}
    BY DEF TypeOK, MaybeHash, MaybeMeta
  <2>2. ZeroHash \in Hashes
    BY ShareAssumption DEF ZeroHash
  <2> QED BY <2>1, <2>2, LiveType, BuriedType DEF UpsertLocalFile, TombstoneLocalFile
<1>2. ASSUME NEW p \in Paths, IndexEvent(p) PROVE TInv'
  <2>1. TypeOK'
    BY <1>1, <1>2 DEF IndexEvent, TypeOK, MaybeMeta
  <2>2. PlanOK'
    BY <1>2 DEF IndexEvent, PlanOK
  <2> QED BY <2>1, <2>2
<1>3. ASSUME FullReconcile PROVE TInv'
  <2>1. TypeOK'
    BY <1>1, <1>3 DEF FullReconcile, TypeOK, MaybeMeta
  <2>2. PlanOK'
    BY <1>3 DEF FullReconcile, PlanOK
  <2> QED BY <2>1, <2>2
<1> QED BY <1>2, <1>3 DEF Index

\* Taking an entry off a response leaves a response.
LEMMA PendingType ==
  ASSUME TypeOK, NEW c \in Clients, NEW p \in Paths
  PROVE  /\ [resp EXCEPT ![c].up = @ \ {p}] \in [Clients -> Pending]
         /\ [resp EXCEPT ![c].down[p] = None] \in [Clients -> Pending]
         /\ [resp EXCEPT ![c].conf[p] = None] \in [Clients -> Pending]
         /\ [resp EXCEPT ![c].del = @ \ {p}] \in [Clients -> Pending]
<1> DEFINE r == resp[c]
<1>1. resp \in [Clients -> Pending] /\ r \in Pending
  BY DEF TypeOK
<1>2. [r EXCEPT !.up = @ \ {p}] \in Pending
  BY <1>1 DEF Pending
<1>3. [r EXCEPT !.del = @ \ {p}] \in Pending
  BY <1>1 DEF Pending
<1>4. [r EXCEPT !.down[p] = None] \in Pending
  BY <1>1 DEF Pending, MaybeHash
<1>5. [r EXCEPT !.conf[p] = None] \in Pending
  BY <1>1 DEF Pending, MaybeHash
<1> QED BY <1>1, <1>2, <1>3, <1>4, <1>5

LEMMA ExchangeTInv ==
  ASSUME TInv, NEW c \in Clients, Exchange(c) PROVE TInv'
<1> USE DEF TInv, serverVars, clientVars, history
<1>1. ASSUME Scan(c) PROVE TInv'
  <2>1. snap' \in [Clients -> [Paths -> MaybeHash]]
    <3>1. local[c] \in [Paths -> MaybeHash] /\ NoFiles \in [Paths -> MaybeHash]
      BY DEF TypeOK, NoFiles, MaybeHash
    <3>2. \E f \in [Paths -> MaybeHash] : snap' = [snap EXCEPT ![c] = f]
      BY <1>1, <3>1 DEF Scan
    <3> QED BY <3>2 DEF TypeOK
  <2>2. TypeOK'
    BY <1>1, <2>1 DEF Scan, TypeOK
  <2>3. PlanOK'
    BY <1>1, NoPlanSkips DEF Scan, PlanOK, TypeOK
  <2> QED BY <2>2, <2>3
<1>2. ASSUME ExchangePlan(c) PROVE TInv'
  <2> DEFINE decided == [p \in Paths |->
        [act |-> ResolveOne(row[p], ClientMeta(c, p), baseline[c][p]), srv |-> row[p]]]
  <2>1. decided \in [Paths -> Verdict]
    <3> SUFFICES ASSUME NEW p \in Paths PROVE decided[p] \in Verdict
      OBVIOUS
    <3>1. row[p] \in MaybeMeta /\ ClientMeta(c, p) \in MaybeMeta /\ baseline[c][p] \in MaybeMeta
      BY ClientMetaType DEF TypeOK
    <3>2. ResolveOne(row[p], ClientMeta(c, p), baseline[c][p])
            \in [action : ActionTypes, conflict : ConflictKinds]
      BY <3>1, ResolveOneTotal
    <3> QED BY <3>1, <3>2 DEF Verdict
  <2>2. TypeOK'
    BY <1>2, <2>1 DEF ExchangePlan, TypeOK
  <2>3. ASSUME NEW p \in Paths
        PROVE  /\ decided[p].act.action = "Upload" => row[p] # None \/ snap[c][p] # None
               /\ decided[p].act.action = "ConflictFork" => row[p] # None
    <3>1. row[p] \in MaybeMeta /\ ClientMeta(c, p) \in MaybeMeta /\ baseline[c][p] \in MaybeMeta
      BY ClientMetaType DEF TypeOK
    <3>2. decided[p].act = ResolveOne(row[p], ClientMeta(c, p), baseline[c][p])
      OBVIOUS
    <3>3. decided[p].act.action = "ConflictFork" => row[p] # None
      BY <3>1, <3>2, ForkArms DEF Present
    <3>4. decided[p].act.action = "Upload" => row[p] # None \/ ClientMeta(c, p) # None
      BY <3>1, <3>2, UploadNeedsACopy DEF Make
    <3> QED BY <3>3, <3>4, ClientMetaType
  <2>4. PlanOK'
    BY <1>2, <2>3 DEF ExchangePlan, PlanOK, TypeOK
  <2> QED BY <2>2, <2>4
<1>3. ASSUME ExchangeTombstone(c) PROVE TInv'
  <2>1. \A p \in Paths : p \in Buries(c) => Buried(plan[c][p].srv) \in Meta
    BY BuriedType DEF Buries, Planned, TypeOK, Verdict, MaybeMeta
  <2>2. TypeOK'
    BY <1>3, <2>1 DEF ExchangeTombstone, TypeOK, MaybeMeta
  <2>3. PlanOK'
    BY <1>3 DEF ExchangeTombstone, PlanOK, TypeOK
  <2> QED BY <2>2, <2>3
<1>4. ASSUME ExchangeRespond(c) PROVE TInv'
  <2>1. ASSUME NEW p \in Paths PROVE PostSyncBaseline(c, p) \in MaybeMeta
    <3>1. plan[c][p].srv \in MaybeMeta /\ baseline[c][p] \in MaybeMeta
      BY DEF TypeOK, Verdict
    <3>2. plan[c][p].srv # None => Buried(plan[c][p].srv) \in MaybeMeta
      BY <3>1, BuriedType DEF MaybeMeta
    <3> QED BY <3>1, <3>2, ClientMetaType, ZenonT(30) DEF PostSyncBaseline
  <2>2. Response(c) \in Pending
    <3>1. ASSUME NEW p \in Paths, p \in Planned(c, "Upload")
          PROVE  DownloadMeta(c, p).hash \in Hashes
      <4>1. DownloadMeta(c, p) \in Meta
        BY <3>1, ClientMetaType DEF DownloadMeta, Planned, PlanOK, TypeOK, Verdict, MaybeMeta
      <4> QED BY <4>1 DEF Meta
    <3>2. ASSUME NEW p \in Paths, p \in Planned(c, "ConflictFork")
          PROVE  plan[c][p].srv.hash \in Hashes
      BY <3>2 DEF Planned, PlanOK, TypeOK, Verdict, MaybeMeta, Meta
    <3> QED BY <3>1, <3>2 DEF Response, Pending, Planned, MaybeHash
  <2>3. baseline' \in [Clients -> [Paths -> MaybeMeta]]
    BY <1>4, <2>1 DEF ExchangeRespond, TypeOK
  <2>4. /\ resp' \in [Clients -> Pending]
        /\ pc' \in [Clients -> {"idle", "scanned", "planned", "tombstoned", "apply"}]
    <3>1. CASE /\ resp' = [resp EXCEPT ![c] = Response(c)]
               /\ pc' = [pc EXCEPT ![c] = "apply"]
      BY <2>2, <3>1 DEF TypeOK
    <3>2. CASE resp' = resp /\ pc' = [pc EXCEPT ![c] = "idle"]
      BY <3>2 DEF TypeOK
    <3> QED BY <1>4, <3>1, <3>2 DEF ExchangeRespond
  <2>5. plan' \in [Clients -> [Paths -> Verdict]] /\ snap' \in [Clients -> [Paths -> MaybeHash]]
    BY <1>4, NoPlanSkips DEF ExchangeRespond, TypeOK, NoFiles, MaybeHash
  <2>6. deletes' \in [Clients -> SUBSET Paths] /\ claims' \in [Clients -> SUBSET Paths]
    BY <1>4 DEF ExchangeRespond, TypeOK
  <2>7. TypeOK'
    BY <1>4, <2>3, <2>4, <2>5, <2>6 DEF ExchangeRespond, TypeOK
  <2>8. PlanOK'
    BY <1>4, NoPlanSkips DEF ExchangeRespond, PlanOK, TypeOK
  <2> QED BY <2>7, <2>8
<1> QED BY <1>1, <1>2, <1>3, <1>4 DEF Exchange

LEMMA ApplyTInv ==
  ASSUME TInv, NEW c \in Clients, Apply(c) \/ Abandon(c) PROVE TInv'
<1> USE DEF TInv, serverVars, clientVars, history, Deleting, Resolving, Downloading, Uploading
<1>1. ASSUME UploadRow(c) PROVE TInv'
  <2>1. staged[c].path \in Paths /\ UploadedMeta(staged[c].bytes) \in MaybeMeta
    BY <1>1, LiveType DEF UploadRow, TypeOK, MaybeMeta
  <2>2. row' \in [Paths -> MaybeMeta]
    BY <1>1, <2>1 DEF UploadRow, TypeOK
  <2>3. TypeOK'
    BY <1>1, <2>2 DEF UploadRow, TypeOK
  <2>4. PlanOK'
    BY <1>1 DEF UploadRow, PlanOK
  <2> QED BY <2>3, <2>4
<1>2. ASSUME ConflictApply(c) PROVE TInv'
  <2> DEFINE q == held[c].path
             ours == held[c].ours
             theirs == held[c].theirs
  <2>1. /\ q \in Paths /\ ours \in MaybeHash /\ theirs \in MaybeHash
        /\ theirs \in Hashes /\ ours \cup theirs \in MaybeHash
    BY <1>2, ShareAssumption DEF ConflictApply, TypeOK, MaybeHash
  <2>2. \/ local' = [local EXCEPT ![c][q] = theirs] /\ forks' = forks
        \/ local' = [local EXCEPT ![c][q] = ours \cup theirs] /\ forks' = forks
        \/ local' = local /\ forks' = [forks EXCEPT ![c][q] = @ \cup {theirs}]
    BY <1>2 DEF ConflictApply
  <2> HIDE DEF q, ours, theirs
  <2>3. \/ local' = local
        \/ \E h \in MaybeHash : local' = [local EXCEPT ![c][q] = h]
    BY <2>1, <2>2
  <2>4. local' \in [Clients -> [Paths -> MaybeHash]]
    <3>1. CASE local' = local
      BY <3>1 DEF TypeOK
    <3>2. ASSUME NEW h \in MaybeHash, local' = [local EXCEPT ![c][q] = h]
          PROVE  local' \in [Clients -> [Paths -> MaybeHash]]
      BY <2>1, <3>2 DEF TypeOK
    <3> QED BY <2>3, <3>1, <3>2
  <2>5. forks' \in [Clients -> [Paths -> SUBSET Hashes]]
    <3>1. CASE forks' = forks
      BY <3>1 DEF TypeOK
    <3>2. CASE forks' = [forks EXCEPT ![c][q] = @ \cup {theirs}]
      BY <2>1, <3>2 DEF TypeOK
    <3> QED BY <2>2, <3>1, <3>2
  <2>6. TypeOK'
    BY <1>2, <2>4, <2>5 DEF ConflictApply, TypeOK
  <2>7. PlanOK'
    BY <1>2 DEF ConflictApply, PlanOK
  <2> QED BY <2>6, <2>7
<1>3. ASSUME FinishCycle(c) PROVE TInv'
  <2>1. TypeOK'
    BY <1>3 DEF FinishCycle, TypeOK
  <2>2. PlanOK'
    BY <1>3 DEF FinishCycle, PlanOK, TypeOK
  <2> QED BY <2>1, <2>2
<1>4. ASSUME NEW p \in Paths, UploadSkipped(c, p) PROVE TInv'
  <2>1. TypeOK'
    BY <1>4, PendingType DEF UploadSkipped, TypeOK
  <2>2. PlanOK'
    BY <1>4 DEF UploadSkipped, PlanOK
  <2> QED BY <2>1, <2>2
<1>5. ASSUME NEW p \in Paths, DeleteSkipped(c, p) PROVE TInv'
  <2>1. TypeOK'
    BY <1>5, PendingType DEF DeleteSkipped, TypeOK
  <2>2. PlanOK'
    BY <1>5 DEF DeleteSkipped, PlanOK
  <2> QED BY <2>1, <2>2
<1>6. ASSUME NEW p \in Paths, DownloadSkipped(c, p) PROVE TInv'
  <2>1. TypeOK'
    BY <1>6, PendingType DEF DownloadSkipped, TypeOK
  <2>2. PlanOK'
    BY <1>6 DEF DownloadSkipped, PlanOK
  <2> QED BY <2>1, <2>2
<1>7. ASSUME NEW p \in Paths, ConflictSkipped(c, p) PROVE TInv'
  <2>1. TypeOK'
    BY <1>7, PendingType DEF ConflictSkipped, TypeOK
  <2>2. PlanOK'
    BY <1>7 DEF ConflictSkipped, PlanOK
  <2> QED BY <2>1, <2>2
<1>8. ASSUME NEW p \in Paths, UploadBytes(c, p) PROVE TInv'
  <2>1. local[c][p] \in Hashes
    BY <1>8 DEF UploadBytes, TypeOK, MaybeHash
  <2>2. disk' \in [Paths -> MaybeHash] /\ archive' \in [Hashes -> MaybeHash]
    <3>1. Archived(p) \in [Hashes -> MaybeHash]
      BY DEF Archived, TypeOK, MaybeHash
    <3> QED BY <1>8, <2>1, <3>1 DEF UploadBytes, TypeOK, MaybeHash
  <2>3. staged' \in [Clients -> [path : Paths, bytes : Hashes] \cup {None}]
    BY <1>8, <2>1 DEF UploadBytes, TypeOK
  <2>4. TypeOK'
    BY <1>8, <2>2, <2>3, PendingType DEF UploadBytes, TypeOK
  <2>5. PlanOK'
    BY <1>8 DEF UploadBytes, PlanOK
  <2> QED BY <2>4, <2>5
<1>9. ASSUME NEW p \in Paths, DownloadInstalled(c, p) PROVE TInv'
  <2>1. local' \in [Clients -> [Paths -> MaybeHash]] /\ mergeBase' \in [Clients -> [Paths -> MaybeHash]]
    BY <1>9 DEF DownloadInstalled, TypeOK
  <2>2. deletes' \in [Clients -> SUBSET Paths]
    BY <1>9 DEF DownloadInstalled, TypeOK
  <2>3. TypeOK'
    BY <1>9, <2>1, <2>2, PendingType DEF DownloadInstalled, TypeOK
  <2>4. PlanOK'
    BY <1>9 DEF DownloadInstalled, PlanOK
  <2> QED BY <2>3, <2>4
<1>10. ASSUME NEW p \in Paths, ConflictRead(c, p) PROVE TInv'
  <2>1. local[c][p] \in Hashes /\ disk[p] \in Hashes
    BY <1>10 DEF ConflictRead, WireHashMatches, TypeOK, MaybeHash, Pending
  <2>2. held' \in [Clients -> [path : Paths, ours : Hashes, theirs : Hashes] \cup {None}]
    BY <1>10, <2>1 DEF ConflictRead, TypeOK
  <2>3. TypeOK'
    BY <1>10, <2>2, PendingType DEF ConflictRead, TypeOK
  <2>4. PlanOK'
    BY <1>10 DEF ConflictRead, PlanOK
  <2> QED BY <2>3, <2>4
<1>11. ASSUME NEW p \in Paths, DeleteApply(c, p) PROVE TInv'
  <2>1. local' \in [Clients -> [Paths -> MaybeHash]] /\ mergeBase' \in [Clients -> [Paths -> MaybeHash]]
    BY <1>11 DEF DeleteApply, TypeOK, MaybeHash
  <2>2. TypeOK'
    BY <1>11, <2>1, PendingType DEF DeleteApply, TypeOK
  <2>3. PlanOK'
    BY <1>11 DEF DeleteApply, PlanOK
  <2> QED BY <2>2, <2>3
<1>12. ASSUME Abandon(c) PROVE TInv'
  <2>1. NoResp \in Pending
    BY DEF NoResp, Pending, NoFiles, MaybeHash
  <2>2. TypeOK'
    BY <1>12, <2>1, NoPlanSkips DEF Abandon, TypeOK, NoFiles, MaybeHash
  <2>3. PlanOK'
    BY <1>12, NoPlanSkips DEF Abandon, PlanOK, TypeOK
  <2> QED BY <2>2, <2>3
<1> QED BY <1>1, <1>2, <1>3, <1>4, <1>5, <1>6, <1>7, <1>8, <1>9,
       <1>10, <1>11, <1>12 DEF Apply

LEMMA NextTInv == TInv /\ [Next]_vars => TInv'
<1> SUFFICES ASSUME TInv, [Next]_vars PROVE TInv'
  OBVIOUS
<1>1. CASE UNCHANGED vars
  BY <1>1 DEF TInv, TypeOK, PlanOK, vars, serverVars, clientVars, cycleVars, history,
              ClientMeta
<1>2. CASE Next
  BY <1>2, UserTInv, ExchangeTInv, ApplyTInv, HostTInv, IndexTInv DEF Next
<1> QED BY <1>1, <1>2

LEMMA TInvInvariant == Spec => []TInv
BY InitTInv, NextTInv, PTL DEF Spec

\* Spec => []TypeOK: type correctness, for every number of clients, paths and
\* edits; in particular every download and every conflict the server sends
\* carries metadata (exchange_state).
THEOREM TypeCorrect == Spec => []TypeOK
<1>1. TInv => TypeOK
  BY DEF TInv
<1> QED BY <1>1, TInvInvariant, PTL
-----------------------------------------------------------------------------
(* What followers write stays with them *)

\* Edits made by somebody who may change the share.
Clean == {e \in Edits : author[e] # None /\ ~Follower(author[e])}

\* CanonPure is not inductive: the bytes under the share root come from the
\* clients that may upload, from their files, from the copies their users may
\* restore and from the two sides of a merge in progress.
PureInv ==
  /\ \A p \in Paths : disk[p] # None => disk[p] \subseteq Clean
  /\ \A c \in Clients : ~Follower(c) =>
       /\ \A p \in Paths : /\ local[c][p] # None => local[c][p] \subseteq Clean
                           /\ bin[c][p] # None => bin[c][p] \subseteq Clean
       /\ held[c] # None => held[c].ours \cup held[c].theirs \subseteq Clean

LEMMA InitPure == Init => PureInv
BY DEF Init, PureInv, NoFiles

\* An edit has one author for ever.
LEMMA CleanSame ==
  ASSUME UNCHANGED author PROVE Clean' = Clean
BY DEF Clean, Follower

\* Most steps touch nothing PureInv speaks of.
LEMMA QuietPure ==
  ASSUME PureInv, UNCHANGED <<author, disk, local, bin, held>> PROVE PureInv'
BY CleanSame DEF PureInv, Follower

LEMMA UserPure ==
  ASSUME TypeOK, PureInv, NEW c \in Clients, User(c) PROVE PureInv'
<1> USE DEF serverVars, clientVars, cycleVars, history
<1>1. ASSUME NEW p \in Paths, NEW e \in Edits, UserEdit(c, p, e) PROVE PureInv'
  <2>1. Clean \subseteq Clean' /\ (~Follower(c) => e \in Clean')
    BY <1>1, ShareAssumption DEF UserEdit, Clean, TypeOK, Follower
  <2>2. \A q \in Paths : disk'[q] # None => disk'[q] \subseteq Clean'
    BY <1>1, <2>1 DEF UserEdit, PureInv
  <2>3. ASSUME NEW d \in Clients, ~Follower(d), NEW q \in Paths, local'[d][q] # None
        PROVE  local'[d][q] \subseteq Clean'
    <3>1. CASE d = c /\ q = p
      <4>1. local'[d][q] = With(local[c][p], e)
        BY <1>1, <3>1 DEF UserEdit, TypeOK
      <4>2. ~Follower(c) /\ (local[c][p] # None => local[c][p] \subseteq Clean)
        BY <2>3, <3>1 DEF PureInv
      <4> QED BY <2>1, <4>1, <4>2 DEF With
    <3>2. CASE ~(d = c /\ q = p)
      <4>1. local'[d][q] = local[d][q]
        BY <1>1, <3>2 DEF UserEdit, TypeOK
      <4> QED BY <2>1, <2>3, <4>1 DEF PureInv
    <3> QED BY <3>1, <3>2
  <2>4. \A d \in Clients : ~Follower(d) =>
          /\ \A q \in Paths : bin'[d][q] # None => bin'[d][q] \subseteq Clean'
          /\ held'[d] # None => held'[d].ours \cup held'[d].theirs \subseteq Clean'
    BY <1>1, <2>1 DEF UserEdit, PureInv
  <2> QED BY <2>2, <2>3, <2>4 DEF PureInv, Follower
<1>2. ASSUME NEW p \in Paths, UserDelete(c, p) PROVE PureInv'
  BY <1>2, CleanSame DEF UserDelete, PureInv, TypeOK, Follower
<1>3. ASSUME NEW p \in Paths, UserUndelete(c, p) PROVE PureInv'
  BY <1>3, CleanSame DEF UserUndelete, PureInv, TypeOK, Follower
<1> QED BY <1>1, <1>2, <1>3 DEF User

LEMMA HostPure ==
  ASSUME TypeOK, PureInv, Host PROVE PureInv'
<1> USE DEF clientVars, cycleVars
<1>1. ASSUME NEW p \in Paths, NEW e \in Edits, HostEdit(p, e) PROVE PureInv'
  <2>1. Clean \subseteq Clean' /\ e \in Clean'
    BY <1>1, ShareAssumption, NoneAssumption DEF HostEdit, Clean, TypeOK, Follower
  <2>2. \A q \in Paths : disk'[q] # None => disk'[q] \subseteq Clean'
    BY <1>1, <2>1 DEF HostEdit, PureInv, TypeOK, With
  <2>3. \A d \in Clients : ~Follower(d) =>
          /\ \A q \in Paths : /\ local'[d][q] # None => local'[d][q] \subseteq Clean'
                              /\ bin'[d][q] # None => bin'[d][q] \subseteq Clean'
          /\ held'[d] # None => held'[d].ours \cup held'[d].theirs \subseteq Clean'
    BY <1>1, <2>1 DEF HostEdit, PureInv
  <2> QED BY <2>2, <2>3 DEF PureInv, Follower
<1>2. ASSUME NEW p \in Paths, HostDelete(p) PROVE PureInv'
  BY <1>2, CleanSame DEF HostDelete, PureInv, TypeOK, Follower
<1> QED BY <1>1, <1>2 DEF Host

LEMMA ApplyPure ==
  ASSUME TypeOK, PureInv, NEW c \in Clients, Apply(c) PROVE PureInv'
<1> USE DEF serverVars, clientVars, history
<1>1. ASSUME NEW p \in Paths, UploadBytes(c, p) PROVE PureInv'
  <2>1. ~Follower(c)
    BY <1>1 DEF UploadBytes, RefusesUploads, WriteRoles, Follower
  <2>2. local[c][p] \subseteq Clean
    BY <1>1, <2>1 DEF UploadBytes, PureInv
  <2> QED BY <1>1, <2>2, CleanSame DEF UploadBytes, PureInv, TypeOK, Follower
<1>2. ASSUME NEW p \in Paths, DownloadInstalled(c, p) PROVE PureInv'
  BY <1>2, CleanSame DEF DownloadInstalled, PureInv, TypeOK, Follower
<1>3. ASSUME NEW p \in Paths, ConflictRead(c, p) PROVE PureInv'
  <2>1. disk[p] # None
    BY <1>3, ShareAssumption DEF ConflictRead, WireHashMatches, TypeOK, Pending, MaybeHash
  <2>2. disk[p] \subseteq Clean /\ (~Follower(c) => local[c][p] \subseteq Clean)
    BY <1>3, <2>1 DEF ConflictRead, PureInv
  <2>3. \A d \in Clients : ~Follower(d) /\ held'[d] # None =>
          held'[d].ours \cup held'[d].theirs \subseteq Clean
    BY <1>3, <2>2 DEF ConflictRead, PureInv, TypeOK
  <2> QED BY <1>3, <2>3, CleanSame DEF ConflictRead, PureInv, Follower
<1>4. ASSUME ConflictApply(c) PROVE PureInv'
  <2> DEFINE q == held[c].path
             ours == held[c].ours
             theirs == held[c].theirs
  <2>1. q \in Paths /\ (~Follower(c) => ours \cup theirs \subseteq Clean)
    BY <1>4 DEF ConflictApply, PureInv, TypeOK
  <2>2. \/ local' = local
        \/ \E h : (h = theirs \/ h = ours \cup theirs) /\ local' = [local EXCEPT ![c][q] = h]
    BY <1>4 DEF ConflictApply
  <2>3. \A d \in Clients : ~Follower(d) /\ held'[d] # None =>
          held'[d].ours \cup held'[d].theirs \subseteq Clean
    BY <1>4 DEF ConflictApply, PureInv, TypeOK
  <2> HIDE DEF q, ours, theirs
  <2>4. ASSUME NEW d \in Clients, ~Follower(d), NEW p \in Paths, local'[d][p] # None
        PROVE  local'[d][p] \subseteq Clean
    <3>1. CASE local' = local
      BY <2>4, <3>1 DEF PureInv
    <3>2. ASSUME NEW h, h = theirs \/ h = ours \cup theirs, local' = [local EXCEPT ![c][q] = h]
          PROVE  local'[d][p] \subseteq Clean
      <4>1. CASE d = c /\ p = q
        <5>1. local'[d][p] = h
          BY <2>1, <3>2, <4>1 DEF TypeOK
        <5> QED BY <2>1, <2>4, <3>2, <4>1, <5>1
      <4>2. CASE ~(d = c /\ p = q)
        <5>1. local'[d][p] = local[d][p]
          BY <2>1, <3>2, <4>2 DEF TypeOK
        <5> QED BY <2>4, <5>1 DEF PureInv
      <4> QED BY <4>1, <4>2
    <3> QED BY <2>2, <3>1, <3>2
  <2> QED BY <1>4, <2>3, <2>4, CleanSame DEF ConflictApply, PureInv, Follower
<1>5. ASSUME NEW p \in Paths, DeleteApply(c, p) PROVE PureInv'
  BY <1>5, CleanSame DEF DeleteApply, PureInv, TypeOK, Follower
<1>6. ASSUME \/ UploadRow(c) \/ FinishCycle(c)
             \/ \E p \in Paths : \/ UploadSkipped(c, p) \/ DownloadSkipped(c, p)
                                 \/ ConflictSkipped(c, p) \/ DeleteSkipped(c, p)
      PROVE  PureInv'
  BY <1>6, QuietPure DEF UploadRow, FinishCycle, UploadSkipped, DownloadSkipped,
                         ConflictSkipped, DeleteSkipped
<1> QED BY <1>1, <1>2, <1>3, <1>4, <1>5, <1>6 DEF Apply

LEMMA NextPure == TypeOK /\ PureInv /\ [Next]_vars => PureInv'
<1> SUFFICES ASSUME TypeOK, PureInv, [Next]_vars PROVE PureInv'
  OBVIOUS
<1> USE DEF serverVars, clientVars, cycleVars, history
<1>1. CASE UNCHANGED vars \/ Index
  BY <1>1, QuietPure DEF vars, Index, FullReconcile, IndexEvent
<1>2. ASSUME NEW c \in Clients, Exchange(c) PROVE PureInv'
  BY <1>2, QuietPure DEF Exchange, Scan, ExchangePlan, ExchangeTombstone, ExchangeRespond
<1>3. ASSUME NEW c \in Clients, Abandon(c) PROVE PureInv'
  BY <1>3, CleanSame DEF Abandon, PureInv, TypeOK, Follower
<1> QED BY <1>1, <1>2, <1>3, UserPure, HostPure, ApplyPure DEF Next

\* Spec => []CanonPure: no edit made on a receive-only client, by its role or by
\* its own declaration, is ever under the share root (uploads_suppressed and
\* WRITE_ROLES; apply_conflict on a receive-only share).
THEOREM FollowersNeverReachTheShare == Spec => []CanonPure
<1>1. PureInv => CanonPure
  BY DEF PureInv, CanonPure, Contents, Clean
<1>2. TInv => TypeOK
  BY DEF TInv
<1> QED BY <1>1, <1>2, InitPure, NextPure, TInvInvariant, PTL DEF Spec
-----------------------------------------------------------------------------
(* What was stored stays stored *)

\* It is enough that no archived version goes, and that the bytes of a path
\* with a row stay under the root, perhaps with more in them, or are archived.
LEMMA StoredKept ==
  ASSUME Blobs \subseteq Blobs',
         \A p \in Paths : row[p] # None /\ disk[p] # None =>
            \/ disk[p] \in Blobs'
            \/ row'[p] # None /\ disk'[p] # None /\ disk[p] \subseteq disk'[p]
  PROVE  StoredEdits \subseteq StoredEdits'
<1> SUFFICES ASSUME NEW e \in StoredEdits PROVE e \in StoredEdits'
  OBVIOUS
<1>1. \/ \E content \in Blobs : e \in content
      \/ \E p \in Paths : row[p] # None /\ disk[p] # None /\ e \in disk[p]
  BY DEF StoredEdits
<1>2. CASE \E content \in Blobs : e \in content
  BY <1>2 DEF StoredEdits
<1>3. ASSUME NEW p \in Paths, row[p] # None, disk[p] # None, e \in disk[p]
      PROVE  e \in StoredEdits'
  <2>1. CASE disk[p] \in Blobs'
    BY <1>3, <2>1 DEF StoredEdits
  <2>2. CASE row'[p] # None /\ disk'[p] # None /\ disk[p] \subseteq disk'[p]
    BY <1>3, <2>2 DEF StoredEdits
  <2> QED BY <1>3, <2>1, <2>2
<1> QED BY <1>1, <1>2, <1>3

LEMMA NextStored ==
  ASSUME TypeOK, [Next]_vars
  PROVE  StoredEdits \subseteq StoredEdits' \/ MayLoseStored
<1> USE DEF serverVars, clientVars, cycleVars, history
<1>1. ASSUME UNCHANGED <<row, disk, archive>> PROVE StoredEdits \subseteq StoredEdits'
  BY <1>1, StoredKept DEF Blobs
<1>2. CASE UNCHANGED vars
  BY <1>1, <1>2 DEF vars
<1>3. ASSUME NEW c \in Clients, User(c) \/ Abandon(c) PROVE StoredEdits \subseteq StoredEdits'
  BY <1>1, <1>3 DEF User, UserEdit, UserDelete, UserUndelete, Abandon
<1>4. ASSUME NEW c \in Clients, Exchange(c) PROVE StoredEdits \subseteq StoredEdits'
  <2>1. CASE ExchangeTombstone(c)
    <3>1. \A p \in Paths : row[p] # None => row'[p] # None
      <4>1. \A p \in Paths : p \in Buries(c) => Buried(plan[c][p].srv) \in Meta
        BY BuriedType DEF Buries, Planned, TypeOK, Verdict, MaybeMeta
      <4> QED BY <2>1, <4>1, NoneAssumption DEF ExchangeTombstone
    <3> QED BY <2>1, <3>1, StoredKept DEF ExchangeTombstone, Blobs
  <2>2. CASE Scan(c) \/ ExchangePlan(c) \/ ExchangeRespond(c)
    BY <1>1, <2>2 DEF Scan, ExchangePlan, ExchangeRespond
  <2> QED BY <1>4, <2>1, <2>2 DEF Exchange
<1>5. ASSUME NEW c \in Clients, Apply(c) PROVE StoredEdits \subseteq StoredEdits' \/ MayLoseStored
  <2>1. ASSUME NEW p \in Paths, UploadBytes(c, p), ~Displaced(p), "archive" \notin Faults
        PROVE  StoredEdits \subseteq StoredEdits'
    <3>1. archive' = Archived(p)
      BY <2>1 DEF UploadBytes
    <3>2. Blobs \subseteq Blobs'
      BY <3>1 DEF Archived, Blobs, TypeOK
    <3>3. row[p] # None /\ disk[p] # None => disk[p] \in Blobs'
      <4> SUFFICES ASSUME row[p] # None, disk[p] # None PROVE disk[p] \in Blobs'
        OBVIOUS
      <4>1. row[p].hash \in Hashes
        BY DEF TypeOK, MaybeMeta, Meta
      <4>2. archive'[row[p].hash] = disk[p]
        BY <2>1, <3>1, <4>1 DEF Archived, Displaced, TypeOK
      <4> QED BY <4>1, <4>2 DEF Blobs
    <3>4. \A q \in Paths : q # p => disk'[q] = disk[q] /\ row'[q] = row[q]
      BY <2>1 DEF UploadBytes, TypeOK
    <3> QED BY <3>2, <3>3, <3>4, StoredKept
  <2>2. CASE UploadRow(c)
    <3>1. staged[c].path \in Paths /\ UploadedMeta(staged[c].bytes) # None
      BY <2>2, LiveType, NoneAssumption DEF UploadRow, TypeOK
    <3>2. \A p \in Paths : row[p] # None => row'[p] # None
      <4>1. CASE row' = [row EXCEPT ![staged[c].path] = UploadedMeta(staged[c].bytes)]
        BY <3>1, <4>1 DEF TypeOK
      <4>2. CASE row' = row
        BY <4>2
      <4> QED BY <2>2, <4>1, <4>2 DEF UploadRow
    <3> QED BY <2>2, <3>2, StoredKept DEF UploadRow, Blobs
  <2>3. CASE \/ ConflictApply(c) \/ FinishCycle(c)
             \/ \E p \in Paths : \/ UploadSkipped(c, p)
                                 \/ DownloadInstalled(c, p) \/ DownloadSkipped(c, p)
                                 \/ ConflictRead(c, p) \/ ConflictSkipped(c, p)
                                 \/ DeleteApply(c, p) \/ DeleteSkipped(c, p)
    <3>1. UNCHANGED <<row, disk, archive>>
      BY <2>3 DEF ConflictApply, FinishCycle, UploadSkipped, DownloadInstalled, DownloadSkipped,
                  ConflictRead, ConflictSkipped, DeleteApply, DeleteSkipped
    <3> QED BY <1>1, <3>1
  <2> QED BY <1>5, <2>1, <2>2, <2>3 DEF Apply, MayLoseStored
<1>6. ASSUME NEW p \in Paths, NEW e \in Edits, HostEdit(p, e) PROVE StoredEdits \subseteq StoredEdits'
  <2>1. \A q \in Paths : disk[q] # None => disk'[q] # None /\ disk[q] \subseteq disk'[q]
    <3>1. With(disk[p], e) # None
      BY WithType, ShareAssumption DEF TypeOK
    <3> QED BY <1>6, <3>1 DEF HostEdit, TypeOK, With
  <2> QED BY <1>6, <2>1, StoredKept DEF HostEdit, Blobs
<1>7. CASE Index
  <2>1. ASSUME NEW p \in Paths, disk[p] # None PROVE UpsertLocalFile(p) # None
    BY <2>1, LiveType DEF UpsertLocalFile, TypeOK, MaybeHash
  <2>2. CASE FullReconcile
    BY <2>1, <2>2, StoredKept DEF FullReconcile, Blobs
  <2>3. ASSUME NEW p \in Paths, IndexEvent(p) PROVE StoredEdits \subseteq StoredEdits'
    BY <2>1, <2>3, StoredKept DEF IndexEvent, TypeOK, Blobs
  <2> QED BY <1>7, <2>2, <2>3 DEF Index
<1> QED BY <1>2, <1>3, <1>4, <1>5, <1>6, <1>7 DEF Next, Host, MayLoseStored

\* Spec => StoredEditKept: no failure and no interleaving of uploads, exchanges
\* and index events makes the server lose an edit it stored under a row, except
\* where MayLoseStored says so (delta_upload).
THEOREM StorageKeepsEdits == Spec => StoredEditKept
<1>1. TInv /\ [Next]_vars =>
        [StoredEdits \subseteq StoredEdits' \/ MayLoseStored]_vars
  BY NextStored DEF TInv
<1> QED BY <1>1, TInvInvariant, PTL DEF Spec, StoredEditKept
-----------------------------------------------------------------------------
(* A settled share is left alone *)

\* On a path all three agree on, the tree has nothing to do.
LEMMA AgreementSkips ==
  ASSUME NEW r \in MaybeMeta, NEW m \in MaybeMeta, NEW b \in MaybeMeta,
         \/ /\ Present(r) /\ Present(m) /\ Present(b)
            /\ m.hash = r.hash /\ b.hash = r.hash
         \/ Tomb(r) /\ m = None /\ Tomb(b)
         \/ r = None /\ m = None
  PROVE  ResolveOne(r, m, b) = Make("Skip")
<1>1. CASE /\ Present(r) /\ Present(m) /\ Present(b)
           /\ m.hash = r.hash /\ b.hash = r.hash
  <2>1. HashesEq(r, b) /\ HashesEq(m, b)
    BY <1>1 DEF HashesEq, Present
  <2>2. ResolveOne(r, m, b) = ResolveThreeWay(r, m, b)
    BY <1>1, Trichotomy, ZenonT(60) DEF ResolveOne
  <2> QED BY <2>1, <2>2, ZenonT(30) DEF ResolveThreeWay
<1>2. CASE Tomb(r) /\ m = None /\ Tomb(b)
  BY <1>2, Trichotomy, ZenonT(60) DEF ResolveOne
<1>3. CASE r = None /\ m = None
  BY <1>3, UploadNeedsACopy
<1> QED BY <1>1, <1>2, <1>3
\* The share of Settled that concerns one client.
AtRest(c) ==
  /\ \A p \in Paths : Agreed(c, p)
  /\ pc[c] = "scanned" => snap[c] = local[c]
  /\ pc[c] \in {"planned", "tombstoned"} =>
       \A p \in Paths : plan[c][p] = [act |-> Make("Skip"), srv |-> row[p]]
  /\ resp[c] = NoResp /\ staged[c] = None /\ held[c] = None

\* A client at rest that takes a step leaves the others at rest if it changes
\* neither the share nor anything of theirs.
LEMMA RestIsLocal ==
  ASSUME Settled, NEW c \in Clients, UNCHANGED <<row, disk, events>>, AtRest(c)',
         \A d \in Clients \ {c} :
           /\ local'[d] = local[d] /\ baseline'[d] = baseline[d] /\ pc'[d] = pc[d]
           /\ snap'[d] = snap[d] /\ plan'[d] = plan[d] /\ resp'[d] = resp[d]
           /\ staged'[d] = staged[d] /\ held'[d] = held[d]
  PROVE  Settled'
<1>1. ASSUME NEW d \in Clients \ {c} PROVE AtRest(d)'
  BY DEF Settled, AtRest, Agreed
<1>2. ("watch" \in Env => events = {})'
  BY DEF Settled
<1> QED BY <1>1, <1>2 DEF Settled, AtRest

LEMMA ExchangeRests ==
  ASSUME TInv, Settled, "scan" \notin Faults, NEW c \in Clients, Exchange(c)
  PROVE  Settled'
<1> USE DEF serverVars, clientVars, history
<1>0. AtRest(c) /\ TypeOK
  BY DEF Settled, AtRest, TInv
<1>1. CASE Scan(c)
  <2>1. AtRest(c)'
    BY <1>0, <1>1 DEF Scan, AtRest, Agreed, TypeOK
  <2> QED BY <1>1, <2>1, RestIsLocal, <1>0 DEF Scan, TypeOK
<1>2. CASE ExchangePlan(c)
  <2>1. ASSUME NEW p \in Paths
        PROVE  ResolveOne(row[p], ClientMeta(c, p), baseline[c][p]) = Make("Skip")
    <3>1. /\ row[p] \in MaybeMeta /\ baseline[c][p] \in MaybeMeta
          /\ ClientMeta(c, p) \in MaybeMeta
      BY <1>0, ClientMetaType DEF TypeOK
    <3>2. Agreed(c, p) /\ snap[c][p] = local[c][p]
      BY <1>0, <1>2 DEF AtRest, ExchangePlan
    <3>3. CASE Present(row[p])
      <4>1. /\ Present(baseline[c][p]) /\ baseline[c][p].hash = row[p].hash
            /\ snap[c][p] = row[p].hash
        BY <3>2, <3>3 DEF Agreed, Present, Tomb
      <4>2. row[p].hash \in Hashes
        BY <3>1, <3>3 DEF Present, MaybeMeta, Meta
      <4>3. Present(ClientMeta(c, p)) /\ ClientMeta(c, p).hash = row[p].hash
        <5>1. snap[c][p] # None /\ snap[c][p] \in Hashes
          BY <4>1, <4>2, ShareAssumption
        <5>2. ClientMeta(c, p) = Live(snap[c][p])
          BY <5>1 DEF ClientMeta
        <5>3. ~Live(snap[c][p]).deleted
          BY DEF Live
        <5> QED BY <4>1, <5>1, <5>2, <5>3, LiveType DEF Present
      <4> QED BY <3>1, <3>3, <4>1, <4>3, AgreementSkips
    <3>4. CASE ~Present(row[p])
      <4>1. /\ ClientMeta(c, p) = None
            /\ row[p] = None \/ (Tomb(row[p]) /\ Tomb(baseline[c][p]))
        BY <3>2, <3>4 DEF Agreed, ClientMeta
      <4> QED BY <3>1, <4>1, AgreementSkips
    <3> QED BY <3>3, <3>4
  <2>2. \A p \in Paths : plan'[c][p] = [act |-> Make("Skip"), srv |-> row[p]]
    BY <1>0, <1>2, <2>1 DEF ExchangePlan, TypeOK
  <2>3. AtRest(c)'
    BY <1>0, <1>2, <2>2 DEF ExchangePlan, AtRest, Agreed, TypeOK
  <2> QED BY <1>0, <1>2, <2>3, RestIsLocal DEF ExchangePlan, TypeOK
<1>3. CASE ExchangeTombstone(c)
  <2>1. Buries(c) = {}
    <3>1. ASSUME NEW p \in Paths PROVE plan[c][p].act.action = "Skip"
      <4>1. plan[c][p] = [act |-> Make("Skip"), srv |-> row[p]]
        BY <1>0, <1>3, Zenon DEF ExchangeTombstone, AtRest
      <4> QED BY <4>1 DEF Make
    <3> QED BY <3>1 DEF Buries, Planned
  <2>2. row' = row
    BY <1>0, <1>3, <2>1 DEF ExchangeTombstone, TypeOK
  <2>3. AtRest(c)'
    BY <1>0, <1>3, <2>2 DEF ExchangeTombstone, AtRest, Agreed, TypeOK
  <2> QED BY <1>0, <1>3, <2>2, <2>3, RestIsLocal DEF ExchangeTombstone, TypeOK
<1>4. CASE ExchangeRespond(c)
  <2>1. ASSUME NEW p \in Paths
        PROVE  plan[c][p].act.action = "Skip" /\ plan[c][p].srv = row[p]
    <3>1. plan[c][p] = [act |-> Make("Skip"), srv |-> row[p]]
      BY <1>0, <1>4, Zenon DEF ExchangeRespond, AtRest
    <3> QED BY <3>1 DEF Make
  <2>2. Response(c) = NoResp
    <3>1. \A a \in ActionTypes \ {"Skip"} : Planned(c, a) = {}
      BY <2>1 DEF Planned
    <3>2. /\ Planned(c, "Upload") = {} /\ Planned(c, "Download") = {}
          /\ Planned(c, "ConflictFork") = {}
          /\ Planned(c, "DeleteLocal") = {} /\ Planned(c, "DeleteRemote") = {}
      BY <3>1 DEF ActionTypes
    <3> QED BY <3>2 DEF Response, NoResp, NoFiles
  <2>3. ASSUME NEW p \in Paths
        PROVE  baseline'[c][p] = IF row[p] # None THEN row[p] ELSE baseline[c][p]
    <3>1. baseline'[c][p] = PostSyncBaseline(c, p)
      BY <1>0, <1>4 DEF ExchangeRespond, TypeOK
    <3> QED BY <2>1, <3>1 DEF PostSyncBaseline
  <2>4. ASSUME NEW p \in Paths PROVE Agreed(c, p)'
    BY <1>0, <1>4, <2>3 DEF AtRest, Agreed, ExchangeRespond, Present, Tomb
  <2>5. resp'[c] = NoResp /\ pc'[c] \in {"apply", "idle"}
    <3>1. CASE resp' = [resp EXCEPT ![c] = Response(c)] /\ pc' = [pc EXCEPT ![c] = "apply"]
      BY <1>0, <2>2, <3>1 DEF TypeOK
    <3>2. CASE resp' = resp /\ pc' = [pc EXCEPT ![c] = "idle"]
      BY <1>0, <3>2 DEF TypeOK, AtRest
    <3> QED BY <1>4, <3>1, <3>2 DEF ExchangeRespond
  <2>6. AtRest(c)'
    BY <1>0, <1>4, <2>4, <2>5 DEF ExchangeRespond, AtRest
  <2>7. \A d \in Clients \ {c} : resp'[d] = resp[d] /\ pc'[d] = pc[d]
    BY <1>0, <1>4 DEF ExchangeRespond, TypeOK
  <2> QED BY <1>0, <1>4, <2>6, <2>7, RestIsLocal DEF ExchangeRespond, TypeOK
<1> QED BY <1>1, <1>2, <1>3, <1>4 DEF Exchange

\* With nothing to apply, a cycle can only end or be abandoned.
LEMMA ApplyRests ==
  ASSUME TInv, Settled, NEW c \in Clients, Apply(c) \/ Abandon(c)
  PROVE  Settled'
<1> USE DEF serverVars, clientVars, history
<1>0. AtRest(c) /\ TypeOK
  BY DEF Settled, AtRest, TInv
<1>1. FinishCycle(c) \/ Abandon(c)
  <2>1. /\ resp[c].up = {} /\ resp[c].del = {}
        /\ \A p \in Paths : resp[c].down[p] = None /\ resp[c].conf[p] = None
        /\ staged[c] = None /\ held[c] = None
    BY <1>0 DEF AtRest, NoResp, NoFiles
  <2> QED BY <2>1 DEF Apply, UploadRow, ConflictApply, UploadSkipped, UploadBytes,
                      DownloadInstalled, DownloadSkipped, ConflictRead, ConflictSkipped,
                      DeleteApply, DeleteSkipped
<1>2. CASE FinishCycle(c)
  <2>1. AtRest(c)'
    BY <1>0, <1>2 DEF FinishCycle, AtRest, Agreed, TypeOK
  <2> QED BY <1>0, <1>2, <2>1, RestIsLocal DEF FinishCycle, TypeOK
<1>3. CASE Abandon(c)
  <2>1. AtRest(c)'
    BY <1>0, <1>3 DEF Abandon, AtRest, Agreed, TypeOK
  <2> QED BY <1>0, <1>3, <2>1, RestIsLocal DEF Abandon, TypeOK
<1> QED BY <1>1, <1>2, <1>3

\* Unless scans may fail, Spec => SettledStable: however many clients share the
\* root and whatever cycles are cut short, no exchange of a settled share asks
\* for a transfer or buries a row (exchange_state, build_post_sync_baseline).
THEOREM SettledSharesRest ==
  ASSUME "scan" \notin Faults PROVE Spec => SettledStable
<1>1. ASSUME TInv, Settled, [Next]_vars
      PROVE  \/ Settled'
             \/ (\E c \in Clients : User(c)) \/ Host
             \/ FullReconcile
             \/ UNCHANGED vars
  <2>1. ASSUME NEW p \in Paths PROVE ~IndexEvent(p)
    BY <1>1 DEF Settled, IndexEvent
  <2> QED BY <1>1, <2>1, ExchangeRests, ApplyRests DEF Next, Index
<1>2. TInv /\ [Next]_vars =>
        [Settled => \/ Settled'
                    \/ (\E c \in Clients : User(c)) \/ Host
                    \/ FullReconcile]_vars
  BY <1>1
<1> QED BY <1>2, TInvInvariant, PTL DEF Spec, SettledStable

-----------------------------------------------------------------------------
(* No edit is lost *)

\* The content of a row.
HashOf(m) == IF m = None THEN None ELSE m.hash

\* Everything of one content is in another.
Within(a, b) == a # None => b # None /\ a \subseteq b

\* The server has the new bytes of p under the share root, not yet their row.
Receiving(c, p) == staged[c] # None /\ staged[c].path = p

\* One writer, whose uploads succeed: the share never has more than the writer
\* and never forgets a path it baselined, so no download and no deletion is due.
KeptAt(c, p) ==
  /\ Within(disk[p], local[c][p]) /\ mergeBase[c][p] = None
  /\ p \in events => disk[p] # None
  /\ ~Tomb(row[p]) /\ ~Tomb(baseline[c][p])
  /\ ~Receiving(c, p) => HashOf(row[p]) = disk[p]
  /\ baseline[c][p] # None /\ disk[p] = None => p \in resp[c].up

\* What is left of a response: an upload still has its file, and a download is
\* of a version the share does not hold.
KeptPending(c, p) ==
  /\ p \in resp[c].up => pc[c] = "apply" /\ local[c][p] # None
  /\ Receiving(c, p) => pc[c] = "apply" /\ staged[c].bytes = disk[p]
  /\ p \notin resp[c].del
  /\ resp[c].down[p] # None =>
       p \notin resp[c].up /\ ~Receiving(c, p) /\ disk[p] # resp[c].down[p]

\* An exchange in progress: the scan is between share and client, and the plan
\* deletes nothing.
KeptExchange(c, p) ==
  /\ pc[c] \in {"scanned", "planned", "tombstoned"} =>
       Within(disk[p], snap[c][p]) /\ Within(snap[c][p], local[c][p])
  /\ pc[c] \in {"planned", "tombstoned"} =>
       /\ ~Tomb(plan[c][p].srv) /\ HashOf(plan[c][p].srv) = disk[p]
       /\ plan[c][p].act.action \in {"Upload", "Download", "ConflictFork", "Skip"}
       /\ plan[c][p].act.action = "Upload" => snap[c][p] # None /\ disk[p] # snap[c][p]
       /\ plan[c][p].act.action = "Download" => snap[c][p] # None

Kept(c) == \A p \in Paths : KeptAt(c, p) /\ KeptPending(c, p) /\ KeptExchange(c, p)

\* The writer still has every edit.
EditsHeld(c) ==
  \A e \in Edits : author[e] # None => \E p \in Paths : local[c][p] # None /\ e \in local[c][p]

\* The instances NoEditLost is proved for: one client that may write and does
\* not refuse to, whose user deletes nothing; the host leaves the share root
\* alone; the index may lag or be rebuilt; archiving, downloading and removing
\* may fail.
OneWriter(c) ==
  /\ Clients = {c} /\ Role[c] \in WriteRoles /\ Declared[c] # "receive_only"
  /\ Env \subseteq {"watch", "reconcile"}
  /\ Faults \subseteq {"archive", "download", "remove"}

\* With a share that is behind its only client and no tombstone anywhere, the
\* tree deletes nothing, and has the client download only what differs.
LEMMA BehindVerdict ==
  ASSUME NEW l \in MaybeMeta, NEW r \in MaybeMeta, NEW i \in MaybeMeta,
         ~Tomb(l), ~Tomb(r), ~Tomb(i), l # None => r # None, i # None => l # None
  PROVE  /\ ResolveOne(l, r, i).action \in {"Upload", "Download", "ConflictFork", "Skip"}
         /\ ResolveOne(l, r, i).action = "Upload" => l # None /\ r # None /\ l.hash # r.hash
         /\ ResolveOne(l, r, i).action = "Download" => r # None
<1> USE DEF Make, MakeWithConflict
<1>1. CASE l = None /\ r = None
  BY <1>1, UploadNeedsACopy
<1>2. CASE l = None /\ r # None
  <2>1. ResolveOne(l, r, i) = Make("Download")
    BY <1>2, Trichotomy, ZenonT(60) DEF ResolveOne
  <2> QED BY <1>2, <2>1
<1>3. CASE l # None /\ i = None
  <2>1. ResolveOne(l, r, i) = IF HashesEq(l, r) THEN Make("Skip")
                              ELSE MakeWithConflict("ConflictFork", "Concurrent")
    BY <1>3, Trichotomy, ZenonT(60) DEF ResolveOne
  <2> QED BY <2>1
<1>4. CASE l # None /\ i # None
  <2>1. ResolveOne(l, r, i) = ResolveThreeWay(l, r, i)
    BY <1>4, Trichotomy, ZenonT(60) DEF ResolveOne
  <2>2. ~HashesEq(l, r) \/ ResolveThreeWay(l, r, i) \in {Make("Skip"), Make("Download")}
    BY <1>4 DEF ResolveThreeWay, HashesEq
  <2>3. ResolveThreeWay(l, r, i) \in {Make("Skip"), Make("Download"), Make("Upload"),
                                      MakeWithConflict("ConflictFork", "Concurrent")}
    BY DEF ResolveThreeWay
  <2> QED BY <1>4, <2>1, <2>2, <2>3 DEF HashesEq
<1> QED BY <1>1, <1>2, <1>3, <1>4

LEMMA InitKept ==
  ASSUME NEW c, OneWriter(c), Init PROVE Kept(c) /\ EditsHeld(c)
BY DEF OneWriter, Init, Kept, KeptAt, KeptPending, KeptExchange, EditsHeld, NoFiles, NoResp,
       Within, HashOf, Tomb, Receiving

\* An edit makes the writer's file larger.
LEMMA UserKept ==
  ASSUME NEW c, OneWriter(c), TInv, Kept(c), EditsHeld(c), User(c)
  PROVE  Kept(c)' /\ EditsHeld(c)'
<1> USE DEF serverVars, clientVars, cycleVars, history
<1>0. PICK q \in Paths, e \in Edits : UserEdit(c, q, e)
  BY DEF OneWriter, User, UserDelete, UserUndelete
<1>1. With(local[c][q], e) \in Hashes /\ With(local[c][q], e) # None
  BY WithType, ShareAssumption DEF TInv, TypeOK, OneWriter
<1>2. ASSUME NEW p \in Paths
      PROVE  /\ local[c][p] # None => local'[c][p] # None /\ local[c][p] \subseteq local'[c][p]
             /\ p = q => local'[c][p] # None /\ e \in local'[c][p]
  BY <1>0, <1>1 DEF UserEdit, With, TInv, TypeOK, OneWriter
<1>3. Kept(c)'
  BY <1>0, <1>2 DEF UserEdit, Kept, KeptAt, KeptPending, KeptExchange, Within, Receiving
<1>4. ASSUME NEW x \in Edits, author'[x] # None
      PROVE  \E p \in Paths : local'[c][p] # None /\ x \in local'[c][p]
  <2>1. CASE x = e
    BY <1>2, <2>1
  <2>2. CASE x # e
    <3>1. author[x] # None
      BY <1>0, <1>4, <2>2 DEF UserEdit, TInv, TypeOK
    <3> QED BY <1>2, <3>1 DEF EditsHeld
  <2> QED BY <2>1, <2>2
<1> QED BY <1>3, <1>4 DEF EditsHeld

\* The index writes the row of the bytes it finds, and it finds some.
LEMMA IndexKept ==
  ASSUME NEW c, OneWriter(c), TInv, Kept(c), Index
  PROVE  Kept(c)'
<1> USE DEF clientVars, cycleVars, history
<1>1. UNCHANGED <<disk, baseline, clientVars, cycleVars>> /\ events' \subseteq events
  BY DEF Index, IndexEvent, FullReconcile
<1>2. ASSUME NEW p \in Paths
      PROVE  ~Tomb(row'[p]) /\ (~Receiving(c, p) => HashOf(row'[p]) = disk[p])
  <2>1. CASE row'[p] = row[p]
    BY <2>1 DEF Kept, KeptAt
  <2>2. CASE disk[p] # None /\ row'[p] = Live(disk[p])
    <3>1. disk[p] \in Hashes
      BY <2>2 DEF TInv, TypeOK, MaybeHash
    <3> QED BY <2>2, <3>1, LiveType DEF Tomb, HashOf, Live
  <2>3. ASSUME disk[p] = None PROVE row[p] = None /\ p \notin events
    <3>1. ~Receiving(c, p)
      BY <2>3, ShareAssumption DEF Kept, KeptPending, Receiving, TInv, TypeOK, OneWriter
    <3>2. HashOf(row[p]) = None
      BY <2>3, <3>1 DEF Kept, KeptAt
    <3>3. row[p] # None => row[p].hash # None
      BY ShareAssumption DEF TInv, TypeOK, MaybeMeta, Meta
    <3> QED BY <2>3, <3>2, <3>3 DEF HashOf, Kept, KeptAt
  <2>4. ASSUME NEW q \in Paths, IndexEvent(q)
        PROVE  row'[p] = row[p] \/ (disk[p] # None /\ row'[p] = Live(disk[p]))
    BY <2>3, <2>4 DEF IndexEvent, UpsertLocalFile, TInv, TypeOK
  <2>5. ASSUME FullReconcile
        PROVE  row'[p] = row[p] \/ (disk[p] # None /\ row'[p] = Live(disk[p]))
    BY <2>3, <2>5 DEF FullReconcile, UpsertLocalFile
  <2> QED BY <2>1, <2>2, <2>4, <2>5 DEF Index
<1> QED BY <1>1, <1>2 DEF Kept, KeptAt, KeptPending, KeptExchange, Receiving

\* A scan finds what the writer has, and more than the share has.
LEMMA ExchangeKept ==
  ASSUME NEW c, OneWriter(c), TInv, Kept(c), Exchange(c)
  PROVE  Kept(c)' /\ UNCHANGED <<local, author>>
<1> USE DEF serverVars, clientVars, history
<1>0. c \in Clients /\ TypeOK
  BY DEF OneWriter, TInv
<1>1. ASSUME Scan(c) PROVE Kept(c)'
  <2>1. snap'[c] = local[c] /\ pc'[c] = "scanned" /\ pc[c] = "idle"
    BY <1>0, <1>1 DEF Scan, OneWriter, TypeOK
  <2> QED BY <1>1, <2>1 DEF Scan, Kept, KeptAt, KeptPending, KeptExchange, Receiving, Within
<1>2. ASSUME ExchangePlan(c) PROVE Kept(c)'
  <2>0. pc[c] = "scanned" /\ pc'[c] = "planned"
    BY <1>0, <1>2 DEF ExchangePlan, TypeOK
  <2>1. ASSUME NEW p \in Paths
        PROVE  /\ plan'[c][p].act = ResolveOne(row[p], ClientMeta(c, p), baseline[c][p])
               /\ plan'[c][p].srv = row[p]
    BY <1>0, <1>2 DEF ExchangePlan, TypeOK
  <2>2. ASSUME NEW p \in Paths PROVE KeptExchange(c, p)'
    <3>1. /\ KeptAt(c, p) /\ KeptPending(c, p)
          /\ Within(disk[p], snap[c][p]) /\ Within(snap[c][p], local[c][p])
      BY <2>0 DEF Kept, KeptExchange
    <3>2. ~Tomb(row[p]) /\ ~Tomb(baseline[c][p]) /\ HashOf(row[p]) = disk[p]
      BY <2>0, <3>1 DEF KeptAt, KeptPending
    <3>3. row[p] # None => row[p].hash = disk[p] /\ disk[p] # None
      BY <1>0, <3>2, ShareAssumption DEF HashOf, TypeOK, MaybeMeta, Meta
    <3>4. baseline[c][p] # None => row[p] # None
      BY <2>0, <3>1, <3>2 DEF KeptAt, KeptPending, HashOf
    <3>5. /\ row[p] # None => ClientMeta(c, p) # None
          /\ ~Tomb(ClientMeta(c, p))
          /\ ClientMeta(c, p) # None => snap[c][p] # None /\ ClientMeta(c, p).hash = snap[c][p]
      <4>1. snap[c][p] # None => snap[c][p] \in Hashes
        BY <1>0 DEF TypeOK, MaybeHash
      <4> QED BY <1>0, <3>1, <3>3, <4>1, ClientMetaType, LiveType
              DEF ClientMeta, Within, Tomb, Live
    <3>6. /\ row[p] \in MaybeMeta /\ ClientMeta(c, p) \in MaybeMeta
          /\ baseline[c][p] \in MaybeMeta
      BY <1>0, ClientMetaType DEF TypeOK
    <3> DEFINE a == ResolveOne(row[p], ClientMeta(c, p), baseline[c][p]).action
    <3>7. /\ a \in {"Upload", "Download", "ConflictFork", "Skip"}
          /\ a = "Upload" => snap[c][p] # None /\ disk[p] # snap[c][p]
          /\ a = "Download" => snap[c][p] # None
      <4>1. /\ a \in {"Upload", "Download", "ConflictFork", "Skip"}
            /\ a = "Upload" => /\ row[p] # None /\ ClientMeta(c, p) # None
                               /\ row[p].hash # ClientMeta(c, p).hash
            /\ a = "Download" => ClientMeta(c, p) # None
        BY <3>2, <3>4, <3>5, <3>6, BehindVerdict
      <4> QED BY <3>3, <3>5, <4>1
    <3>8. a = plan'[c][p].act.action
      BY <2>1
    <3> HIDE DEF a
    <3>9. UNCHANGED <<disk, local, snap>>
      BY <1>2 DEF ExchangePlan
    <3> QED BY <2>0, <2>1, <3>1, <3>2, <3>7, <3>8, <3>9 DEF KeptExchange
  <2>3. \A p \in Paths : KeptAt(c, p)' /\ KeptPending(c, p)'
    BY <1>2, <2>0 DEF ExchangePlan, Kept, KeptAt, KeptPending, Receiving
  <2> QED BY <2>2, <2>3 DEF Kept
<1>3. ASSUME ExchangeTombstone(c) PROVE Kept(c)'
  <2>1. Buries(c) = {}
    BY <1>3 DEF Buries, Planned, Kept, KeptExchange, ExchangeTombstone
  <2>2. row' = row
    BY <1>0, <1>3, <2>1 DEF ExchangeTombstone, TypeOK
  <2>3. pc[c] = "planned" /\ pc'[c] = "tombstoned"
    BY <1>0, <1>3 DEF ExchangeTombstone, TypeOK
  <2> QED BY <1>3, <2>2, <2>3 DEF ExchangeTombstone, Kept, KeptAt, KeptPending, KeptExchange,
                                  Receiving
<1>4. ASSUME ExchangeRespond(c) PROVE Kept(c)'
  <2>0. pc[c] = "tombstoned" /\ pc'[c] = "apply" /\ resp'[c] = Response(c)
    BY <1>0, <1>4 DEF ExchangeRespond, OneWriter, TypeOK
  <2>1. ASSUME NEW p \in Paths
        PROVE  KeptAt(c, p)' /\ KeptPending(c, p)' /\ KeptExchange(c, p)'
    <3> DEFINE act == plan[c][p].act.action
               srv == plan[c][p].srv
    <3>1. KeptAt(c, p) /\ KeptPending(c, p) /\ KeptExchange(c, p)
      BY DEF Kept
    <3>2. /\ ~Tomb(srv) /\ HashOf(srv) = disk[p]
          /\ act \in {"Upload", "Download", "ConflictFork", "Skip"}
          /\ act = "Upload" => snap[c][p] # None /\ disk[p] # snap[c][p]
          /\ act = "Download" => snap[c][p] # None
          /\ Within(snap[c][p], local[c][p])
      BY <2>0, <3>1 DEF KeptExchange
    <3>3. ~Receiving(c, p) /\ p \notin resp[c].up
      BY <2>0, <3>1 DEF KeptPending
    <3>4. baseline'[c][p] = PostSyncBaseline(c, p)
      BY <1>0, <1>4 DEF ExchangeRespond, TypeOK
    <3>5. \/ baseline'[c][p] = srv /\ srv # None
          \/ baseline'[c][p] = ClientMeta(c, p) /\ act = "Download"
          \/ baseline'[c][p] = baseline[c][p]
      BY <3>2, <3>4 DEF PostSyncBaseline
    <3>6. /\ p \in resp'[c].up <=> act = "Download"
          /\ p \notin resp'[c].del
          /\ resp'[c].down[p] # None => act = "Upload" /\ resp'[c].down[p] = snap[c][p]
      <4>1. Role[c] # "receive_only"
        BY DEF OneWriter, WriteRoles
      <4>2. snap[c][p] # None => ClientMeta(c, p) # None /\ ClientMeta(c, p).hash = snap[c][p]
        BY <1>0, ClientMetaType, LiveType DEF ClientMeta, TypeOK, MaybeHash
      <4> QED BY <2>0, <3>2, <4>1, <4>2 DEF Response, Planned, ReceiveOnly, DownloadMeta
    <3>7. ~Tomb(ClientMeta(c, p))
      BY DEF ClientMeta, Live, Tomb
    <3>8. srv # None => disk[p] # None
      <4>1. srv \in MaybeMeta
        BY <1>0 DEF TypeOK, Verdict
      <4> QED BY <3>2, <4>1, ShareAssumption DEF HashOf, MaybeMeta, Meta
    <3> HIDE DEF act, srv
    <3>9. ~Tomb(baseline'[c][p]) /\ (baseline'[c][p] # None /\ disk[p] = None => p \in resp'[c].up)
      BY <3>1, <3>2, <3>3, <3>5, <3>6, <3>7, <3>8 DEF KeptAt
    <3>10. UNCHANGED <<row, disk, local, mergeBase, staged, events>>
      BY <1>4 DEF ExchangeRespond
    <3>11. KeptAt(c, p)'
      BY <3>1, <3>9, <3>10 DEF KeptAt, Receiving
    <3>12. KeptPending(c, p)'
      BY <2>0, <3>2, <3>3, <3>6, <3>10 DEF KeptPending, Receiving, Within
    <3>13. KeptExchange(c, p)'
      BY <2>0 DEF KeptExchange
    <3> QED BY <3>11, <3>12, <3>13
  <2> QED BY <2>1 DEF Kept
<1>5. UNCHANGED <<local, author>>
  BY DEF Exchange, Scan, ExchangePlan, ExchangeTombstone, ExchangeRespond
<1> QED BY <1>1, <1>2, <1>3, <1>4, <1>5 DEF Exchange

\* Applying a response uploads, and changes nothing on the client but conflict
\* copies.
LEMMA ApplyKept ==
  ASSUME NEW c, OneWriter(c), TInv, Kept(c), Apply(c)
  PROVE  Kept(c)' /\ UNCHANGED <<local, author>>
<1> USE DEF serverVars, clientVars, history
<1>0. c \in Clients /\ TypeOK
  BY DEF OneWriter, TInv
<1>1. ASSUME NEW q \in Paths
      PROVE  ~UploadSkipped(c, q) /\ ~DownloadInstalled(c, q) /\ ~DeleteApply(c, q)
  <2>1. ~UploadSkipped(c, q)
    BY DEF UploadSkipped, RefusesUploads, OneWriter, Kept, KeptPending
  <2>2. ~DownloadInstalled(c, q)
    BY DEF DownloadInstalled, WireHashMatches, Kept, KeptPending
  <2>3. ~DeleteApply(c, q)
    BY DEF DeleteApply, Kept, KeptPending
  <2> QED BY <2>1, <2>2, <2>3
<1>2. ASSUME NEW q \in Paths, UploadBytes(c, q)
      PROVE  Kept(c)' /\ UNCHANGED <<local, author>>
  <2>0. local[c][q] \in Hashes /\ local[c][q] # None /\ pc[c] = "apply" /\ staged[c] = None
    BY <1>0, <1>2 DEF UploadBytes, Uploading, TypeOK, MaybeHash
  <2>1. /\ \A p \in Paths : disk'[p] = IF p = q THEN local[c][q] ELSE disk[p]
        /\ staged'[c] = [path |-> q, bytes |-> local[c][q]] /\ staged'[c] # None
        /\ resp'[c].up = resp[c].up \ {q} /\ resp'[c].down = resp[c].down
        /\ resp'[c].del = resp[c].del
        /\ UNCHANGED <<local, author, row, baseline, mergeBase, pc>>
        /\ events' = events \cup {q}
    <3>1. /\ disk' = [disk EXCEPT ![q] = local[c][q]]
          /\ staged' = [staged EXCEPT ![c] = [path |-> q, bytes |-> local[c][q]]]
          /\ resp' = [resp EXCEPT ![c].up = @ \ {q}]
      BY <1>2 DEF UploadBytes
    <3>2. staged'[c] # None
      BY <1>0, <2>0, <3>1, ShareAssumption DEF TypeOK
    <3> QED BY <1>0, <1>2, <3>1, <3>2 DEF UploadBytes, TypeOK, Pending
  <2>2. ASSUME NEW p \in Paths
        PROVE  KeptAt(c, p)' /\ KeptPending(c, p)' /\ KeptExchange(c, p)'
    <3>1. KeptAt(c, p) /\ KeptPending(c, p)
      BY DEF Kept
    <3>2. CASE p = q
      BY <1>2, <2>0, <2>1, <3>1, <3>2 DEF KeptAt, KeptPending, KeptExchange, Receiving, Within,
                                          UploadBytes
    <3>3. CASE p # q
      BY <2>0, <2>1, <3>1, <3>3 DEF KeptAt, KeptPending, KeptExchange, Receiving, Within
    <3> QED BY <3>2, <3>3
  <2> QED BY <2>1, <2>2 DEF Kept
<1>3. ASSUME UploadRow(c) PROVE Kept(c)' /\ UNCHANGED <<local, author>>
  <2> DEFINE q == staged[c].path
  <2>0. /\ q \in Paths /\ staged[c].bytes \in Hashes /\ staged[c] # None
        /\ staged[c].bytes = disk[q] /\ pc[c] = "apply"
    BY <1>0, <1>3 DEF UploadRow, TypeOK, Kept, KeptPending, Receiving
  <2>1. /\ row' = [row EXCEPT ![q] = UploadedMeta(staged[c].bytes)]
        /\ staged'[c] = None
    BY <1>0, <1>3 DEF UploadRow, OneWriter, TypeOK
  <2>2. /\ ~Tomb(UploadedMeta(staged[c].bytes))
        /\ HashOf(UploadedMeta(staged[c].bytes)) = staged[c].bytes
    BY <2>0, LiveType, NoneAssumption DEF UploadedMeta, Tomb, HashOf
  <2>3. ASSUME NEW p \in Paths
        PROVE  ~Tomb(row'[p]) /\ HashOf(row'[p]) = disk[p]
    <3>1. CASE p = q
      BY <1>0, <2>0, <2>1, <2>2, <3>1 DEF TypeOK
    <3>2. CASE p # q
      BY <1>0, <2>0, <2>1, <3>2 DEF TypeOK, Kept, KeptAt, Receiving
    <3> QED BY <3>1, <3>2
  <2>4. UNCHANGED <<disk, baseline, clientVars, pc, resp, author, events>>
    BY <1>3 DEF UploadRow
  <2>5. Kept(c)'
    BY <2>0, <2>1, <2>3, <2>4 DEF Kept, KeptAt, KeptPending, KeptExchange, Receiving
  <2> QED BY <2>4, <2>5
<1>4. ASSUME NEW q \in Paths, DownloadSkipped(c, q) \/ ConflictSkipped(c, q)
                              \/ ConflictRead(c, q) \/ DeleteSkipped(c, q)
      PROVE  Kept(c)' /\ UNCHANGED <<local, author>>
  <2>1. UNCHANGED <<serverVars, clientVars, pc, snap, plan, staged, history>> /\ pc[c] = "apply"
    BY <1>4 DEF DownloadSkipped, ConflictSkipped, ConflictRead, DeleteSkipped, Deleting,
                Resolving, Downloading, Uploading
  <2>2. /\ resp'[c].up = resp[c].up /\ resp'[c].del \subseteq resp[c].del
        /\ \A p \in Paths : resp'[c].down[p] \in {resp[c].down[p], None}
    <3>1. \/ resp' = [resp EXCEPT ![c].down[q] = None] \/ resp' = [resp EXCEPT ![c].conf[q] = None]
          \/ resp' = [resp EXCEPT ![c].del = @ \ {q}]
      BY <1>4 DEF DownloadSkipped, ConflictSkipped, ConflictRead, DeleteSkipped
    <3>2. resp[c] \in Pending /\ resp \in [Clients -> Pending]
      BY <1>0 DEF TypeOK
    <3>3. CASE resp' = [resp EXCEPT ![c].down[q] = None]
      BY <1>0, <3>2, <3>3 DEF Pending
    <3>4. CASE resp' = [resp EXCEPT ![c].conf[q] = None]
      BY <1>0, <3>2, <3>4 DEF Pending
    <3>5. CASE resp' = [resp EXCEPT ![c].del = @ \ {q}]
      BY <1>0, <3>2, <3>5 DEF Pending
    <3> QED BY <3>1, <3>3, <3>4, <3>5
  <2> QED BY <2>1, <2>2 DEF Kept, KeptAt, KeptPending, KeptExchange, Receiving
<1>5. ASSUME ConflictApply(c) PROVE Kept(c)' /\ UNCHANGED <<local, author>>
  <2>1. held[c].path \in Paths
    BY <1>0, <1>5 DEF ConflictApply, TypeOK
  <2>2. local' = local
    BY <1>5, <2>1 DEF ConflictApply, OneWriter, Kept, KeptAt
  <2> QED BY <1>5, <2>2 DEF ConflictApply, Kept, KeptAt, KeptPending, KeptExchange, Receiving
<1>6. ASSUME FinishCycle(c) PROVE Kept(c)' /\ UNCHANGED <<local, author>>
  <2>1. pc'[c] = "idle" /\ resp[c].up = {} /\ staged[c] = None
    BY <1>0, <1>6 DEF FinishCycle, TypeOK, Deleting, Resolving, Downloading
  <2> QED BY <1>6, <2>1 DEF FinishCycle, Kept, KeptAt, KeptPending, KeptExchange, Receiving
<1> QED BY <1>1, <1>2, <1>3, <1>4, <1>5, <1>6 DEF Apply

LEMMA NextKept ==
  ASSUME NEW c, OneWriter(c), TInv, Kept(c), EditsHeld(c), [Next]_vars
  PROVE  Kept(c)' /\ EditsHeld(c)'
<1>1. ASSUME Kept(c)', UNCHANGED <<local, author>> PROVE Kept(c)' /\ EditsHeld(c)'
  BY <1>1 DEF EditsHeld
<1>2. CASE UNCHANGED vars
  BY <1>2 DEF vars, serverVars, clientVars, cycleVars, history, Kept, KeptAt, KeptPending,
              KeptExchange, Receiving, EditsHeld
<1>3. CASE Index
  BY <1>1, <1>3, IndexKept DEF Index, IndexEvent, FullReconcile, clientVars, history
<1>4. ~Host /\ ~Abandon(c)
  BY DEF OneWriter, Host, HostEdit, HostDelete, Abandon
<1>5. CASE User(c) \/ Exchange(c) \/ Apply(c)
  BY <1>1, <1>5, UserKept, ExchangeKept, ApplyKept
<1> QED BY <1>2, <1>3, <1>4, <1>5 DEF Next, OneWriter

\* Spec => []NoEditLost for one writer: whatever its user edits while a cycle
\* runs, however late or often the index rebuilds the rows, and whichever
\* download, removal or archiving fails, every edit is in a file (the invariant
\* conflict_writer.rs is written for).
THEOREM OneWriterLosesNothing ==
  ASSUME NEW c, OneWriter(c) PROVE Spec => []NoEditLost
<1>1. Init => Kept(c) /\ EditsHeld(c)
  BY InitKept
<1>2. TInv /\ Kept(c) /\ EditsHeld(c) /\ [Next]_vars => Kept(c)' /\ EditsHeld(c)'
  BY NextKept
<1>3. EditsHeld(c) => NoEditLost
  <2> SUFFICES ASSUME EditsHeld(c), NEW e \in Edits, author[e] # None
               PROVE  e \in UNION Everywhere
    BY DEF NoEditLost
  <2>1. PICK p \in Paths : local[c][p] # None /\ e \in local[c][p]
    BY DEF EditsHeld
  <2>2. local[c][p] \in Contents(local[c]) /\ c \in Clients
    BY <2>1 DEF Contents, OneWriter
  <2>3. local[c][p] \in Everywhere
    BY <2>2 DEF Everywhere
  <2> QED BY <2>1, <2>3
<1> QED BY <1>1, <1>2, <1>3, TInvInvariant, PTL DEF Spec

-----------------------------------------------------------------------------
(* Deletions are the user's *)

\* Row and baseline are the same live version: a client that reports no such
\* file is taken to have deleted it.
Matched(c, p) ==
  /\ Present(row[p]) /\ Present(baseline[c][p])
  /\ row[p].hash = baseline[c][p].hash

\* The file at p is on its way to the server.
Sending(c, p) == p \in resp[c].up \/ Receiving(c, p)

\* A file missing on a client whose baseline is the share's was deleted by its
\* user and not judged yet, unless the client is about to download it.
JudgedAt(c, p) ==
  /\ p \in deletes[c] => local[c][p] = None
  /\ row[p] # None => row[p].clock = Advance(ZeroClock, Server) /\ baseline[c][p] # None
  /\ Present(row[p]) => Present(baseline[c][p])
  /\ ~Receiving(c, p) => HashOf(row[p]) = disk[p]
  /\ Matched(c, p) /\ local[c][p] = None =>
       \/ p \in deletes[c]
       \/ pc[c] = "apply" /\ resp[c].down[p] # None /\ resp[c].down[p] = disk[p]

\* What is left of a response: nothing is asked twice of a path, and a path to
\* be deleted has no live row.
JudgedPending(c, p) ==
  /\ held[c] = None /\ resp[c].conf[p] = None
  /\ Receiving(c, p) => staged[c].bytes = disk[p]
  /\ Sending(c, p) => /\ pc[c] = "apply" /\ p \notin resp[c].del /\ resp[c].down[p] = None
                      /\ Present(baseline[c][p])
                      /\ local[c][p] = None => p \in deletes[c]
  /\ p \in resp[c].del => ~Present(row[p])

\* An exchange in progress: the claims are the deletions the scan saw, and the
\* plan is that of the rows.
JudgedExchange(c, p) ==
  /\ pc[c] \in {"scanned", "planned", "tombstoned"} /\ snap[c][p] # None =>
       p \notin claims[c] /\ (local[c][p] = None => p \in deletes[c])
  /\ pc[c] \in {"scanned", "planned"} /\ Matched(c, p) /\ snap[c][p] = None => p \in claims[c]
  /\ pc[c] \in {"planned", "tombstoned"} =>
       /\ plan[c][p].act = ResolveOne(plan[c][p].srv, ClientMeta(c, p), baseline[c][p])
       /\ Present(plan[c][p].srv) => Present(baseline[c][p])
       /\ pc[c] = "planned" => row[p] = plan[c][p].srv
       /\ pc[c] = "tombstoned" =>
            row[p] = IF p \in Buries(c) THEN Buried(plan[c][p].srv) ELSE plan[c][p].srv

Judged(c) == \A p \in Paths : JudgedAt(c, p) /\ JudgedPending(c, p) /\ JudgedExchange(c, p)

\* The instances DeleteAuthority is proved for: one client that may read, whose
\* user edits, deletes and restores; nobody else and no index writes rows;
\* uploading, archiving and removing may fail.
OneUser(c) ==
  /\ Clients = {c} /\ Role[c] \in ReadRoles
  /\ Env \subseteq {"delete", "undelete"}
  /\ Faults \subseteq {"upload", "archive", "remove"}

LEMMA TickIsAfter == Compare(Advance(ZeroClock, Server), ZeroClock) = "After"
<1>1. \A n \in Nodes : Advance(ZeroClock, Server)[n] = IF n = Server THEN 1 ELSE 0
  BY MaxTickAssumption, ShareAssumption DEF Advance, ZeroClock
<1>2. \A n \in Nodes : ZeroClock[n] = 0
  BY DEF ZeroClock
<1> QED BY <1>1, <1>2, ShareAssumption DEF Compare

\* With rows the server ticked and a baseline for each of them, the tree never
\* forks, and buries a live row only for a matching baseline and no file.
LEMMA TickedVerdict ==
  ASSUME NEW l \in MaybeMeta, NEW r \in MaybeMeta, NEW i \in MaybeMeta,
         ~Tomb(r), r # None => r.clock = ZeroClock,
         l # None => l.clock = Advance(ZeroClock, Server) /\ i # None,
         Present(l) => Present(i)
  PROVE  /\ ResolveOne(l, r, i).action # "ConflictFork"
         /\ ResolveOne(l, r, i).action = "Upload" => Present(l)
         /\ ResolveOne(l, r, i).action = "Download" => r # None
         /\ ResolveOne(l, r, i).action = "Skip" /\ Present(l) => r # None
         /\ ResolveOne(l, r, i).action = "DeleteLocal" /\ Present(l) => r = None /\ HashesEq(l, i)
         /\ ResolveOne(l, r, i).action = "DeleteRemote" => ~Present(l)
<1> USE DEF Make, MakeWithConflict
<1>1. CASE l = None /\ r = None
  <2>1. ResolveOne(l, r, i) = Make("Skip")
    BY <1>1, UploadNeedsACopy
  <2> QED BY <1>1, <2>1 DEF Present
<1>2. CASE l = None /\ r # None
  <2>1. ResolveOne(l, r, i) \in {Make("Download"), Make("DeleteRemote"),
                                 MakeWithConflict("Download", "ModifiedDeleted")}
    BY <1>2, Trichotomy, ZenonT(60) DEF ResolveOne
  <2> QED BY <1>2, <2>1 DEF Present
<1>3. CASE Tomb(l) /\ r = None
  <2>1. ResolveOne(l, r, i) \in {Make("Skip"), Make("DeleteRemote")}
    BY <1>3, Trichotomy, ZenonT(60) DEF ResolveOne
  <2> QED BY <1>3, <2>1, Trichotomy
<1>4. CASE Tomb(l) /\ r # None
  <2>1. ResolveOne(l, r, i) \in {Make("Download"), Make("DeleteRemote"),
                                 MakeWithConflict("Download", "ModifiedDeleted")}
    BY <1>4, Trichotomy, ZenonT(60) DEF ResolveOne
  <2> QED BY <1>4, <2>1, Trichotomy
<1>5. CASE Present(l) /\ r = None
  <2>1. ResolveOne(l, r, i) = IF HashesEq(l, i) THEN Make("DeleteLocal")
                              ELSE MakeWithConflict("Upload", "ModifiedDeleted")
    BY <1>5, Trichotomy, ZenonT(60) DEF ResolveOne
  <2> QED BY <1>5, <2>1
<1>6. CASE Present(l) /\ r # None
  <2>1. ResolveOne(l, r, i) = ResolveThreeWay(l, r, i)
    BY <1>6, Trichotomy, ZenonT(60) DEF ResolveOne
  <2>2. ClockCompare(l, r) = "After"
    BY <1>6, TickIsAfter DEF ClockCompare, Present
  <2>3. ResolveThreeWay(l, r, i) \in {Make("Skip"), Make("Download"), Make("Upload")}
    BY <2>2 DEF ResolveThreeWay
  <2> QED BY <1>6, <2>1, <2>3
<1> QED BY <1>1, <1>2, <1>3, <1>4, <1>5, <1>6, Trichotomy

LEMMA InitJudged ==
  ASSUME NEW c, OneUser(c), Init PROVE Judged(c)
BY DEF OneUser, Init, Judged, JudgedAt, JudgedPending, JudgedExchange, NoFiles, NoResp,
       HashOf, Present, Matched, Sending, Receiving

\* A user who removes a file is remembered; one who brings it back is forgotten.
LEMMA UserJudged ==
  ASSUME NEW c, OneUser(c), TInv, Judged(c), User(c)
  PROVE  Judged(c)'
<1> USE DEF serverVars, clientVars, cycleVars, history
<1>0. c \in Clients /\ TypeOK
  BY DEF OneUser, TInv
<1>1. PICK q \in Paths, h \in MaybeHash :
        /\ local' = [local EXCEPT ![c][q] = h]
        /\ deletes' = [deletes EXCEPT ![c] = IF h = None THEN @ \cup {q} ELSE @ \ {q}]
  <2>1. ASSUME NEW q \in Paths, NEW e \in Edits, UserEdit(c, q, e)
        PROVE  /\ With(local[c][q], e) \in MaybeHash /\ With(local[c][q], e) # None
               /\ local' = [local EXCEPT ![c][q] = With(local[c][q], e)]
               /\ deletes' = [deletes EXCEPT ![c] = @ \ {q}]
    <3>1. With(local[c][q], e) \in Hashes
      BY <1>0, WithType DEF TypeOK
    <3> QED BY <2>1, <3>1, ShareAssumption DEF UserEdit, MaybeHash
  <2>2. ASSUME NEW q \in Paths, UserDelete(c, q)
        PROVE  /\ None \in MaybeHash /\ local' = [local EXCEPT ![c][q] = None]
               /\ deletes' = [deletes EXCEPT ![c] = @ \cup {q}]
    BY <2>2 DEF UserDelete, MaybeHash
  <2>3. ASSUME NEW q \in Paths, UserUndelete(c, q)
        PROVE  /\ bin[c][q] \in MaybeHash /\ bin[c][q] # None
               /\ local' = [local EXCEPT ![c][q] = bin[c][q]]
               /\ deletes' = [deletes EXCEPT ![c] = @ \ {q}]
    BY <1>0, <2>3 DEF UserUndelete, TypeOK
  <2> QED BY <2>1, <2>2, <2>3 DEF User
<1>2. /\ \A p \in Paths : local'[c][p] = IF p = q THEN h ELSE local[c][p]
      /\ deletes'[c] = IF h = None THEN deletes[c] \cup {q} ELSE deletes[c] \ {q}
  BY <1>0, <1>1 DEF TypeOK
<1>3. UNCHANGED <<serverVars, cycleVars, claims>>
  BY DEF User, UserEdit, UserDelete, UserUndelete
<1>4. ASSUME NEW p \in Paths
      PROVE  JudgedAt(c, p)' /\ JudgedPending(c, p)' /\ JudgedExchange(c, p)'
  <2>0. JudgedAt(c, p) /\ JudgedPending(c, p) /\ JudgedExchange(c, p)
    BY DEF Judged
  <2>1. JudgedAt(c, p)'
    BY <1>2, <1>3, <2>0 DEF JudgedAt, Matched, Receiving
  <2>2. JudgedPending(c, p)'
    BY <1>2, <1>3, <2>0 DEF JudgedPending, Sending, Receiving
  <2>3. JudgedExchange(c, p)'
    BY <1>2, <1>3, <2>0 DEF JudgedExchange, Matched, ClientMeta, Buries, Planned
  <2> QED BY <2>1, <2>2, <2>3
<1> QED BY <1>4 DEF Judged

\* The verdict on a path, in the terms of the invariant.
LEMMA JudgedVerdict ==
  ASSUME NEW c, OneUser(c), TypeOK, Judged(c), NEW p \in Paths, NEW l \in MaybeMeta,
         l # None => l.clock = Advance(ZeroClock, Server) /\ baseline[c][p] # None,
         Present(l) => Present(baseline[c][p]),
         NEW a, a = ResolveOne(l, ClientMeta(c, p), baseline[c][p]).action
  PROVE  /\ a # "ConflictFork"
         /\ a = "Upload" => Present(l)
         /\ a = "Download" => snap[c][p] # None
         /\ a = "Skip" /\ Present(l) => snap[c][p] # None
         /\ a = "DeleteLocal" /\ Present(l) => snap[c][p] = None /\ HashesEq(l, baseline[c][p])
         /\ a = "DeleteRemote" => ~Present(l)
<1>1. c \in Clients /\ baseline[c][p] \in MaybeMeta
  BY DEF OneUser, TypeOK
<1>2. /\ ClientMeta(c, p) \in MaybeMeta
      /\ snap[c][p] = None <=> ClientMeta(c, p) = None
  BY <1>1, ClientMetaType
<1>3. ~Tomb(ClientMeta(c, p)) /\ (ClientMeta(c, p) # None => ClientMeta(c, p).clock = ZeroClock)
  BY DEF ClientMeta, Live, Tomb
<1> QED BY <1>1, <1>2, <1>3, TickedVerdict

\* The scan claims what the user deleted; what the plan buries is claimed.
LEMMA ExchangeJudged ==
  ASSUME NEW c, OneUser(c), TInv, Judged(c), Exchange(c)
  PROVE  Judged(c)'
<1> USE DEF serverVars, clientVars, history
<1>0. c \in Clients /\ TypeOK
  BY DEF OneUser, TInv
<1>1. ASSUME Scan(c) PROVE Judged(c)'
  <2>1. /\ snap'[c] = local[c] /\ claims'[c] = deletes[c]
        /\ pc'[c] = "scanned" /\ pc[c] = "idle"
    BY <1>0, <1>1 DEF Scan, OneUser, TypeOK
  <2>2. UNCHANGED <<serverVars, local, resp, staged, held, deletes>>
    BY <1>1 DEF Scan
  <2>3. ASSUME NEW p \in Paths
        PROVE  JudgedAt(c, p)' /\ JudgedPending(c, p)' /\ JudgedExchange(c, p)'
    <3>1. JudgedAt(c, p) /\ JudgedPending(c, p)
      BY DEF Judged
    <3>2. JudgedAt(c, p)' /\ JudgedPending(c, p)'
      BY <2>1, <2>2, <3>1 DEF JudgedAt, JudgedPending, Matched, Sending, Receiving
    <3>3. JudgedExchange(c, p)'
      BY <2>1, <2>2, <3>1 DEF JudgedAt, JudgedExchange, Matched
    <3> QED BY <3>2, <3>3
  <2> QED BY <2>3 DEF Judged
<1>2. ASSUME ExchangePlan(c) PROVE Judged(c)'
  <2>0. pc[c] = "scanned" /\ pc'[c] = "planned"
    BY <1>0, <1>2 DEF ExchangePlan, TypeOK
  <2>1. ASSUME NEW p \in Paths
        PROVE  /\ plan'[c][p].act = ResolveOne(row[p], ClientMeta(c, p), baseline[c][p])
               /\ plan'[c][p].srv = row[p]
    BY <1>0, <1>2 DEF ExchangePlan, TypeOK
  <2>2. UNCHANGED <<row, disk, baseline, local, snap, resp, staged, held, deletes, claims>>
    BY <1>2 DEF ExchangePlan
  <2>3. ASSUME NEW p \in Paths
        PROVE  JudgedAt(c, p)' /\ JudgedPending(c, p)' /\ JudgedExchange(c, p)'
    <3>1. JudgedAt(c, p) /\ JudgedPending(c, p) /\ JudgedExchange(c, p)
      BY DEF Judged
    <3>2. JudgedAt(c, p)' /\ JudgedPending(c, p)'
      BY <2>0, <2>2, <3>1 DEF JudgedAt, JudgedPending, Matched, Sending, Receiving
    <3>3. ClientMeta(c, p)' = ClientMeta(c, p)
      BY <2>2 DEF ClientMeta
    <3>4. JudgedExchange(c, p)'
      BY <2>0, <2>1, <2>2, <3>1, <3>3 DEF JudgedAt, JudgedExchange, Matched
    <3> QED BY <3>2, <3>4
  <2> QED BY <2>3 DEF Judged
<1>3. ASSUME ExchangeTombstone(c) PROVE Judged(c)'
  <2>0. pc[c] = "planned" /\ pc'[c] = "tombstoned"
    BY <1>0, <1>3 DEF ExchangeTombstone, TypeOK
  <2>1. UNCHANGED <<disk, baseline, local, snap, plan, resp, staged, held, deletes, claims>>
    BY <1>3 DEF ExchangeTombstone
  <2>2. Buries(c)' = Buries(c)
    BY <2>1 DEF Buries, Planned
  <2>3. ASSUME NEW p \in Paths
        PROVE  JudgedAt(c, p)' /\ JudgedPending(c, p)' /\ JudgedExchange(c, p)'
    <3>1. JudgedAt(c, p) /\ JudgedPending(c, p) /\ JudgedExchange(c, p)
      BY DEF Judged
    <3>2. row[p] = plan[c][p].srv /\ row[p] \in MaybeMeta
      BY <1>0, <2>0, <3>1 DEF JudgedExchange, TypeOK
    <3>3. \/ row'[p] = row[p] /\ p \notin Buries(c)
          \/ row'[p] = Buried(row[p]) /\ p \in Buries(c) /\ row[p] # None
      BY <1>3, <3>2 DEF ExchangeTombstone, Buries
    <3>4. row[p] # None => /\ Tomb(Buried(row[p])) /\ Buried(row[p]).hash = row[p].hash
                           /\ Buried(row[p]).clock = row[p].clock /\ Buried(row[p]) # None
      BY <3>2, BuriedType DEF MaybeMeta, Meta, Buried, Tomb
    <3>5. \/ row'[p] = row[p]
          \/ /\ row[p] # None /\ row'[p] # None /\ ~Present(row'[p])
             /\ row'[p].hash = row[p].hash /\ row'[p].clock = row[p].clock
      BY <3>3, <3>4 DEF Present, Tomb
    <3>6. JudgedAt(c, p)'
      BY <2>0, <2>1, <3>1, <3>5 DEF JudgedAt, Matched, Receiving, HashOf
    <3>7. JudgedPending(c, p)'
      BY <2>0, <2>1, <3>1, <3>5 DEF JudgedPending, Sending, Receiving
    <3>8. ClientMeta(c, p)' = ClientMeta(c, p)
      BY <2>1 DEF ClientMeta
    <3>9. JudgedExchange(c, p)'
      BY <2>0, <2>1, <2>2, <3>1, <3>2, <3>3, <3>8 DEF JudgedExchange
    <3> QED BY <3>6, <3>7, <3>9
  <2> QED BY <2>3 DEF Judged
<1>4. ASSUME ExchangeRespond(c) PROVE Judged(c)'
  <2>0. /\ pc[c] = "tombstoned" /\ pc'[c] = "apply" /\ resp'[c] = Response(c)
        /\ deletes'[c] = deletes[c] \ claims[c]
        /\ UNCHANGED <<row, disk, local, staged, held>>
    BY <1>0, <1>4 DEF ExchangeRespond, OneUser, TypeOK
  <2>1. ASSUME NEW p \in Paths
        PROVE  JudgedAt(c, p)' /\ JudgedPending(c, p)' /\ JudgedExchange(c, p)'
    <3> DEFINE act == plan[c][p].act.action
               srv == plan[c][p].srv
    <3>1. JudgedAt(c, p) /\ JudgedPending(c, p) /\ JudgedExchange(c, p)
      BY DEF Judged
    <3>2. /\ srv \in MaybeMeta /\ act \in ActionTypes /\ baseline[c][p] \in MaybeMeta
          /\ row[p] \in MaybeMeta
      BY <1>0 DEF TypeOK, Verdict
    <3>3. p \in Buries(c) <=> act = "DeleteLocal" /\ Present(srv)
      BY DEF Buries, Planned, Present
    <3>4. row[p] = IF p \in Buries(c) THEN Buried(srv) ELSE srv
      BY <2>0, <3>1 DEF JudgedExchange
    <3>5. srv # None => /\ Tomb(Buried(srv)) /\ Buried(srv).hash = srv.hash
                        /\ Buried(srv).clock = srv.clock /\ Buried(srv) # None
      BY <3>2, BuriedType DEF MaybeMeta, Meta, Buried, Tomb
    <3>6. srv # None => srv.clock = Advance(ZeroClock, Server) /\ baseline[c][p] # None
      BY <3>1, <3>4, <3>5 DEF JudgedAt
    <3>7. Present(srv) => Present(baseline[c][p])
      BY <2>0, <3>1 DEF JudgedExchange
    <3>8. /\ act # "ConflictFork"
          /\ act = "Upload" => Present(srv)
          /\ act = "Download" => snap[c][p] # None
          /\ act = "Skip" /\ Present(srv) => snap[c][p] # None
          /\ act = "DeleteRemote" => ~Present(srv)
      <4>1. act = ResolveOne(srv, ClientMeta(c, p), baseline[c][p]).action
        BY <2>0, <3>1 DEF JudgedExchange
      <4> HIDE DEF act, srv
      <4> QED BY <1>0, <3>2, <3>6, <3>7, <4>1, JudgedVerdict
    <3>9. baseline'[c][p] = PostSyncBaseline(c, p)
      BY <1>0, <1>4 DEF ExchangeRespond, TypeOK
    <3>10. /\ snap[c][p] # None => /\ Present(ClientMeta(c, p)) /\ ClientMeta(c, p) # None
                                   /\ ClientMeta(c, p).hash = snap[c][p]
           /\ snap[c][p] = None => ClientMeta(c, p) = None
      BY <1>0, ClientMetaType, LiveType DEF ClientMeta, Live, Present, TypeOK, MaybeHash
    <3>11. /\ p \in resp'[c].up => act = "Download"
           /\ p \in resp'[c].del => act \in {"DeleteLocal", "DeleteRemote"}
           /\ resp'[c].conf[p] = None
           /\ resp'[c].down[p] = IF act # "Upload" THEN None
                                 ELSE IF snap[c][p] # None THEN snap[c][p] ELSE srv.hash
      <4>1. p \in Planned(c, "Upload") <=> act = "Upload"
        BY DEF Planned
      <4>2. p \notin Planned(c, "ConflictFork")
        BY <3>8 DEF Planned
      <4>3. snap[c][p] # None => DownloadMeta(c, p).hash = snap[c][p]
        BY <3>10 DEF DownloadMeta
      <4>4. snap[c][p] = None => DownloadMeta(c, p) = srv
        BY <3>10 DEF DownloadMeta
      <4>5. Response(c).down[p] = IF act = "Upload" THEN DownloadMeta(c, p).hash ELSE None
        BY <4>1, <4>2 DEF Response
      <4>6. Response(c).conf[p] = None
        BY <4>2 DEF Response
      <4>7. /\ p \in Response(c).up => p \in Planned(c, "Download")
            /\ p \in Response(c).del =>
                 p \in Planned(c, "DeleteLocal") \cup Planned(c, "DeleteRemote")
        BY DEF Response
      <4> QED BY <2>0, <4>3, <4>4, <4>5, <4>6, <4>7 DEF Planned
    <3>12. /\ act \in {"Upload", "Skip"} /\ srv # None => baseline'[c][p] = srv
           /\ act = "Download" => baseline'[c][p] = ClientMeta(c, p)
           /\ act \in {"DeleteLocal", "DeleteRemote"} /\ srv # None =>
                baseline'[c][p] = Buried(srv)
           /\ act \in ActionTypes \ {"Download", "ConflictFork"} /\ srv = None =>
                baseline'[c][p] = baseline[c][p]
      BY <3>9 DEF PostSyncBaseline, ActionTypes
    <3>13. /\ snap[c][p] # None => p \notin claims[c] /\ (local[c][p] = None => p \in deletes[c])
           /\ ~Receiving(c, p) /\ p \notin resp[c].up
      BY <2>0, <3>1 DEF JudgedExchange, JudgedPending, Sending
    <3>14. Present(row[p]) => row[p] = srv /\ act # "DeleteLocal" /\ act # "DeleteRemote"
      BY <3>3, <3>4, <3>5, <3>8, Trichotomy DEF Present, Tomb
    <3>15. HashOf(row[p]) = disk[p]
      BY <3>1, <3>13 DEF JudgedAt
    <3>16. row[p] # None <=> srv # None
      BY <3>3, <3>4, <3>5 DEF Present
    <3> HIDE DEF act, srv
    <3>17. JudgedAt(c, p)'
      <4>1. p \in deletes'[c] => local'[c][p] = None
        BY <2>0, <3>1 DEF JudgedAt
      <4>2. row'[p] # None => /\ row'[p].clock = Advance(ZeroClock, Server)
                              /\ baseline'[c][p] # None
        BY <2>0, <3>1, <3>2, <3>5, <3>8, <3>10, <3>12, <3>16 DEF JudgedAt, ActionTypes
      <4>3. Present(row'[p]) => Present(baseline'[c][p])
        BY <2>0, <3>2, <3>8, <3>10, <3>12, <3>14, <3>16 DEF ActionTypes, Present
      <4>4. ~Receiving(c, p)' => HashOf(row'[p]) = disk'[p]
        BY <2>0, <3>15
      <4>5. ASSUME Matched(c, p)', local'[c][p] = None
            PROVE  \/ p \in deletes'[c]
                   \/ /\ pc'[c] = "apply" /\ resp'[c].down[p] # None
                      /\ resp'[c].down[p] = disk'[p]
        <5>1. Present(row[p]) /\ row[p] = srv /\ act \in {"Upload", "Download", "Skip"}
          BY <2>0, <3>2, <3>8, <3>14, <4>5 DEF Matched, ActionTypes
        <5>2. CASE snap[c][p] # None
          BY <2>0, <3>13, <4>5, <5>2
        <5>3. CASE snap[c][p] = None
          <6>1. act = "Upload" /\ resp'[c].down[p] = srv.hash
            BY <3>8, <3>11, <5>1, <5>3
          <6>2. srv.hash = disk[p] /\ srv.hash # None
            BY <3>2, <3>15, <5>1, ShareAssumption DEF Present, HashOf, MaybeMeta, Meta
          <6> QED BY <2>0, <6>1, <6>2
        <5> QED BY <5>2, <5>3
      <4> QED BY <4>1, <4>2, <4>3, <4>4, <4>5 DEF JudgedAt
    <3>18. JudgedPending(c, p)'
      <4>1. held'[c] = None /\ resp'[c].conf[p] = None /\ ~Receiving(c, p)'
        BY <2>0, <3>1, <3>11, <3>13 DEF JudgedPending, Receiving
      <4>2. p \in resp'[c].up =>
              /\ p \notin resp'[c].del /\ resp'[c].down[p] = None
              /\ Present(baseline'[c][p])
              /\ local'[c][p] = None => p \in deletes'[c]
        BY <2>0, <3>8, <3>10, <3>11, <3>12, <3>13
      <4>3. p \in resp'[c].del => ~Present(row'[p])
        BY <2>0, <3>11, <3>14
      <4> QED BY <2>0, <4>1, <4>2, <4>3 DEF JudgedPending, Sending
    <3>19. JudgedExchange(c, p)'
      BY <2>0 DEF JudgedExchange
    <3> QED BY <3>17, <3>18, <3>19
  <2> QED BY <2>1 DEF Judged
<1> QED BY <1>1, <1>2, <1>3, <1>4 DEF Exchange

LEMMA ApplyJudged ==
  ASSUME NEW c, OneUser(c), TInv, Judged(c), Apply(c)
  PROVE  Judged(c)'
<1> USE DEF serverVars, clientVars, history
<1>0. c \in Clients /\ TypeOK
  BY DEF OneUser, TInv
<1>1. resp[c] \in Pending /\ resp \in [Clients -> Pending]
  BY <1>0 DEF TypeOK
<1>2. ASSUME NEW q \in Paths
      PROVE  held[c] = None /\ ~ConflictRead(c, q) /\ ~ConflictSkipped(c, q)
  BY DEF Judged, JudgedPending, ConflictRead, ConflictSkipped
<1>3. ASSUME NEW q \in Paths, UploadBytes(c, q) PROVE Judged(c)'
  <2>0. local[c][q] \in Hashes /\ local[c][q] # None /\ pc[c] = "apply" /\ staged[c] = None
    BY <1>0, <1>3 DEF UploadBytes, Uploading, TypeOK, MaybeHash
  <2>1. /\ disk' = [disk EXCEPT ![q] = local[c][q]]
        /\ staged' = [staged EXCEPT ![c] = [path |-> q, bytes |-> local[c][q]]]
        /\ resp' = [resp EXCEPT ![c].up = @ \ {q}]
        /\ UNCHANGED <<local, row, baseline, pc, held, deletes>> /\ q \in resp[c].up
    BY <1>3 DEF UploadBytes
  <2>2. /\ \A p \in Paths : disk'[p] = IF p = q THEN local[c][q] ELSE disk[p]
        /\ staged'[c] = [path |-> q, bytes |-> local[c][q]] /\ staged'[c] # None
        /\ resp'[c].up = resp[c].up \ {q} /\ resp'[c].down = resp[c].down
        /\ resp'[c].del = resp[c].del /\ resp'[c].conf = resp[c].conf
    <3>1. staged'[c] # None
      BY <1>0, <2>0, <2>1, ShareAssumption DEF TypeOK
    <3> QED BY <1>0, <1>1, <2>1, <3>1 DEF TypeOK, Pending
  <2>3. ASSUME NEW p \in Paths
        PROVE  JudgedAt(c, p)' /\ JudgedPending(c, p)' /\ JudgedExchange(c, p)'
    <3>1. JudgedAt(c, p) /\ JudgedPending(c, p)
      BY DEF Judged
    <3>2. JudgedAt(c, p)'
      BY <2>0, <2>1, <2>2, <3>1 DEF JudgedAt, JudgedPending, Matched, Sending, Receiving
    <3>3. JudgedPending(c, p)'
      BY <2>0, <2>1, <2>2, <3>1 DEF JudgedPending, Sending, Receiving
    <3>4. JudgedExchange(c, p)'
      BY <2>0, <2>1 DEF JudgedExchange
    <3> QED BY <3>2, <3>3, <3>4
  <2> QED BY <2>3 DEF Judged
<1>4. ASSUME UploadRow(c) PROVE Judged(c)'
  <2> DEFINE q == staged[c].path
             m == UploadedMeta(staged[c].bytes)
  <2>0. /\ q \in Paths /\ staged[c].bytes \in Hashes /\ staged[c] # None
        /\ staged[c].bytes = disk[q] /\ pc[c] = "apply" /\ Sending(c, q)
    BY <1>0, <1>4 DEF UploadRow, TypeOK, Judged, JudgedPending, Receiving, Sending
  <2>1. row' = [row EXCEPT ![q] = m] /\ staged'[c] = None
    BY <1>0, <1>4 DEF UploadRow, OneUser, TypeOK
  <2>2. m # None /\ Present(m) /\ HashOf(m) = disk[q] /\ m.clock = Advance(ZeroClock, Server)
    BY <2>0, LiveType, NoneAssumption DEF UploadedMeta, Present, HashOf
  <2> HIDE DEF q, m
  <2>3. UNCHANGED <<disk, baseline, local, pc, resp, held, deletes>>
    BY <1>4 DEF UploadRow
  <2>4. ASSUME NEW p \in Paths
        PROVE  JudgedAt(c, p)' /\ JudgedPending(c, p)' /\ JudgedExchange(c, p)'
    <3>1. JudgedAt(c, p) /\ JudgedPending(c, p)
      BY DEF Judged
    <3>2. JudgedExchange(c, p)'
      BY <2>0, <2>3 DEF JudgedExchange
    <3>3. CASE p = q
      <4>1. row'[p] = m
        BY <1>0, <2>0, <2>1, <3>3 DEF TypeOK
      <4>2. JudgedAt(c, p)'
        BY <2>0, <2>1, <2>2, <2>3, <3>1, <3>3, <4>1
           DEF JudgedAt, JudgedPending, Matched, Receiving, Present
      <4>3. JudgedPending(c, p)'
        BY <2>0, <2>1, <2>3, <3>1, <3>3, <4>1 DEF JudgedPending, Sending, Receiving
      <4> QED BY <3>2, <4>2, <4>3
    <3>4. CASE p # q
      <4>1. row'[p] = row[p] /\ ~Receiving(c, p)
        BY <1>0, <2>0, <2>1, <3>4 DEF TypeOK, Receiving, q
      <4>2. JudgedAt(c, p)'
        BY <2>1, <2>3, <3>1, <4>1 DEF JudgedAt, Matched
      <4>3. JudgedPending(c, p)'
        BY <2>1, <2>3, <3>1, <4>1 DEF JudgedPending, Sending, Receiving
      <4> QED BY <3>2, <4>2, <4>3
    <3> QED BY <3>3, <3>4
  <2> QED BY <2>4 DEF Judged
<1>5. ASSUME NEW q \in Paths, DownloadInstalled(c, q) PROVE Judged(c)'
  <2>0. /\ pc[c] = "apply" /\ disk[q] # None /\ resp[c].up = {} /\ staged[c] = None
        /\ resp[c].down[q] # None
        /\ UNCHANGED <<row, disk, baseline, pc, staged, held>>
    BY <1>5 DEF DownloadInstalled, Downloading, Uploading
  <2>1. /\ \A p \in Paths : local'[c][p] = IF p = q THEN disk[q] ELSE local[c][p]
        /\ deletes'[c] = deletes[c] \ {q}
    BY <1>0, <1>5 DEF DownloadInstalled, TypeOK
  <2>2. /\ \A p \in Paths : resp'[c].down[p] = IF p = q THEN None ELSE resp[c].down[p]
        /\ resp'[c].up = resp[c].up /\ resp'[c].del = resp[c].del
        /\ resp'[c].conf = resp[c].conf
    BY <1>0, <1>1, <1>5 DEF DownloadInstalled, Pending
  <2>3. ASSUME NEW p \in Paths
        PROVE  JudgedAt(c, p)' /\ JudgedPending(c, p)' /\ JudgedExchange(c, p)'
    <3>1. JudgedAt(c, p) /\ JudgedPending(c, p)
      BY DEF Judged
    <3>2. JudgedAt(c, p)'
      BY <2>0, <2>1, <2>2, <3>1 DEF JudgedAt, Matched, Receiving
    <3>3. JudgedPending(c, p)'
      BY <2>0, <2>1, <2>2, <3>1 DEF JudgedPending, Sending, Receiving
    <3>4. JudgedExchange(c, p)'
      BY <2>0 DEF JudgedExchange
    <3> QED BY <3>2, <3>3, <3>4
  <2> QED BY <2>3 DEF Judged
<1>6. ASSUME NEW q \in Paths, DownloadSkipped(c, q) PROVE Judged(c)'
  <2>0. /\ pc[c] = "apply" /\ resp[c].up = {} /\ staged[c] = None
        /\ resp[c].down[q] # None /\ resp[c].down[q] # disk[q]
        /\ UNCHANGED <<row, disk, baseline, local, pc, staged, held, deletes>>
    BY <1>6 DEF DownloadSkipped, Downloading, Uploading, OneUser, WireHashMatches
  <2>2. /\ \A p \in Paths : resp'[c].down[p] = IF p = q THEN None ELSE resp[c].down[p]
        /\ resp'[c].up = resp[c].up /\ resp'[c].del = resp[c].del
        /\ resp'[c].conf = resp[c].conf
    BY <1>0, <1>1, <1>6 DEF DownloadSkipped, Pending
  <2>3. ASSUME NEW p \in Paths
        PROVE  JudgedAt(c, p)' /\ JudgedPending(c, p)' /\ JudgedExchange(c, p)'
    <3>1. JudgedAt(c, p) /\ JudgedPending(c, p)
      BY DEF Judged
    <3>2. JudgedAt(c, p)'
      BY <2>0, <2>2, <3>1 DEF JudgedAt, Matched, Receiving
    <3>3. JudgedPending(c, p)'
      BY <2>0, <2>2, <3>1 DEF JudgedPending, Sending, Receiving
    <3>4. JudgedExchange(c, p)'
      BY <2>0 DEF JudgedExchange
    <3> QED BY <3>2, <3>3, <3>4
  <2> QED BY <2>3 DEF Judged
<1>7. ASSUME NEW q \in Paths, DeleteApply(c, q) \/ DeleteSkipped(c, q) \/ UploadSkipped(c, q)
      PROVE Judged(c)'
  <2>0. pc[c] = "apply" /\ staged[c] = None
        /\ UNCHANGED <<row, disk, baseline, pc, staged, held, deletes>>
    BY <1>7 DEF DeleteApply, DeleteSkipped, UploadSkipped, Deleting, Resolving, Downloading,
                Uploading
  <2>1. /\ resp'[c].down = resp[c].down /\ resp'[c].conf = resp[c].conf
        /\ resp'[c].up \subseteq resp[c].up /\ resp'[c].del \subseteq resp[c].del
    <3>1. CASE resp' = [resp EXCEPT ![c].up = @ \ {q}]
      BY <1>0, <1>1, <3>1 DEF Pending
    <3>2. CASE resp' = [resp EXCEPT ![c].del = @ \ {q}]
      BY <1>0, <1>1, <3>2 DEF Pending
    <3> QED BY <1>7, <3>1, <3>2 DEF DeleteApply, DeleteSkipped, UploadSkipped
  <2>2. \/ local' = local
        \/ /\ q \in resp[c].del
           /\ \A p \in Paths : local'[c][p] = IF p = q THEN None ELSE local[c][p]
    BY <1>0, <1>7 DEF DeleteApply, DeleteSkipped, UploadSkipped, TypeOK
  <2>3. ASSUME NEW p \in Paths
        PROVE  JudgedAt(c, p)' /\ JudgedPending(c, p)' /\ JudgedExchange(c, p)'
    <3>1. JudgedAt(c, p) /\ JudgedPending(c, p)
      BY DEF Judged
    <3>2. JudgedAt(c, p)'
      BY <2>0, <2>1, <2>2, <3>1 DEF JudgedAt, JudgedPending, Matched, Receiving
    <3>3. JudgedPending(c, p)'
      BY <2>0, <2>1, <2>2, <3>1 DEF JudgedPending, Sending, Receiving
    <3>4. JudgedExchange(c, p)'
      BY <2>0 DEF JudgedExchange
    <3> QED BY <3>2, <3>3, <3>4
  <2> QED BY <2>3 DEF Judged
<1>8. ASSUME FinishCycle(c) PROVE Judged(c)'
  <2>0. /\ pc'[c] = "idle" /\ resp[c].up = {} /\ staged[c] = None /\ resp[c].down = NoFiles
        /\ UNCHANGED <<row, disk, baseline, local, resp, staged, held, deletes>>
    BY <1>0, <1>8 DEF FinishCycle, TypeOK, Deleting, Resolving, Downloading
  <2>1. \A p \in Paths : resp[c].down[p] = None
    BY <2>0 DEF NoFiles
  <2> QED BY <2>0, <2>1 DEF Judged, JudgedAt, JudgedPending, JudgedExchange, Matched, Sending,
                            Receiving
<1>9. ~ConflictApply(c)
  BY <1>0, <1>2 DEF ConflictApply, TypeOK
<1> QED BY <1>2, <1>3, <1>4, <1>5, <1>6, <1>7, <1>8, <1>9 DEF Apply

LEMMA NextJudged ==
  ASSUME NEW c, OneUser(c), TInv, Judged(c), [Next]_vars
  PROVE  Judged(c)'
<1>1. CASE UNCHANGED vars
  BY <1>1 DEF vars, serverVars, clientVars, cycleVars, history, Judged, JudgedAt, JudgedPending,
              JudgedExchange, Matched, Sending, Receiving, ClientMeta, Buries, Planned
<1>2. ~Host /\ ~Abandon(c) /\ ~Index
  BY DEF OneUser, Host, HostEdit, HostDelete, Abandon, Index, IndexEvent, FullReconcile
<1> QED BY <1>1, <1>2, UserJudged, ExchangeJudged, ApplyJudged DEF Next, OneUser

\* Spec => []DeleteAuthority for one client: whatever its user edits, deletes
\* and restores while a cycle runs, and whichever upload, archiving or removal
\* fails, the server buries a live row only for a deletion the client's user
\* made and the server had not judged (exchange_state,
\* build_post_sync_baseline).
THEOREM OneUserHoldsAuthority ==
  ASSUME NEW c, OneUser(c) PROVE Spec => []DeleteAuthority
<1>1. Init => Judged(c)
  BY InitJudged
<1>2. TInv /\ Judged(c) /\ [Next]_vars => Judged(c)'
  BY NextJudged
<1>3. TInv /\ Judged(c) => DeleteAuthority
  <2> SUFFICES ASSUME TInv, Judged(c), pc[c] = "planned", NEW p \in Buries(c)
               PROVE  p \in claims[c]
    BY DEF DeleteAuthority, OneUser
  <2>1. p \in Paths /\ plan[c][p].act.action = "DeleteLocal" /\ Present(plan[c][p].srv)
    BY DEF Buries, Planned, Present
  <2>2. /\ JudgedAt(c, p) /\ JudgedExchange(c, p) /\ row[p] = plan[c][p].srv
        /\ plan[c][p].act = ResolveOne(row[p], ClientMeta(c, p), baseline[c][p])
    BY <2>1 DEF Judged, JudgedExchange
  <2>3. row[p] \in MaybeMeta /\ TypeOK
    BY <2>1 DEF TInv, TypeOK
  <2>4. /\ row[p] # None => row[p].clock = Advance(ZeroClock, Server) /\ baseline[c][p] # None
        /\ Present(row[p]) => Present(baseline[c][p])
    BY <2>2 DEF JudgedAt
  <2>5. snap[c][p] = None /\ HashesEq(row[p], baseline[c][p])
    BY <2>1, <2>2, <2>3, <2>4, JudgedVerdict
  <2>6. Matched(c, p)
    BY <2>1, <2>2, <2>4, <2>5 DEF Matched, HashesEq
  <2> QED BY <2>2, <2>5, <2>6 DEF JudgedExchange
<1> QED BY <1>1, <1>2, <1>3, TInvInvariant, PTL DEF Spec

-----------------------------------------------------------------------------
(* Deletions are the user's, when files are written once *)

\* No file was ever at p.
Fresh(p) ==
  /\ row[p] = None /\ disk[p] = None
  /\ \A c \in Clients : local[c][p] = None /\ bin[c][p] = None /\ baseline[c][p] = None

\* Users create files and never change them.
WrittenOnce == \A c \in Clients, p \in Paths, e \in Edits : UserEdit(c, p, e) => Fresh(p)

\* The instances this is proved for: clients that may read; their users edit
\* and delete; uploading, archiving and the upsert of a row may fail.
Readers ==
  /\ \A c \in Clients : Role[c] \in ReadRoles
  /\ Env \subseteq {"delete"}
  /\ Faults \subseteq {"upload", "archive", "upsert"}

\* Client c has nothing to do with p.
Untouched(c, p) ==
  /\ local[c][p] = None /\ bin[c][p] = None /\ baseline[c][p] = None /\ snap[c][p] = None
  /\ plan[c][p].srv = None /\ p \notin deletes[c]
  /\ ~Sending(c, p) /\ p \notin resp[c].del /\ resp[c].down[p] = None

\* The client knows no version of p but h.
VersionAt(c, p, h) ==
  /\ local[c][p] \in {None, h} /\ snap[c][p] \in {None, h} /\ bin[c][p] \in {None, h}
  /\ HashOf(baseline[c][p]) \in {None, h} /\ HashOf(plan[c][p].srv) \in {None, h}
  /\ resp[c].down[p] \in {None, h}
  /\ Receiving(c, p) => staged[c].bytes = h

OneVersion(p, h) ==
  /\ disk[p] \in {None, h} /\ HashOf(row[p]) \in {None, h}
  /\ \A c \in Clients : VersionAt(c, p, h)

\* Until p has a row, only the client that created the file knows of it.
AtServer(p) ==
  /\ \E h \in Hashes : OneVersion(p, h)
  /\ row[p] # None => disk[p] # None
  /\ row[p] = None => \A c, d \in Clients : c # d => Untouched(c, p) \/ Untouched(d, p)

\* A file missing on a client that has baselined the live row was deleted by its
\* user and not judged yet, or is being downloaded; a buried row stays buried.
AtClient(c, p) ==
  /\ p \in deletes[c] => local[c][p] = None /\ bin[c][p] # None
  /\ Tomb(baseline[c][p]) =>
       Tomb(row[p]) /\ (local[c][p] # None => pc[c] = "apply" /\ p \in resp[c].del)
  /\ local[c][p] # None /\ row[p] # None => baseline[c][p] # None
  /\ Present(row[p]) /\ Present(baseline[c][p]) /\ local[c][p] = None =>
       p \in deletes[c] \/ (pc[c] = "apply" /\ resp[c].down[p] # None)

InResponse(c, p) ==
  /\ held[c] = None /\ resp[c].conf[p] = None
  /\ resp[c].down[p] # None => /\ pc[c] = "apply" /\ Present(baseline[c][p]) /\ disk[p] # None
                               /\ ~Sending(c, p) /\ p \notin resp[c].del
  /\ Sending(c, p) => /\ pc[c] = "apply" /\ row[p] = None /\ Present(baseline[c][p])
                      /\ p \notin resp[c].del /\ (local[c][p] = None => p \in deletes[c])
  /\ p \in resp[c].del => pc[c] = "apply" /\ ~Present(row[p]) /\ baseline[c][p] # None
  /\ Receiving(c, p) => disk[p] # None /\ p \notin resp[c].up

\* The plan may be older than the row: the row can have been created or buried
\* by another client since it was read.
InExchange(c, p) ==
  /\ pc[c] \in {"idle", "apply"} => snap[c][p] = None
  /\ snap[c][p] # None => /\ p \notin claims[c] /\ (local[c][p] = None => p \in deletes[c])
                          /\ ~Tomb(baseline[c][p]) /\ (row[p] # None => baseline[c][p] # None)
  /\ pc[c] = "scanned" /\ Present(row[p]) /\ Present(baseline[c][p]) /\ snap[c][p] = None
       => p \in claims[c]
  /\ pc[c] \in {"planned", "tombstoned"} =>
       /\ plan[c][p].act = ResolveOne(plan[c][p].srv, ClientMeta(c, p), baseline[c][p])
       /\ plan[c][p].srv # None => row[p] # None
       /\ Tomb(plan[c][p].srv) => Tomb(row[p])
       /\ plan[c][p].srv = None /\ row[p] # None => snap[c][p] = None /\ baseline[c][p] = None
       /\ Tomb(baseline[c][p]) => Tomb(plan[c][p].srv)
       /\ p \in Buries(c) => IF pc[c] = "planned" THEN p \in claims[c] ELSE Tomb(row[p])

OfClient(c, p) == AtClient(c, p) /\ InResponse(c, p) /\ InExchange(c, p)

Once == \A p \in Paths : AtServer(p) /\ \A c \in Clients : OfClient(c, p)

\* With one version of a path, and no row buried behind the back of a client
\* that holds it, the tree's verdict is known from who has the path.
LEMMA OneVersionVerdict ==
  ASSUME NEW l \in MaybeMeta, NEW r \in MaybeMeta, NEW i \in MaybeMeta, NEW h,
         HashOf(l) \in {None, h}, HashOf(r) \in {None, h}, HashOf(i) \in {None, h},
         ~Tomb(r), l # None /\ r # None => i # None,
         Tomb(i) => Tomb(l) /\ r = None
  PROVE  \/ /\ ResolveOne(l, r, i).action = "Upload"
            /\ Present(l) /\ r = None /\ i = None
         \/ /\ ResolveOne(l, r, i).action = "Download"
            /\ l = None /\ r # None /\ i = None
         \/ /\ ResolveOne(l, r, i).action = "Skip"
            /\ \/ l = None /\ r = None
               \/ Present(l) /\ r # None /\ Present(i)
               \/ Tomb(l) /\ r = None /\ Tomb(i)
         \/ /\ ResolveOne(l, r, i).action = "DeleteLocal"
            /\ Present(l) /\ r = None /\ Present(i)
         \/ /\ ResolveOne(l, r, i).action = "DeleteRemote"
            /\ \/ Tomb(l) /\ ~Tomb(i)
               \/ l = None /\ r # None /\ Present(i)
<1> USE DEF Make, MakeWithConflict
<1>0. /\ l # None /\ i # None => HashesEq(l, i)
      /\ r # None /\ i # None => HashesEq(r, i)
  <2>1. ASSUME NEW m \in MaybeMeta, m # None, HashOf(m) \in {None, h} PROVE m.hash = h
    BY <2>1, ShareAssumption DEF HashOf, MaybeMeta, Meta
  <2> QED BY <2>1 DEF HashesEq
<1>1. CASE l = None /\ r = None
  BY <1>1, UploadNeedsACopy
<1>2. CASE l = None /\ r # None
  <2>1. i = None \/ Present(i)
    BY <1>2, Trichotomy
  <2>2. CASE i = None
    <3>1. ResolveOne(l, r, i) = Make("Download")
      BY <1>2, <2>2, Trichotomy, ZenonT(60) DEF ResolveOne
    <3> QED BY <1>2, <2>2, <3>1
  <2>3. CASE Present(i)
    <3>1. HashesEq(r, i)
      BY <1>0, <1>2, <2>3 DEF Present
    <3>2. ResolveOne(l, r, i) = Make("DeleteRemote")
      BY <1>2, <2>3, <3>1, Trichotomy, ZenonT(60) DEF ResolveOne
    <3> QED BY <1>2, <2>3, <3>2
  <2> QED BY <2>1, <2>2, <2>3
<1>3. CASE Tomb(l) /\ r = None
  <2>1. ResolveOne(l, r, i) = IF Tomb(i) THEN Make("Skip") ELSE Make("DeleteRemote")
    BY <1>3, Trichotomy, ZenonT(60) DEF ResolveOne
  <2> QED BY <1>3, <2>1
<1>4. CASE Tomb(l) /\ r # None
  <2>1. Present(i) /\ HashesEq(r, i)
    BY <1>0, <1>4, Trichotomy DEF Tomb
  <2>2. ResolveOne(l, r, i) = Make("DeleteRemote")
    BY <1>4, <2>1, Trichotomy, ZenonT(60) DEF ResolveOne
  <2> QED BY <1>4, <2>1, <2>2, Trichotomy
<1>5. CASE Present(l) /\ r = None
  <2>1. i = None \/ Present(i)
    BY <1>5, Trichotomy
  <2>2. CASE i = None
    <3>1. ResolveOne(l, r, i) = Make("Upload")
      BY <1>5, <2>2, Trichotomy, ZenonT(60) DEF ResolveOne
    <3> QED BY <1>5, <2>2, <3>1
  <2>3. CASE Present(i)
    <3>1. HashesEq(l, i)
      BY <1>0, <1>5, <2>3 DEF Present
    <3>2. ResolveOne(l, r, i) = Make("DeleteLocal")
      BY <1>5, <2>3, <3>1, Trichotomy, ZenonT(60) DEF ResolveOne
    <3> QED BY <1>5, <2>3, <3>2
  <2> QED BY <2>1, <2>2, <2>3
<1>6. CASE Present(l) /\ r # None
  <2>1. Present(i) /\ HashesEq(l, i) /\ HashesEq(r, i)
    BY <1>0, <1>6, Trichotomy DEF Present
  <2>2. ResolveOne(l, r, i) = ResolveThreeWay(l, r, i)
    BY <1>6, <2>1, Trichotomy, ZenonT(60) DEF ResolveOne
  <2>3. ResolveThreeWay(l, r, i) = Make("Skip")
    BY <2>1, ZenonT(30) DEF ResolveThreeWay
  <2> QED BY <1>6, <2>1, <2>2, <2>3
<1> QED BY <1>1, <1>2, <1>3, <1>4, <1>5, <1>6, Trichotomy

-----------------------------------------------------------------------------
\* What a step leaves alone of a client.
Unmoved(c) ==
  UNCHANGED <<local[c], bin[c], baseline[c], pc[c], snap[c], plan[c], resp[c], staged[c],
              held[c], deletes[c], claims[c]>>

\* What a step of client a may do to the share at p.
ShareStep(a, p) ==
  /\ disk[p] # None => disk'[p] # None
  /\ row'[p] # None => disk'[p] # None
  /\ \/ row'[p] = row[p]
     \/ row[p] # None /\ Tomb(row'[p])
     \/ row[p] = None /\ row'[p] # None /\ ~Untouched(a, p)

LEMMA UnmovedClient ==
  ASSUME NEW c \in Clients, NEW p \in Paths, OfClient(c, p), Unmoved(c),
         disk[p] # None => disk'[p] # None,
         \/ row'[p] = row[p]
         \/ row[p] # None /\ Tomb(row'[p])
         \/ row[p] = None /\ Untouched(c, p)
  PROVE  OfClient(c, p)' /\ (Untouched(c, p) => Untouched(c, p)')
<1>1. AtClient(c, p)'
  BY DEF OfClient, AtClient, Unmoved, Untouched, Present, Tomb
<1>2. InResponse(c, p)'
  BY DEF OfClient, InResponse, Unmoved, Untouched, Sending, Receiving, Present, Tomb
<1>3. ClientMeta(c, p)' = ClientMeta(c, p) /\ (p \in Buries(c)' <=> p \in Buries(c))
  BY DEF Unmoved, ClientMeta, Buries, Planned
<1>4. Untouched(c, p) => p \notin Buries(c)
  BY DEF Untouched, Buries
<1>5. InExchange(c, p)'
  BY <1>3, <1>4 DEF OfClient, InExchange, Unmoved, Untouched, Present, Tomb
<1>6. Untouched(c, p) => Untouched(c, p)'
  BY DEF Unmoved, Untouched, Sending, Receiving
<1> QED BY <1>1, <1>2, <1>5, <1>6 DEF OfClient

\* It is enough to look at the client that takes the step.
LEMMA OnceStep ==
  ASSUME Once, NEW a \in Clients, \A d \in Clients \ {a} : Unmoved(d),
         \A p \in Paths : /\ OfClient(a, p)' /\ ShareStep(a, p)
                          /\ row[p] = None /\ Untouched(a, p) => Untouched(a, p)'
                          /\ (\E h \in Hashes : OneVersion(p, h))'
  PROVE  Once'
<1> SUFFICES ASSUME NEW p \in Paths PROVE AtServer(p)' /\ \A c \in Clients : OfClient(c, p)'
  BY DEF Once
<1>0. /\ AtServer(p) /\ ShareStep(a, p) /\ OfClient(a, p)'
      /\ row[p] = None /\ Untouched(a, p) => Untouched(a, p)'
      /\ (\E h \in Hashes : OneVersion(p, h))'
  BY DEF Once
<1>1. ASSUME NEW d \in Clients \ {a}
      PROVE  OfClient(d, p)' /\ (Untouched(d, p) => Untouched(d, p)')
  <2>1. \/ row'[p] = row[p]
        \/ row[p] # None /\ Tomb(row'[p])
        \/ row[p] = None /\ Untouched(d, p)
    BY <1>0 DEF ShareStep, AtServer
  <2>2. OfClient(d, p) /\ Unmoved(d) /\ (disk[p] # None => disk'[p] # None)
    BY <1>0 DEF Once, ShareStep
  <2> QED BY <2>1, <2>2, UnmovedClient
<1>2. ASSUME row'[p] = None, NEW c \in Clients, NEW d \in Clients, c # d
      PROVE  Untouched(c, p)' \/ Untouched(d, p)'
  <2>1. row[p] = None
    BY <1>0, <1>2 DEF ShareStep, Tomb
  <2>2. Untouched(c, p) \/ Untouched(d, p)
    BY <1>0, <1>2, <2>1 DEF AtServer
  <2> QED BY <1>0, <1>1, <2>1, <2>2
<1>3. AtServer(p)'
  BY <1>0, <1>2 DEF AtServer, ShareStep
<1> QED BY <1>0, <1>1, <1>3

LEMMA VersionStep ==
  ASSUME NEW a \in Clients, NEW p \in Paths, NEW h \in Hashes, OneVersion(p, h),
         disk'[p] \in {None, h}, HashOf(row'[p]) \in {None, h}, VersionAt(a, p, h)',
         \A d \in Clients \ {a} : Unmoved(d)
  PROVE  (\E v \in Hashes : OneVersion(p, v))'
<1>1. ASSUME NEW d \in Clients \ {a} PROVE VersionAt(d, p, h)'
  BY <1>1 DEF OneVersion, VersionAt, Unmoved, Receiving
<1> QED BY <1>1 DEF OneVersion

LEMMA InitOnce ==
  ASSUME Init PROVE Once
<1>1. {} \in Hashes
  BY ShareAssumption
<1> QED BY <1>1 DEF Init, Once, AtServer, OneVersion, VersionAt, OfClient, AtClient, InResponse,
       InExchange, Untouched, NoFiles, NoResp, NoPlan, HashOf, Present, Tomb, Sending, Receiving

\* A fresh path is one no client has anything to do with.
LEMMA FreshUntouched ==
  ASSUME TInv, Once, NEW p \in Paths, Fresh(p), NEW c \in Clients
  PROVE  Untouched(c, p)
<1>1. AtClient(c, p) /\ InResponse(c, p) /\ InExchange(c, p)
  BY DEF Once, OfClient
<1>2. local[c][p] = None /\ bin[c][p] = None /\ baseline[c][p] = None /\ row[p] = None
  BY DEF Fresh
<1>3. p \notin deletes[c] /\ snap[c][p] = None
  BY <1>1, <1>2 DEF AtClient, InExchange
<1>4. ~Sending(c, p) /\ p \notin resp[c].del /\ resp[c].down[p] = None
  BY <1>1, <1>2 DEF InResponse, Present
<1>5. plan[c][p].srv = None
  <2>1. CASE pc[c] \in {"planned", "tombstoned"}
    BY <1>1, <1>2, <2>1 DEF InExchange
  <2>2. CASE pc[c] \notin {"planned", "tombstoned"}
    BY <2>2 DEF TInv, PlanOK, NoPlan
  <2> QED BY <2>1, <2>2
<1> QED BY <1>2, <1>3, <1>4, <1>5 DEF Untouched

LEMMA UserOnce ==
  ASSUME Readers, WrittenOnce, TInv, Once, NEW a \in Clients, User(a)
  PROVE  Once'
<1> USE DEF serverVars, clientVars, cycleVars, history
<1>0. TypeOK
  BY DEF TInv
<1>1. ASSUME NEW q \in Paths, NEW e \in Edits, UserEdit(a, q, e) PROVE Once'
  <2>1. Fresh(q) /\ \A c \in Clients : Untouched(c, q)
    BY <1>1, FreshUntouched DEF WrittenOnce
  <2>2. /\ \A p \in Paths : local'[a][p] = IF p = q THEN {e} ELSE local[a][p]
        /\ deletes'[a] = deletes[a] \ {q} /\ {e} \in Hashes /\ {e} # None
        /\ UNCHANGED <<serverVars, cycleVars, bin, claims>>
        /\ \A d \in Clients \ {a} : local'[d] = local[d] /\ deletes'[d] = deletes[d]
    <3>1. With(local[a][q], e) = {e}
      BY <2>1 DEF With, Untouched
    <3> QED BY <1>0, <1>1, <3>1, ShareAssumption DEF UserEdit, TypeOK
  <2>3. \A d \in Clients \ {a} : Unmoved(d)
    BY <2>2 DEF Unmoved
  <2>4. ASSUME NEW p \in Paths
        PROVE  /\ OfClient(a, p)' /\ ShareStep(a, p)
               /\ p # q => (Untouched(a, p) => Untouched(a, p)')
               /\ (\E h \in Hashes : OneVersion(p, h))'
    <3>0. /\ AtServer(p) /\ AtClient(a, p) /\ InResponse(a, p) /\ InExchange(a, p)
          /\ ClientMeta(a, p)' = ClientMeta(a, p) /\ (p \in Buries(a)' <=> p \in Buries(a))
      BY <2>2 DEF Once, OfClient, ClientMeta, Buries, Planned
    <3>1. ShareStep(a, p)
      BY <2>2, <3>0 DEF ShareStep, AtServer
    <3>2. CASE p # q
      <4>1. local'[a][p] = local[a][p] /\ (p \in deletes'[a] <=> p \in deletes[a])
        BY <2>2, <3>2
      <4>2. OfClient(a, p)'
        BY <2>2, <3>0, <4>1 DEF OfClient, AtClient, InResponse, InExchange, Sending, Receiving
      <4>3. Untouched(a, p) => Untouched(a, p)'
        BY <2>2, <4>1 DEF Untouched, Sending, Receiving
      <4>4. PICK h \in Hashes : OneVersion(p, h)
        BY <3>0 DEF AtServer
      <4>5. VersionAt(a, p, h)' /\ disk'[p] \in {None, h} /\ HashOf(row'[p]) \in {None, h}
        BY <2>2, <4>1, <4>4 DEF OneVersion, VersionAt, Receiving
      <4>6. (\E v \in Hashes : OneVersion(p, v))'
        BY <2>3, <4>4, <4>5, VersionStep
      <4> QED BY <3>1, <4>2, <4>3, <4>6
    <3>3. CASE p = q
      <4>1. Untouched(a, p) /\ Fresh(p)
        BY <2>1, <3>3
      <4>2. AtClient(a, p)'
        BY <2>2, <3>0, <3>3, <4>1 DEF AtClient, Untouched, Fresh, Present, Tomb
      <4>3. InResponse(a, p)'
        BY <2>2, <3>0, <4>1 DEF InResponse, Untouched, Sending, Receiving
      <4>4. InExchange(a, p)'
        BY <2>2, <3>0, <4>1 DEF InExchange, Untouched, Fresh
      <4>5. OneVersion(p, {e})'
        <5>1. ASSUME NEW c \in Clients PROVE VersionAt(c, p, {e})'
          <6>1. Untouched(c, p) /\ local'[c][p] \in {None, {e}}
            BY <2>1, <2>2, <3>3 DEF Untouched
          <6> QED BY <2>2, <6>1 DEF VersionAt, Untouched, HashOf, Sending, Receiving
        <5> QED BY <2>2, <4>1, <5>1 DEF OneVersion, Fresh, HashOf
      <4> QED BY <2>2, <3>1, <3>3, <4>2, <4>3, <4>4, <4>5 DEF OfClient
    <3> QED BY <3>2, <3>3
  <2>5. AtServer(q)'
    <3>1. ASSUME NEW c \in Clients \ {a} PROVE Untouched(c, q)'
      BY <2>1, <2>2 DEF Untouched, Sending, Receiving
    <3> QED BY <2>1, <2>2, <2>4, <3>1 DEF AtServer, Fresh
  <2>6. ASSUME NEW p \in Paths, p # q PROVE AtServer(p)'
    <3>1. ASSUME NEW c \in Clients PROVE Untouched(c, p) => Untouched(c, p)'
      BY <2>2, <2>4, <2>6 DEF Untouched, Sending, Receiving
    <3>2. AtServer(p)
      BY DEF Once
    <3> QED BY <2>2, <2>4, <3>1, <3>2 DEF AtServer
  <2>7. ASSUME NEW p \in Paths, NEW c \in Clients \ {a} PROVE OfClient(c, p)'
    BY <2>2, <2>3, UnmovedClient DEF Once
  <2> QED BY <2>4, <2>5, <2>6, <2>7 DEF Once
<1>2. ASSUME NEW q \in Paths, UserDelete(a, q) PROVE Once'
  <2>1. /\ \A p \in Paths : local'[a][p] = IF p = q THEN None ELSE local[a][p]
        /\ \A p \in Paths : bin'[a][p] = IF p = q THEN local[a][q] ELSE bin[a][p]
        /\ deletes'[a] = deletes[a] \cup {q} /\ local[a][q] # None
        /\ UNCHANGED <<serverVars, cycleVars, claims>>
        /\ \A d \in Clients \ {a} :
             local'[d] = local[d] /\ deletes'[d] = deletes[d] /\ bin'[d] = bin[d]
    BY <1>0, <1>2 DEF UserDelete, TypeOK
  <2>2. \A d \in Clients \ {a} : Unmoved(d)
    BY <2>1 DEF Unmoved
  <2>3. ASSUME NEW p \in Paths
        PROVE  /\ OfClient(a, p)' /\ ShareStep(a, p)
               /\ row[p] = None /\ Untouched(a, p) => Untouched(a, p)'
               /\ (\E h \in Hashes : OneVersion(p, h))'
    <3>0. /\ AtServer(p) /\ AtClient(a, p) /\ InResponse(a, p) /\ InExchange(a, p)
          /\ ClientMeta(a, p)' = ClientMeta(a, p) /\ (p \in Buries(a)' <=> p \in Buries(a))
      BY <2>1 DEF Once, OfClient, ClientMeta, Buries, Planned
    <3>1. ShareStep(a, p)
      BY <2>1, <3>0 DEF ShareStep, AtServer
    <3>2. AtClient(a, p)'
      BY <2>1, <3>0 DEF AtClient
    <3>3. InResponse(a, p)'
      BY <2>1, <3>0 DEF InResponse, Sending, Receiving
    <3>4. InExchange(a, p)'
      BY <2>1, <3>0 DEF InExchange
    <3>5. Untouched(a, p) => Untouched(a, p)'
      BY <2>1 DEF Untouched, Sending, Receiving
    <3>6. PICK h \in Hashes : OneVersion(p, h)
      BY <3>0 DEF AtServer
    <3>7. VersionAt(a, p, h)' /\ disk'[p] \in {None, h} /\ HashOf(row'[p]) \in {None, h}
      BY <2>1, <3>6 DEF OneVersion, VersionAt, Receiving
    <3>8. (\E v \in Hashes : OneVersion(p, v))'
      BY <2>2, <3>6, <3>7, VersionStep
    <3> QED BY <3>1, <3>2, <3>3, <3>4, <3>5, <3>8 DEF OfClient
  <2> QED BY <2>2, <2>3, OnceStep
<1>3. \A p \in Paths : ~UserUndelete(a, p)
  BY DEF UserUndelete, Readers
<1> QED BY <1>1, <1>2, <1>3 DEF User

\* The plan of one client is made of the rows as they are.
LEMMA PlanOnce ==
  ASSUME Readers, TInv, Once, NEW a \in Clients, ExchangePlan(a)
  PROVE  Once'
<1>0. TypeOK /\ pc[a] = "scanned" /\ pc'[a] = "planned"
  BY DEF TInv, ExchangePlan, TypeOK
<1>1. UNCHANGED <<row, disk, baseline, local, snap, resp, staged, held, bin, deletes, claims>>
  BY DEF ExchangePlan, clientVars, history
<1>2. ASSUME NEW p \in Paths
      PROVE  /\ plan'[a][p].act = ResolveOne(row[p], ClientMeta(a, p), baseline[a][p])
             /\ plan'[a][p].srv = row[p]
  BY <1>0 DEF ExchangePlan, TypeOK
<1>3. ASSUME NEW d \in Clients \ {a} PROVE Unmoved(d)
  BY <1>0, <1>1 DEF ExchangePlan, Unmoved, TypeOK
<1>4. ASSUME NEW p \in Paths
      PROVE  /\ OfClient(a, p)' /\ ShareStep(a, p)
             /\ row[p] = None /\ Untouched(a, p) => Untouched(a, p)'
             /\ (\E h \in Hashes : OneVersion(p, h))'
  <2>0. AtServer(p) /\ AtClient(a, p) /\ InResponse(a, p) /\ InExchange(a, p)
    BY DEF Once, OfClient
  <2>1. ClientMeta(a, p)' = ClientMeta(a, p)
    BY <1>1 DEF ClientMeta
  <2>2. PICK h \in Hashes : OneVersion(p, h)
    BY <2>0 DEF AtServer
  <2>3. ASSUME p \in Buries(a)' PROVE p \in claims[a]
    <3>1. /\ ResolveOne(row[p], ClientMeta(a, p), baseline[a][p]).action = "DeleteLocal"
          /\ Present(row[p])
      BY <1>2, <2>3 DEF Buries, Planned, Present
    <3>2. /\ row[p] \in MaybeMeta /\ ClientMeta(a, p) \in MaybeMeta
          /\ baseline[a][p] \in MaybeMeta
          /\ ClientMeta(a, p) = None <=> snap[a][p] = None
      BY <1>0, ClientMetaType DEF TypeOK
    <3>3. /\ HashOf(row[p]) \in {None, h} /\ HashOf(baseline[a][p]) \in {None, h}
          /\ HashOf(ClientMeta(a, p)) \in {None, h} /\ ~Tomb(ClientMeta(a, p))
      <4>1. snap[a][p] \in {None, h}
        BY <2>2 DEF OneVersion, VersionAt
      <4>2. HashOf(ClientMeta(a, p)) \in {None, h} /\ ~Tomb(ClientMeta(a, p))
        BY <4>1 DEF ClientMeta, Live, HashOf, Tomb
      <4> QED BY <2>2, <4>2 DEF OneVersion, VersionAt
    <3>4. /\ row[p] # None /\ ClientMeta(a, p) # None => baseline[a][p] # None
          /\ Tomb(baseline[a][p]) => Tomb(row[p]) /\ ClientMeta(a, p) = None
      BY <2>0, <3>2 DEF InExchange, AtClient
    <3>5. ClientMeta(a, p) = None /\ Present(baseline[a][p])
      <4> DEFINE l == row[p]
                 r == ClientMeta(a, p)
                 i == baseline[a][p]
      <4>1. /\ ResolveOne(l, r, i).action = "DeleteLocal" /\ Present(l)
            /\ l \in MaybeMeta /\ r \in MaybeMeta /\ i \in MaybeMeta
            /\ HashOf(l) \in {None, h} /\ HashOf(r) \in {None, h} /\ HashOf(i) \in {None, h}
            /\ ~Tomb(r) /\ (l # None /\ r # None => i # None)
            /\ Tomb(i) => Tomb(l) /\ r = None
        BY <3>1, <3>2, <3>3, <3>4
      <4>2. ResolveOne(l, r, i).action = "DeleteLocal" => r = None /\ Present(i)
        <5> HIDE DEF l, r, i
        <5> QED BY <4>1, OneVersionVerdict
      <4> QED BY <4>1, <4>2
    <3> QED BY <1>0, <2>0, <3>1, <3>2, <3>5 DEF InExchange
  <2>4. InExchange(a, p)'
    BY <1>0, <1>1, <1>2, <2>0, <2>1, <2>3 DEF InExchange, AtClient, Present, Tomb
  <2>5. AtClient(a, p)' /\ InResponse(a, p)'
    BY <1>0, <1>1, <2>0 DEF AtClient, InResponse, Sending, Receiving
  <2>6. row[p] = None /\ Untouched(a, p) => Untouched(a, p)'
    BY <1>1, <1>2 DEF Untouched, Sending, Receiving
  <2>7. VersionAt(a, p, h)' /\ disk'[p] \in {None, h} /\ HashOf(row'[p]) \in {None, h}
    BY <1>1, <1>2, <2>2 DEF OneVersion, VersionAt, Receiving
  <2>8. (\E v \in Hashes : OneVersion(p, v))'
    BY <1>3, <2>2, <2>7, VersionStep
  <2>9. ShareStep(a, p)
    BY <1>1, <2>0 DEF ShareStep, AtServer
  <2> QED BY <2>4, <2>5, <2>6, <2>8, <2>9 DEF OfClient
<1> QED BY <1>3, <1>4, OnceStep

\* A row is buried where another client may have buried it already.
LEMMA TombstoneOnce ==
  ASSUME Readers, TInv, Once, NEW a \in Clients, ExchangeTombstone(a)
  PROVE  Once'
<1>0. TypeOK /\ pc[a] = "planned" /\ pc'[a] = "tombstoned"
  BY DEF TInv, ExchangeTombstone, TypeOK
<1>1. UNCHANGED <<disk, baseline, local, snap, plan, resp, staged, held, bin, deletes, claims>>
  BY DEF ExchangeTombstone, clientVars, history
<1>2. ASSUME NEW d \in Clients \ {a} PROVE Unmoved(d)
  BY <1>0, <1>1 DEF ExchangeTombstone, Unmoved, TypeOK
<1>3. ASSUME NEW p \in Paths
      PROVE  /\ OfClient(a, p)' /\ ShareStep(a, p)
             /\ row[p] = None /\ Untouched(a, p) => Untouched(a, p)'
             /\ (\E h \in Hashes : OneVersion(p, h))'
  <2>0. AtServer(p) /\ AtClient(a, p) /\ InResponse(a, p) /\ InExchange(a, p)
    BY DEF Once, OfClient
  <2>1. ClientMeta(a, p)' = ClientMeta(a, p) /\ (p \in Buries(a)' <=> p \in Buries(a))
    BY <1>1 DEF ClientMeta, Buries, Planned
  <2>2. PICK h \in Hashes : OneVersion(p, h)
    BY <2>0 DEF AtServer
  <2>3. plan[a][p].srv \in MaybeMeta /\ row[p] \in MaybeMeta
    BY <1>0 DEF TypeOK, Verdict
  <2>4. p \in Buries(a) => /\ row[p] # None /\ Tomb(row'[p])
                           /\ HashOf(row'[p]) = HashOf(plan[a][p].srv)
    <3> SUFFICES ASSUME p \in Buries(a)
                 PROVE  /\ row[p] # None /\ Tomb(row'[p])
                        /\ HashOf(row'[p]) = HashOf(plan[a][p].srv)
      OBVIOUS
    <3>1. row'[p] = Buried(plan[a][p].srv) /\ plan[a][p].srv # None
      BY DEF ExchangeTombstone, Buries
    <3>2. plan[a][p].srv \in Meta
      BY <2>3, <3>1 DEF MaybeMeta
    <3>3. Tomb(row'[p]) /\ row'[p].hash = plan[a][p].srv.hash
      BY <3>1, <3>2, BuriedType DEF Buried, Meta
    <3> QED BY <1>0, <2>0, <3>1, <3>3 DEF InExchange, HashOf, Tomb
  <2>5. p \notin Buries(a) => row'[p] = row[p]
    BY DEF ExchangeTombstone
  <2>6. InExchange(a, p)'
    BY <1>0, <1>1, <2>0, <2>1, <2>4, <2>5 DEF InExchange, Present, Tomb
  <2>7. AtClient(a, p)'
    BY <1>0, <1>1, <2>0, <2>4, <2>5 DEF AtClient, Present, Tomb
  <2>8. InResponse(a, p)'
    BY <1>0, <1>1, <2>0, <2>4, <2>5 DEF InResponse, Sending, Receiving, Present, Tomb
  <2>9. Untouched(a, p) => Untouched(a, p)'
    BY <1>1 DEF Untouched, Sending, Receiving
  <2>10. VersionAt(a, p, h)' /\ disk'[p] \in {None, h} /\ HashOf(row'[p]) \in {None, h}
    BY <1>1, <2>2, <2>4, <2>5 DEF OneVersion, VersionAt, Receiving
  <2>11. (\E v \in Hashes : OneVersion(p, v))'
    BY <1>2, <2>2, <2>10, VersionStep
  <2>12. ShareStep(a, p)
    BY <1>1, <2>0, <2>4, <2>5 DEF ShareStep, AtServer
  <2> QED BY <2>6, <2>7, <2>8, <2>9, <2>11, <2>12 DEF OfClient
<1> QED BY <1>2, <1>3, OnceStep

LEMMA ScanOnce ==
  ASSUME Readers, TInv, Once, NEW a \in Clients, Scan(a)
  PROVE  Once'
<1>0. /\ TypeOK /\ pc[a] = "idle" /\ pc'[a] = "scanned"
      /\ snap'[a] = local[a] /\ claims'[a] = deletes[a]
  BY DEF TInv, Scan, TypeOK, Readers
<1>1. UNCHANGED <<row, disk, baseline, local, plan, resp, staged, held, bin, deletes>>
  BY DEF Scan, serverVars, clientVars
<1>2. ASSUME NEW d \in Clients \ {a} PROVE Unmoved(d)
  <2>1. snap'[d] = snap[d]
    BY <1>0 DEF Scan, TypeOK
  <2> QED BY <1>0, <1>1, <2>1 DEF Scan, Unmoved, TypeOK
<1>3. ASSUME NEW p \in Paths
      PROVE  /\ OfClient(a, p)' /\ ShareStep(a, p)
             /\ row[p] = None /\ Untouched(a, p) => Untouched(a, p)'
             /\ (\E h \in Hashes : OneVersion(p, h))'
  <2>0. AtServer(p) /\ AtClient(a, p) /\ InResponse(a, p) /\ InExchange(a, p)
    BY DEF Once, OfClient
  <2>1. InExchange(a, p)'
    BY <1>0, <1>1, <2>0 DEF InExchange, AtClient, InResponse
  <2>2. AtClient(a, p)' /\ InResponse(a, p)'
    BY <1>0, <1>1, <2>0 DEF AtClient, InResponse, Sending, Receiving
  <2>3. Untouched(a, p) => Untouched(a, p)'
    BY <1>0, <1>1 DEF Untouched, Sending, Receiving
  <2>4. PICK h \in Hashes : OneVersion(p, h)
    BY <2>0 DEF AtServer
  <2>5. VersionAt(a, p, h)' /\ disk'[p] \in {None, h} /\ HashOf(row'[p]) \in {None, h}
    BY <1>0, <1>1, <2>4 DEF OneVersion, VersionAt, Receiving
  <2>6. (\E v \in Hashes : OneVersion(p, v))'
    BY <1>2, <2>4, <2>5, VersionStep
  <2>7. ShareStep(a, p)
    BY <1>1, <2>0 DEF ShareStep, AtServer
  <2> QED BY <2>1, <2>2, <2>3, <2>6, <2>7 DEF OfClient
<1> QED BY <1>2, <1>3, OnceStep

\* The baseline written is that of the plan, which the row may have left.
LEMMA RespondOnce ==
  ASSUME Readers, TInv, Once, NEW a \in Clients, ExchangeRespond(a)
  PROVE  Once'
<1>0. /\ TypeOK /\ pc[a] = "tombstoned" /\ pc'[a] = "apply" /\ resp'[a] = Response(a)
      /\ deletes'[a] = deletes[a] \ claims[a] /\ snap'[a] = NoFiles /\ plan'[a] = NoPlan
      /\ UNCHANGED <<row, disk, local, bin, staged, held>>
  BY DEF TInv, ExchangeRespond, TypeOK, Readers, clientVars
<1>1. ASSUME NEW d \in Clients \ {a} PROVE Unmoved(d)
  <2>1. resp'[d] = resp[d] /\ pc'[d] = pc[d]
    BY <1>0 DEF ExchangeRespond, TypeOK
  <2> QED BY <1>0, <2>1 DEF ExchangeRespond, Unmoved, TypeOK
<1>2. ASSUME NEW p \in Paths
      PROVE  /\ OfClient(a, p)' /\ ShareStep(a, p)
             /\ row[p] = None /\ Untouched(a, p) => Untouched(a, p)'
             /\ (\E h \in Hashes : OneVersion(p, h))'
  <2> DEFINE act == plan[a][p].act.action
             srv == plan[a][p].srv
             cm  == ClientMeta(a, p)
             b   == baseline[a][p]
  <2>0. AtServer(p) /\ AtClient(a, p) /\ InResponse(a, p) /\ InExchange(a, p)
    BY DEF Once, OfClient
  <2>1. PICK h \in Hashes : OneVersion(p, h)
    BY <2>0 DEF AtServer
  <2>2. /\ srv \in MaybeMeta /\ cm \in MaybeMeta /\ b \in MaybeMeta
        /\ snap[a][p] \in MaybeHash
    BY <1>0, ClientMetaType DEF TypeOK, Verdict
  <2>3. /\ snap[a][p] # None => cm # None /\ Present(cm) /\ cm.hash = snap[a][p]
        /\ snap[a][p] = None => cm = None
        /\ ~Tomb(cm)
    BY <2>2, LiveType DEF ClientMeta, Live, Present, Tomb, MaybeHash
  <2>4. /\ HashOf(srv) \in {None, h} /\ HashOf(cm) \in {None, h} /\ HashOf(b) \in {None, h}
        /\ snap[a][p] \in {None, h}
    BY <2>1, <2>3 DEF OneVersion, VersionAt, HashOf
  <2>5. /\ srv # None => row[p] # None
        /\ Tomb(srv) => Tomb(row[p])
        /\ srv = None /\ row[p] # None => snap[a][p] = None /\ b = None
        /\ Tomb(b) => Tomb(srv) /\ snap[a][p] = None
        /\ snap[a][p] # None => /\ p \notin claims[a] /\ (local[a][p] = None => p \in deletes[a])
                                /\ row[p] # None => b # None
        /\ act = ResolveOne(srv, cm, b).action
        /\ act = "DeleteLocal" /\ Present(srv) => Tomb(row[p])
    BY <1>0, <2>0 DEF InExchange, Buries, Planned, Present
  <2>6. \/ act = "Upload" /\ Present(srv) /\ snap[a][p] = None /\ b = None
        \/ act = "Download" /\ srv = None /\ snap[a][p] # None /\ b = None
        \/ act = "Skip" /\ \/ srv = None /\ snap[a][p] = None
                           \/ Present(srv) /\ snap[a][p] # None /\ Present(b)
                           \/ Tomb(srv) /\ snap[a][p] = None /\ Tomb(b)
        \/ act = "DeleteLocal" /\ Present(srv) /\ snap[a][p] = None /\ Present(b)
        \/ act = "DeleteRemote" /\ \/ Tomb(srv) /\ ~Tomb(b)
                                   \/ srv = None /\ snap[a][p] # None /\ Present(b)
    <3> HIDE DEF act, srv, cm, b
    <3>1. /\ ~Tomb(cm) /\ (srv # None /\ cm # None => b # None)
          /\ Tomb(b) => Tomb(srv) /\ cm = None
          /\ cm = None <=> snap[a][p] = None
      BY <2>3, <2>5
    <3>2. \/ act = "Upload" /\ Present(srv) /\ cm = None /\ b = None
          \/ act = "Download" /\ srv = None /\ cm # None /\ b = None
          \/ act = "Skip" /\ \/ srv = None /\ cm = None
                             \/ Present(srv) /\ cm # None /\ Present(b)
                             \/ Tomb(srv) /\ cm = None /\ Tomb(b)
          \/ act = "DeleteLocal" /\ Present(srv) /\ cm = None /\ Present(b)
          \/ act = "DeleteRemote" /\ \/ Tomb(srv) /\ ~Tomb(b)
                                     \/ srv = None /\ cm # None /\ Present(b)
      BY <2>2, <2>4, <2>5, <3>1, OneVersionVerdict
    <3> QED BY <3>1, <3>2
  <2>7. srv # None => /\ Tomb(Buried(srv)) /\ Buried(srv).hash = srv.hash /\ Buried(srv) # None
                      /\ srv.hash = h
    <3>1. srv # None => srv \in Meta /\ srv.hash # None
      BY <2>2, ShareAssumption DEF MaybeMeta, Meta
    <3> QED BY <2>4, <3>1, BuriedType DEF Buried, Meta, Tomb, HashOf
  <2>8. baseline'[a][p] = PostSyncBaseline(a, p)
    BY <1>0 DEF ExchangeRespond, TypeOK
  <2>9. /\ act \in {"Upload", "Skip"} /\ srv # None => baseline'[a][p] = srv
        /\ act = "Download" => baseline'[a][p] = cm
        /\ act \in {"DeleteLocal", "DeleteRemote"} /\ srv # None => baseline'[a][p] = Buried(srv)
        /\ act \in {"Skip", "DeleteLocal", "DeleteRemote"} /\ srv = None => baseline'[a][p] = b
    BY <2>8 DEF PostSyncBaseline
  <2>10. /\ p \in resp'[a].up => act = "Download"
         /\ p \in resp'[a].del <=> act \in {"DeleteLocal", "DeleteRemote"}
         /\ resp'[a].conf[p] = None
         /\ resp'[a].down[p] = IF act = "Upload" THEN h ELSE None
    <3>1. p \notin Planned(a, "ConflictFork") /\ (p \in Planned(a, "Upload") <=> act = "Upload")
      BY <2>6 DEF Planned
    <3>2. Response(a).down[p] = IF act = "Upload" THEN DownloadMeta(a, p).hash ELSE None
      BY <3>1 DEF Response
    <3>3. act = "Upload" => DownloadMeta(a, p).hash = h
      BY <2>3, <2>6, <2>7 DEF DownloadMeta, Present
    <3>4. Response(a).conf[p] = None
      BY <3>1 DEF Response
    <3>5. /\ p \in Response(a).up => p \in Planned(a, "Download")
          /\ p \in Response(a).del <=>
               p \in Planned(a, "DeleteLocal") \cup Planned(a, "DeleteRemote")
      BY DEF Response
    <3> QED BY <1>0, <3>2, <3>3, <3>4, <3>5 DEF Planned
  <2>11. snap'[a][p] = None /\ plan'[a][p].srv = None /\ ~Receiving(a, p) /\ ~Receiving(a, p)'
    BY <1>0, <2>0 DEF NoFiles, NoPlan, InResponse, Sending, Receiving
  <2> HIDE DEF act, srv, cm, b
  <2>12. AtClient(a, p)'
    <3>1. p \in deletes'[a] => local'[a][p] = None /\ bin'[a][p] # None
      BY <1>0, <2>0 DEF AtClient
    <3>2. Tomb(baseline'[a][p]) =>
            Tomb(row'[p]) /\ (local'[a][p] # None => p \in resp'[a].del)
      BY <1>0, <2>0, <2>3, <2>5, <2>6, <2>7, <2>9, <2>10 DEF AtClient, Present, Tomb, b
    <3>3. local'[a][p] # None /\ row'[p] # None => baseline'[a][p] # None
      BY <1>0, <2>0, <2>3, <2>6, <2>7, <2>9 DEF AtClient, Present, Tomb, b
    <3>4. ASSUME Present(row'[p]), Present(baseline'[a][p]), local'[a][p] = None
          PROVE  p \in deletes'[a] \/ resp'[a].down[p] # None
      <4>1. act = "Upload" \/ (act = "Skip" /\ snap[a][p] # None)
        BY <1>0, <2>5, <2>6, <2>7, <2>9, <3>4 DEF Present, Tomb
      <4> QED BY <1>0, <2>5, <2>10, <3>4, <4>1, ShareAssumption
    <3> QED BY <1>0, <3>1, <3>2, <3>3, <3>4 DEF AtClient
  <2>13. InResponse(a, p)'
    <3>1. held'[a] = None /\ resp'[a].conf[p] = None
      BY <1>0, <2>0, <2>10 DEF InResponse
    <3>2. resp'[a].down[p] # None => /\ Present(baseline'[a][p]) /\ disk'[p] # None
                                     /\ p \notin resp'[a].up /\ p \notin resp'[a].del
      BY <1>0, <2>0, <2>5, <2>6, <2>9, <2>10 DEF AtServer, Present
    <3>3. p \in resp'[a].up => /\ row'[p] = None /\ Present(baseline'[a][p])
                               /\ p \notin resp'[a].del
                               /\ local'[a][p] = None => p \in deletes'[a]
      BY <1>0, <2>3, <2>5, <2>6, <2>9, <2>10
    <3>4. p \in resp'[a].del => ~Present(row'[p]) /\ baseline'[a][p] # None
      BY <1>0, <2>5, <2>6, <2>7, <2>9, <2>10 DEF Present, Tomb
    <3> QED BY <1>0, <2>11, <3>1, <3>2, <3>3, <3>4 DEF InResponse, Sending
  <2>14. InExchange(a, p)'
    BY <1>0, <2>11 DEF InExchange
  <2>15. Untouched(a, p) => Untouched(a, p)'
    <3> SUFFICES ASSUME Untouched(a, p) PROVE Untouched(a, p)'
      OBVIOUS
    <3>1. act = "Skip" /\ srv = None /\ b = None
      BY <2>6 DEF Untouched, Present, Tomb, srv, b
    <3> QED BY <1>0, <2>9, <2>10, <2>11, <3>1 DEF Untouched, Sending
  <2>16. VersionAt(a, p, h)'
    <3>1. HashOf(baseline'[a][p]) \in {None, h}
      BY <2>4, <2>6, <2>7, <2>9 DEF HashOf, Present, Tomb
    <3>2. HashOf(plan'[a][p].srv) = None
      BY <2>11 DEF HashOf
    <3> QED BY <1>0, <2>1, <2>10, <2>11, <3>1, <3>2 DEF OneVersion, VersionAt
  <2>17. (\E v \in Hashes : OneVersion(p, v))'
    <3>1. disk'[p] \in {None, h} /\ HashOf(row'[p]) \in {None, h}
      BY <1>0, <2>1 DEF OneVersion
    <3> QED BY <1>1, <2>1, <2>16, <3>1, VersionStep
  <2>18. ShareStep(a, p)
    BY <1>0, <2>0 DEF ShareStep, AtServer
  <2> QED BY <2>12, <2>13, <2>14, <2>15, <2>17, <2>18 DEF OfClient
<1> QED BY <1>1, <1>2, OnceStep

\* The first half of an upload gives the share the only version there is.
LEMMA UploadBytesOnce ==
  ASSUME Readers, TInv, Once, NEW a \in Clients, NEW q \in Paths, UploadBytes(a, q)
  PROVE  Once'
<1>0. /\ TypeOK /\ pc[a] = "apply" /\ staged[a] = None /\ q \in resp[a].up
      /\ local[a][q] \in Hashes /\ local[a][q] # None
  BY DEF TInv, UploadBytes, Uploading, TypeOK, MaybeHash
<1>1. /\ disk' = [disk EXCEPT ![q] = local[a][q]]
      /\ staged' = [staged EXCEPT ![a] = [path |-> q, bytes |-> local[a][q]]]
      /\ resp' = [resp EXCEPT ![a].up = @ \ {q}]
      /\ UNCHANGED <<local, row, baseline, pc, snap, plan, held, bin, deletes, claims>>
  BY DEF UploadBytes, clientVars, history
<1>2. /\ \A p \in Paths : disk'[p] = IF p = q THEN local[a][q] ELSE disk[p]
      /\ staged'[a] = [path |-> q, bytes |-> local[a][q]] /\ staged'[a] # None
      /\ resp'[a].up = resp[a].up \ {q} /\ resp'[a].down = resp[a].down
      /\ resp'[a].del = resp[a].del /\ resp'[a].conf = resp[a].conf
  <2>1. staged'[a] # None
    BY <1>0, <1>1, ShareAssumption DEF TypeOK
  <2> QED BY <1>0, <1>1, <2>1 DEF TypeOK, Pending
<1>3. ASSUME NEW d \in Clients \ {a} PROVE Unmoved(d)
  BY <1>0, <1>1 DEF Unmoved, TypeOK
<1>4. ASSUME NEW p \in Paths
      PROVE  /\ OfClient(a, p)' /\ ShareStep(a, p)
             /\ row[p] = None /\ Untouched(a, p) => Untouched(a, p)'
             /\ (\E h \in Hashes : OneVersion(p, h))'
  <2>0. AtServer(p) /\ AtClient(a, p) /\ InResponse(a, p) /\ InExchange(a, p)
    BY DEF Once, OfClient
  <2>1. /\ Receiving(a, p)' <=> p = q
        /\ ~Receiving(a, p) /\ (Sending(a, p)' <=> Sending(a, p))
    BY <1>0, <1>2 DEF Sending, Receiving
  <2>2. AtClient(a, p)'
    BY <1>1, <1>2, <2>0 DEF AtClient
  <2>3. InResponse(a, p)'
    BY <1>0, <1>1, <1>2, <2>0, <2>1 DEF InResponse
  <2>4. InExchange(a, p)'
    BY <1>0, <1>1, <2>0 DEF InExchange
  <2>5. Untouched(a, p) => Untouched(a, p)'
    BY <1>1, <1>2, <2>1 DEF Untouched
  <2>6. PICK h \in Hashes : OneVersion(p, h)
    BY <2>0 DEF AtServer
  <2>7. VersionAt(a, p, h)' /\ disk'[p] \in {None, h} /\ HashOf(row'[p]) \in {None, h}
    BY <1>0, <1>1, <1>2, <2>1, <2>6 DEF OneVersion, VersionAt
  <2>8. (\E v \in Hashes : OneVersion(p, v))'
    BY <1>3, <2>6, <2>7, VersionStep
  <2>9. ShareStep(a, p)
    BY <1>0, <1>1, <1>2, <2>0 DEF ShareStep, AtServer
  <2> QED BY <2>2, <2>3, <2>4, <2>5, <2>8, <2>9 DEF OfClient
<1> QED BY <1>3, <1>4, OnceStep

\* The second half creates the row, or fails to.
LEMMA UploadRowOnce ==
  ASSUME Readers, TInv, Once, NEW a \in Clients, UploadRow(a)
  PROVE  Once'
<1> DEFINE q == staged[a].path
           m == UploadedMeta(staged[a].bytes)
<1>0. /\ TypeOK /\ q \in Paths /\ staged[a].bytes \in Hashes /\ staged[a] # None
      /\ Receiving(a, q) /\ staged'[a] = None
      /\ row' = [row EXCEPT ![q] = m] \/ row' = row
      /\ UNCHANGED <<disk, local, baseline, pc, snap, plan, resp, held, bin, deletes, claims>>
  BY DEF TInv, UploadRow, TypeOK, clientVars, history, Receiving
<1>1. m # None /\ Present(m) /\ HashOf(m) = staged[a].bytes
  BY <1>0, LiveType, NoneAssumption DEF UploadedMeta, Present, HashOf
<1>2. pc[a] = "apply" /\ row[q] = None /\ disk[q] # None /\ ~Untouched(a, q)
  BY <1>0 DEF Once, OfClient, InResponse, Sending, Untouched
<1>3. ASSUME NEW d \in Clients \ {a} PROVE Unmoved(d)
  BY <1>0 DEF UploadRow, Unmoved, TypeOK
<1>4. ASSUME NEW p \in Paths
      PROVE  /\ p # q => row'[p] = row[p] /\ ~Receiving(a, p)
             /\ p = q => row'[p] \in {None, m}
  BY <1>0, <1>2, <1>4 DEF TypeOK, Receiving
<1> HIDE DEF q, m
<1>5. ASSUME NEW p \in Paths
      PROVE  /\ OfClient(a, p)' /\ ShareStep(a, p)
             /\ row[p] = None /\ Untouched(a, p) => Untouched(a, p)'
             /\ (\E h \in Hashes : OneVersion(p, h))'
  <2>0. AtServer(p) /\ AtClient(a, p) /\ InResponse(a, p) /\ InExchange(a, p)
    BY DEF Once, OfClient
  <2>1. /\ ~Receiving(a, p)' /\ (Sending(a, p)' => Sending(a, p))
        /\ ~Sending(a, p) => ~Sending(a, p)'
    BY <1>0 DEF Sending, Receiving
  <2>2. PICK h \in Hashes : OneVersion(p, h)
    BY <2>0 DEF AtServer
  <2>3. InExchange(a, p)'
    BY <1>0, <1>2, <2>0 DEF InExchange
  <2>4. Untouched(a, p) => Untouched(a, p)'
    BY <1>0, <2>1 DEF Untouched
  <2>5. CASE p # q
    <3>1. row'[p] = row[p]
      BY <1>4, <2>5
    <3>2. AtClient(a, p)'
      BY <1>0, <2>0, <3>1 DEF AtClient
    <3>3. InResponse(a, p)'
      BY <1>0, <2>0, <2>1, <3>1 DEF InResponse
    <3>4. VersionAt(a, p, h)' /\ disk'[p] \in {None, h} /\ HashOf(row'[p]) \in {None, h}
      BY <1>0, <2>1, <2>2, <3>1 DEF OneVersion, VersionAt
    <3>5. ShareStep(a, p)
      BY <1>0, <2>0, <3>1 DEF ShareStep, AtServer
    <3> QED BY <1>3, <2>2, <2>3, <2>4, <3>2, <3>3, <3>4, <3>5, VersionStep DEF OfClient
  <2>6. CASE p = q
    <3>0. Sending(a, p) /\ staged[a].bytes = h /\ ~Untouched(a, p) /\ p \notin resp[a].up
      BY <1>0, <1>2, <2>0, <2>2, <2>6 DEF Sending, InResponse, OneVersion, VersionAt
    <3>1. row'[p] \in {None, m} /\ row[p] = None /\ disk[p] # None
      BY <1>2, <1>4, <2>6
    <3>2. AtClient(a, p)'
      BY <1>0, <1>1, <2>0, <3>0, <3>1 DEF AtClient, InResponse, Present, Tomb
    <3>3. InResponse(a, p)'
      BY <1>0, <2>0, <2>1, <3>0, <3>1 DEF InResponse, Sending, Receiving
    <3>4. VersionAt(a, p, h)' /\ disk'[p] \in {None, h} /\ HashOf(row'[p]) \in {None, h}
      BY <1>0, <1>1, <2>1, <2>2, <3>0, <3>1 DEF OneVersion, VersionAt, HashOf
    <3>5. ShareStep(a, p)
      BY <1>0, <3>0, <3>1 DEF ShareStep
    <3> QED BY <1>3, <2>2, <2>3, <2>4, <3>2, <3>3, <3>4, <3>5, VersionStep DEF OfClient
  <2> QED BY <2>5, <2>6
<1> QED BY <1>3, <1>5, OnceStep

LEMMA DownloadOnce ==
  ASSUME Readers, TInv, Once, NEW a \in Clients, NEW q \in Paths, DownloadInstalled(a, q)
  PROVE  Once'
<1>0. /\ TypeOK /\ pc[a] = "apply" /\ disk[q] # None /\ resp[a].down[q] # None
      /\ UNCHANGED <<row, disk, baseline, pc, snap, plan, staged, held, bin, claims>>
  BY DEF TInv, DownloadInstalled, Downloading, Uploading, serverVars
<1>1. /\ \A p \in Paths : local'[a][p] = IF p = q THEN disk[q] ELSE local[a][p]
      /\ deletes'[a] = deletes[a] \ {q}
  BY <1>0 DEF DownloadInstalled, TypeOK
<1>2. /\ \A p \in Paths : resp'[a].down[p] = IF p = q THEN None ELSE resp[a].down[p]
      /\ resp'[a].up = resp[a].up /\ resp'[a].del = resp[a].del
      /\ resp'[a].conf = resp[a].conf
  <2>1. resp[a] \in Pending /\ resp \in [Clients -> Pending]
    BY <1>0 DEF TypeOK
  <2> QED BY <2>1 DEF DownloadInstalled, Pending
<1>3. ASSUME NEW d \in Clients \ {a} PROVE Unmoved(d)
  BY <1>0 DEF DownloadInstalled, Unmoved, TypeOK
<1>4. ASSUME NEW p \in Paths
      PROVE  /\ OfClient(a, p)' /\ ShareStep(a, p)
             /\ row[p] = None /\ Untouched(a, p) => Untouched(a, p)'
             /\ (\E h \in Hashes : OneVersion(p, h))'
  <2>0. AtServer(p) /\ AtClient(a, p) /\ InResponse(a, p) /\ InExchange(a, p)
    BY DEF Once, OfClient
  <2>1. /\ Receiving(a, p)' <=> Receiving(a, p)
        /\ Sending(a, p)' <=> Sending(a, p)
    BY <1>0, <1>2 DEF Sending, Receiving
  <2>2. AtClient(a, p)'
    BY <1>0, <1>1, <1>2, <2>0 DEF AtClient, InResponse, Present, Tomb
  <2>3. InResponse(a, p)'
    BY <1>0, <1>1, <1>2, <2>0, <2>1 DEF InResponse
  <2>4. InExchange(a, p)'
    BY <1>0, <2>0 DEF InExchange
  <2>5. Untouched(a, p) => Untouched(a, p)'
    BY <1>0, <1>1, <1>2, <2>1 DEF Untouched
  <2>6. PICK h \in Hashes : OneVersion(p, h)
    BY <2>0 DEF AtServer
  <2>7. VersionAt(a, p, h)' /\ disk'[p] \in {None, h} /\ HashOf(row'[p]) \in {None, h}
    BY <1>0, <1>1, <1>2, <2>1, <2>6 DEF OneVersion, VersionAt
  <2>8. (\E v \in Hashes : OneVersion(p, v))'
    BY <1>3, <2>6, <2>7, VersionStep
  <2>9. ShareStep(a, p)
    BY <1>0, <2>0 DEF ShareStep, AtServer
  <2> QED BY <2>2, <2>3, <2>4, <2>5, <2>8, <2>9 DEF OfClient
<1> QED BY <1>3, <1>4, OnceStep

\* An entry that is skipped, a deletion applied, and the end of the cycle.
LEMMA SettleOnce ==
  ASSUME Readers, TInv, Once, NEW a \in Clients, NEW q \in Paths,
         UploadSkipped(a, q) \/ DeleteApply(a, q) \/ FinishCycle(a)
  PROVE  Once'
<1>0. /\ TypeOK /\ pc[a] = "apply" /\ pc'[a] \in {"apply", "idle"} /\ staged[a] = None
      /\ UNCHANGED <<row, disk, baseline, snap, plan, staged, held, bin, deletes, claims>>
  BY DEF TInv, TypeOK, UploadSkipped, DeleteApply, FinishCycle, Deleting, Resolving, Downloading,
         Uploading, serverVars, history
<1>1. /\ resp'[a].down = resp[a].down /\ resp'[a].conf = resp[a].conf
      /\ resp'[a].up \subseteq resp[a].up /\ resp'[a].del \subseteq resp[a].del
      /\ \A d \in Clients \ {a} : resp'[d] = resp[d]
  <2>0. resp[a] \in Pending /\ resp \in [Clients -> Pending]
    BY <1>0 DEF TypeOK
  <2>1. CASE resp' = [resp EXCEPT ![a].up = @ \ {q}]
    BY <2>0, <2>1 DEF Pending
  <2>2. CASE resp' = [resp EXCEPT ![a].del = @ \ {q}]
    BY <2>0, <2>2 DEF Pending
  <2>3. CASE resp' = resp
    BY <2>3
  <2> QED BY <2>1, <2>2, <2>3 DEF UploadSkipped, DeleteApply, FinishCycle
<1>2. /\ \/ local' = local
         \/ /\ q \in resp[a].del
            /\ \A p \in Paths : local'[a][p] = IF p = q THEN None ELSE local[a][p]
      /\ \A d \in Clients \ {a} : local'[d] = local[d]
  BY <1>0 DEF UploadSkipped, DeleteApply, FinishCycle, TypeOK, clientVars
<1>3. pc'[a] = "idle" => /\ local' = local /\ resp[a].up = {} /\ resp[a].del = {}
                         /\ \A p \in Paths : resp[a].down[p] = None
  BY <1>0 DEF UploadSkipped, DeleteApply, FinishCycle, Deleting, Resolving, Downloading,
              clientVars, NoFiles
<1>4. ASSUME NEW p \in Paths, p \in resp[a].del, p \notin resp'[a].del PROVE local'[a][p] = None
  <2>0. resp[a] \in Pending /\ resp \in [Clients -> Pending]
    BY <1>0 DEF TypeOK
  <2>1. DeleteApply(a, q) /\ p = q
    BY <1>4, <2>0 DEF UploadSkipped, DeleteApply, FinishCycle, Pending
  <2> QED BY <1>0, <2>1 DEF DeleteApply, TypeOK
<1>5. ASSUME NEW d \in Clients \ {a} PROVE Unmoved(d)
  <2>1. pc'[d] = pc[d]
    BY <1>0 DEF UploadSkipped, DeleteApply, FinishCycle, TypeOK
  <2> QED BY <1>0, <1>1, <1>2, <2>1 DEF Unmoved
<1>6. ASSUME NEW p \in Paths
      PROVE  /\ OfClient(a, p)' /\ ShareStep(a, p)
             /\ row[p] = None /\ Untouched(a, p) => Untouched(a, p)'
             /\ (\E h \in Hashes : OneVersion(p, h))'
  <2>0. AtServer(p) /\ AtClient(a, p) /\ InResponse(a, p) /\ InExchange(a, p)
    BY DEF Once, OfClient
  <2>1. ~Receiving(a, p) /\ ~Receiving(a, p)' /\ (Sending(a, p)' => Sending(a, p))
    BY <1>0, <1>1 DEF Sending, Receiving
  <2>2. AtClient(a, p)'
    BY <1>0, <1>1, <1>2, <1>3, <1>4, <2>0 DEF AtClient, InResponse
  <2>3. InResponse(a, p)'
    <3>1. Sending(a, p)' => p \in resp'[a].up
      BY <2>1 DEF Sending
    <3> QED BY <1>0, <1>1, <1>2, <1>3, <2>0, <2>1, <3>1 DEF InResponse
  <2>4. InExchange(a, p)'
    BY <1>0, <2>0 DEF InExchange
  <2>5. Untouched(a, p) => Untouched(a, p)'
    BY <1>0, <1>1, <1>2, <2>1 DEF Untouched
  <2>6. PICK h \in Hashes : OneVersion(p, h)
    BY <2>0 DEF AtServer
  <2>7. VersionAt(a, p, h)' /\ disk'[p] \in {None, h} /\ HashOf(row'[p]) \in {None, h}
    BY <1>0, <1>1, <1>2, <2>1, <2>6 DEF OneVersion, VersionAt
  <2>8. (\E v \in Hashes : OneVersion(p, v))'
    BY <1>5, <2>6, <2>7, VersionStep
  <2>9. ShareStep(a, p)
    BY <1>0, <2>0 DEF ShareStep, AtServer
  <2> QED BY <2>2, <2>3, <2>4, <2>5, <2>8, <2>9 DEF OfClient
<1> QED BY <1>5, <1>6, OnceStep

\* No download is refused and no conflict is ever found.
LEMMA ApplyOnce ==
  ASSUME Readers, TInv, Once, NEW a \in Clients, Apply(a)
  PROVE  Once'
<1>0. TypeOK
  BY DEF TInv
<1>1. ASSUME NEW q \in Paths
      PROVE  /\ held[a] = None /\ ~ConflictRead(a, q) /\ ~ConflictSkipped(a, q)
             /\ ~DeleteSkipped(a, q) /\ ~DownloadSkipped(a, q)
  <2>0. AtServer(q) /\ InResponse(a, q)
    BY DEF Once, OfClient
  <2>1. /\ held[a] = None /\ ~ConflictRead(a, q) /\ ~ConflictSkipped(a, q)
        /\ ~DeleteSkipped(a, q)
    BY <2>0 DEF InResponse, ConflictRead, ConflictSkipped, DeleteSkipped, Readers
  <2>2. PICK h \in Hashes : OneVersion(q, h)
    BY <2>0 DEF AtServer
  <2>3. ~DownloadSkipped(a, q)
    BY <2>0, <2>2 DEF DownloadSkipped, InResponse, OneVersion, VersionAt, Readers, WireHashMatches
  <2> QED BY <2>1, <2>3
<1>2. ~ConflictApply(a)
  BY <1>0, <1>1 DEF ConflictApply, TypeOK
<1>3. ASSUME FinishCycle(a), Paths = {} PROVE Once'
  BY <1>3 DEF Once
<1>4. ASSUME FinishCycle(a), Paths # {} PROVE Once'
  BY <1>4, SettleOnce
<1> QED BY <1>1, <1>2, <1>3, <1>4, UploadBytesOnce, UploadRowOnce, DownloadOnce, SettleOnce DEF Apply

LEMMA NextOnce ==
  ASSUME Readers, TInv, Once, [Next]_vars, [WrittenOnce]_vars
  PROVE  Once'
<1>1. CASE UNCHANGED vars
  <2>1. /\ \A c \in Clients, p \in Paths : ClientMeta(c, p)' = ClientMeta(c, p)
        /\ \A c \in Clients : Buries(c)' = Buries(c)
        /\ \A c \in Clients : Unmoved(c)
        /\ row' = row /\ disk' = disk
    BY <1>1 DEF vars, serverVars, clientVars, cycleVars, history, ClientMeta, Buries, Planned,
                Unmoved
  <2> QED BY <1>1 DEF vars, serverVars, clientVars, cycleVars, history, Once, AtServer, OneVersion,
       VersionAt, OfClient, AtClient, InResponse, InExchange, Untouched, Sending, Receiving,
       ClientMeta, Buries, Planned
<1>2. ~Host /\ ~Index /\ \A c \in Clients : ~Abandon(c)
  BY DEF Readers, Host, HostEdit, HostDelete, Abandon, Index, IndexEvent, FullReconcile
<1>3. ASSUME Next, WrittenOnce PROVE Once'
  BY <1>2, <1>3, UserOnce, ScanOnce, PlanOnce, TombstoneOnce, RespondOnce, ApplyOnce
     DEF Next, Exchange
<1> QED BY <1>1, <1>3

LEMMA OnceAuthority == Once => DeleteAuthority
BY DEF Once, OfClient, InExchange, DeleteAuthority, Buries, Planned

\* Spec => []DeleteAuthority for any number of clients, as long as every file is
\* written once: whatever is deleted, by whom and at which point of whose cycle,
\* and whichever upload, archiving or upsert fails, the server buries a live row
\* only for a deletion the client's user made and the server had not judged
\* (exchange_state, build_post_sync_baseline).
THEOREM WrittenOnceHoldsAuthority ==
  ASSUME Readers PROVE Spec /\ [][WrittenOnce]_vars => []DeleteAuthority
<1>1. Init => Once
  BY InitOnce
<1>2. TInv /\ Once /\ [Next]_vars /\ [WrittenOnce]_vars => Once'
  BY NextOnce
<1>3. Once => DeleteAuthority
  BY OnceAuthority
<1> QED BY <1>1, <1>2, <1>3, TInvInvariant, PTL DEF Spec

\* Under the same hypotheses an exchange buries the version it read, although the
\* row may have moved on under it: the tombstone race of exchange_state takes a
\* second edit of the path.
THEOREM WrittenOnceBuriesWhatItRead ==
  ASSUME Readers PROVE Spec /\ [][WrittenOnce]_vars => []BuriesWhatItRead
<1>1. Init => Once
  BY InitOnce
<1>2. TInv /\ Once /\ [Next]_vars /\ [WrittenOnce]_vars => Once'
  BY NextOnce
<1>3. TInv /\ Once => BuriesWhatItRead
  <2> SUFFICES ASSUME TInv, Once, NEW c \in Clients, NEW p \in Buries(c), row[p] # None
               PROVE  row[p].hash = plan[c][p].srv.hash
    BY DEF BuriesWhatItRead
  <2>1. p \in Paths /\ plan[c][p].srv # None
    BY DEF Buries, Planned
  <2>2. row[p] \in Meta /\ plan[c][p].srv \in Meta
    BY <2>1 DEF TInv, TypeOK, Verdict, MaybeMeta
  <2>3. row[p].hash # None /\ plan[c][p].srv.hash # None
    BY <2>2, ShareAssumption DEF Meta
  <2>4. PICK h \in Hashes : OneVersion(p, h)
    BY <2>1 DEF Once, AtServer
  <2> QED BY <2>1, <2>3, <2>4 DEF OneVersion, VersionAt, HashOf
<1> QED BY <1>1, <1>2, <1>3, TInvInvariant, PTL DEF Spec

-----------------------------------------------------------------------------
\* Until the first edit the share is empty.
Unwritten == (\A e \in Edits : author[e] = None) => \A p \in Paths : Fresh(p)

LEMMA NextUnwritten ==
  ASSUME Readers, TInv, Once, Unwritten, [Next]_vars
  PROVE  Unwritten'
<1>1. CASE UNCHANGED vars
  BY <1>1 DEF vars, serverVars, clientVars, cycleVars, history, Unwritten, Fresh
<1>2. ~Host /\ ~Index /\ \A c \in Clients : ~Abandon(c)
  BY DEF Readers, Host, HostEdit, HostDelete, Abandon, Index, IndexEvent, FullReconcile
<1>3. ASSUME NEW c \in Clients, User(c) \/ Exchange(c) \/ Apply(c),
             \A e \in Edits : author'[e] = None
      PROVE  \A p \in Paths : Fresh(p)'
  <2>0. TypeOK
    BY DEF TInv
  <2>1. ASSUME NEW p \in Paths, NEW e \in Edits PROVE ~UserEdit(c, p, e)
    BY <1>3, <2>0, ShareAssumption DEF UserEdit, TypeOK
  <2>2. author' = author
    BY <1>3, <2>1 DEF User, UserDelete, UserUndelete, Exchange, Scan, ExchangePlan,
          ExchangeTombstone, ExchangeRespond, Apply, UploadRow, ConflictApply, FinishCycle,
          UploadSkipped, UploadBytes, DownloadInstalled, DownloadSkipped, ConflictRead,
          ConflictSkipped, DeleteApply, DeleteSkipped, history
  <2>3. \A p \in Paths : Fresh(p) /\ Untouched(c, p)
    BY <1>3, <2>2, FreshUntouched DEF Unwritten
  <2>4. UNCHANGED <<disk, local, bin>>
    <3>1. CASE User(c)
      BY <2>1, <2>3, <3>1 DEF User, UserDelete, UserUndelete, Fresh, Readers
    <3>2. CASE Exchange(c)
      BY <3>2 DEF Exchange, Scan, ExchangePlan, ExchangeTombstone, ExchangeRespond, history,
                  clientVars, serverVars
    <3>3. CASE Apply(c)
      <4>1. ASSUME NEW p \in Paths
            PROVE  ~UploadBytes(c, p) /\ ~DownloadInstalled(c, p) /\ ~DeleteApply(c, p)
        BY <2>3 DEF UploadBytes, DownloadInstalled, DeleteApply, Untouched, Sending
      <4>2. ~ConflictApply(c)
        BY <2>0 DEF ConflictApply, Once, OfClient, InResponse, TypeOK
      <4> QED BY <3>3, <4>1, <4>2 DEF Apply, UploadRow, FinishCycle, UploadSkipped, DownloadSkipped,
            ConflictRead, ConflictSkipped, DeleteSkipped, history, clientVars, serverVars
    <3> QED BY <1>3, <3>1, <3>2, <3>3
  <2>5. ASSUME NEW p \in Paths PROVE row'[p] = None
    <3>1. p \notin Buries(c) /\ row[p] = None
      BY <2>3 DEF Untouched, Buries, Fresh
    <3>2. ~UploadRow(c)
      BY <2>0, <2>3 DEF UploadRow, Untouched, Sending, Receiving, TypeOK
    <3>3. row'[p] = row[p]
      <4>1. CASE User(c)
        BY <2>1, <4>1 DEF User, UserDelete, UserUndelete, serverVars
      <4>2. CASE Exchange(c)
        BY <3>1, <4>2 DEF Exchange, Scan, ExchangePlan, ExchangeTombstone, ExchangeRespond, serverVars
      <4>3. CASE Apply(c)
        BY <3>2, <4>3 DEF Apply, ConflictApply, FinishCycle, UploadSkipped, UploadBytes,
            DownloadInstalled, DownloadSkipped, ConflictRead, ConflictSkipped, DeleteApply,
            DeleteSkipped, serverVars
      <4> QED BY <1>3, <4>1, <4>2, <4>3
    <3> QED BY <3>1, <3>3
  <2>6. ASSUME NEW p \in Paths, NEW d \in Clients PROVE baseline'[d][p] = None
    <3>0. baseline[d][p] = None /\ plan[c][p].srv = None /\ snap[c][p] = None /\ baseline[c][p] = None
      BY <2>3 DEF Untouched, Fresh
    <3>1. CASE ExchangeRespond(c)
      <4>1. plan[c][p].act = ResolveOne(None, None, None)
        BY <3>0, <3>1 DEF Once, OfClient, InExchange, ExchangeRespond, ClientMeta
      <4>2. plan[c][p].act = Make("Skip")
        <5>1. None \in MaybeMeta
          BY DEF MaybeMeta
        <5> QED BY <4>1, <5>1, Trichotomy, ZenonT(60) DEF ResolveOne
      <4>3. PostSyncBaseline(c, p) = None
        BY <3>0, <4>2 DEF PostSyncBaseline, Make
      <4> QED BY <2>0, <3>0, <3>1, <4>3 DEF ExchangeRespond, TypeOK
    <3>2. CASE ~ExchangeRespond(c)
      <4>1. baseline' = baseline
        <5>1. CASE User(c)
          BY <2>1, <5>1 DEF User, UserDelete, UserUndelete, serverVars
        <5>2. CASE Exchange(c)
          BY <3>2, <5>2 DEF Exchange, Scan, ExchangePlan, ExchangeTombstone, serverVars
        <5>3. CASE Apply(c)
          BY <5>3 DEF Apply, UploadRow, ConflictApply, FinishCycle, UploadSkipped, UploadBytes,
              DownloadInstalled, DownloadSkipped, ConflictRead, ConflictSkipped, DeleteApply,
              DeleteSkipped, serverVars
        <5> QED BY <1>3, <5>1, <5>2, <5>3
      <4> QED BY <3>0, <4>1
    <3> QED BY <3>1, <3>2
  <2> QED BY <2>3, <2>4, <2>5, <2>6 DEF Fresh
<1> QED BY <1>1, <1>2, <1>3 DEF Next, Unwritten

\* Spec => []DeleteAuthority for one edit and any number of clients and paths:
\* where the first file is created, deleted, uploaded and downloaded while all
\* clients cycle, no deletion is invented.
THEOREM OneEditHoldsAuthority ==
  ASSUME Readers, NEW e, Edits = {e} PROVE Spec => []DeleteAuthority
<1>1. Init => Once /\ Unwritten
  BY InitOnce DEF Init, Unwritten, Fresh, NoFiles
<1>2. TInv /\ Unwritten => [WrittenOnce]_vars
  <2> SUFFICES ASSUME TInv, Unwritten PROVE WrittenOnce
    OBVIOUS
  <2> QED BY DEF WrittenOnce, UserEdit, Unwritten
<1>3. TInv /\ Once /\ Unwritten /\ [Next]_vars => Once' /\ Unwritten'
  BY <1>2, NextOnce, NextUnwritten
<1>4. Once => DeleteAuthority
  BY OnceAuthority
<1> QED BY <1>1, <1>3, <1>4, TInvInvariant, PTL DEF Spec
=============================================================================
