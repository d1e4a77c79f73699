--------------------------- MODULE ReconcilerEval ---------------------------
(***************************************************************************)
(* One evaluation of the reconciliation engine on one path: any triple of  *)
(* metadata the three snapshots may hold, and the decision resolve_one     *)
(* returns for it.  The properties say what a decision may never do,       *)
(* whatever the triple.                                                    *)
(***************************************************************************)
EXTENDS Reconciler_proofs

VARIABLES local, remote, indexed,   \* the three Option<&FileMeta> arguments
          decision                  \* the result, None before the call returns

vars == <<local, remote, indexed, decision>>

Init == /\ local \in MaybeMeta
        /\ remote \in MaybeMeta
        /\ indexed \in MaybeMeta
        /\ decision = None

\* ReconciliationEngine::reconcile on this path.
Reconcile == /\ decision = None
             /\ decision' = ResolveOne(local, remote, indexed)
             /\ UNCHANGED <<local, remote, indexed>>

Next == Reconcile
Spec == Init /\ [][Next]_vars

-----------------------------------------------------------------------------
Decided(actions) == decision # None /\ decision.action \in actions

\* The copy m is the version last synced, live or deleted since.
Synced(m) == indexed # None /\ m.hash = indexed.hash

\* The tree is total: no triple falls through to ReconcileError::Inconsistent,
\* which would fail the whole exchange of a share because of one path
\* (resolve_one, the Err at the end of the function).
Total ==
  /\ local \in MaybeMeta /\ remote \in MaybeMeta /\ indexed \in MaybeMeta
  /\ decision \in [action : ActionTypes, conflict : ConflictKinds] \cup {None}

\* A deletion is propagated only over content that the index already knew: the
\* surviving live copy, if there is one, is the version last synced, so no
\* edit made since then can be removed by a decision of the tree.
NoBlindDelete ==
  Decided({"DeleteLocal", "DeleteRemote"}) =>
    \A m \in {local, remote} : Present(m) => Synced(m)

\* Bytes are replaced silently only when that is safe: the overwritten live
\* copy equals the version last synced, or it is causally older than the copy
\* that replaces it, or the decision carries a conflict report.
NoSilentOverwrite ==
  LET Safe(loser, winner) ==
        \/ ~Present(loser)
        \/ Synced(loser)
        \/ Present(winner) /\ Compare(loser.clock, winner.clock) = "Before"
        \/ decision.conflict # "none"
  IN  /\ Decided({"Download"}) => Safe(local, remote)
      /\ Decided({"Upload"})   => Safe(remote, local)

\* A fork is reported only for two live copies that differ from each other and
\* from the version last synced: the user is never asked to resolve a conflict
\* that one of the two sides did not cause (Scenarios 3 and 8 of resolve_one).
ForkOnlyOnDivergence ==
  Decided({"ConflictFork"}) =>
    /\ Present(local) /\ Present(remote)
    /\ local.hash # remote.hash
    /\ ~Synced(local) /\ ~Synced(remote)

\* A decision of resolve_one neither loses an edit silently nor asks the user
\* about a conflict there is not: no blind deletion, no silent overwrite of a
\* version the other side has not seen, no fork without divergence.
DecisionSafe == NoBlindDelete /\ NoSilentOverwrite /\ ForkOnlyOnDivergence

-----------------------------------------------------------------------------
(***************************************************************************)
(* The properties of one evaluation of the tree, for every triple of       *)
(* metadata over any set of hashes and of nodes.                           *)
(***************************************************************************)

\* What is known of a decision: the tree computed it from this triple.
Computed ==
  /\ local \in MaybeMeta /\ remote \in MaybeMeta /\ indexed \in MaybeMeta
  /\ decision # None => decision = ResolveOne(local, remote, indexed)

LEMMA ComputedInvariant == Spec => []Computed
<1>1. Init => Computed
  BY DEF Init, Computed
<1>2. Computed /\ [Next]_vars => Computed'
  BY DEF Computed, Next, Reconcile, vars
<1> QED BY <1>1, <1>2, PTL DEF Spec

\* Spec => []Total: no triple of metadata makes the exchange of a share fail
\* with ReconcileError::Inconsistent.
THEOREM TreeIsTotal == Spec => []Total
<1>1. Computed => Total
  BY ResolveOneTotal DEF Computed, Total
<1> QED BY <1>1, ComputedInvariant, PTL

\* Spec => []NoBlindDelete: whatever the three snapshots hold, the tree never
\* deletes a live copy that changed since the last sync.
THEOREM TreeNeverDeletesBlindly == Spec => []NoBlindDelete
<1>1. Computed => NoBlindDelete
  BY DeleteArms DEF Computed, NoBlindDelete, Decided, Synced, HashesEq
<1> QED BY <1>1, ComputedInvariant, PTL

\* Spec => []NoSilentOverwrite: a live copy is replaced silently only if it is
\* the version last synced or causally older than what replaces it.
THEOREM TreeNeverOverwritesSilently == Spec => []NoSilentOverwrite
<1>1. ASSUME Computed PROVE NoSilentOverwrite
  <2> USE <1>1
  <2>1. Decided({"Download"}) /\ Present(local) =>
          \/ Synced(local) \/ decision.conflict # "none"
          \/ Present(remote) /\ Compare(local.clock, remote.clock) = "Before"
    BY DownloadArms DEF Computed, Decided, Synced, HashesEq, ClockCompare, Present
  <2>2. Decided({"Upload"}) /\ Present(remote) =>
          \/ Synced(remote) \/ decision.conflict # "none"
          \/ Present(local) /\ Compare(remote.clock, local.clock) = "Before"
    <3> SUFFICES ASSUME Decided({"Upload"}), Present(remote), Present(local),
                        Compare(local.clock, remote.clock) = "After"
                 PROVE  Compare(remote.clock, local.clock) = "Before"
      BY UploadArms DEF Computed, Decided, Synced, HashesEq, ClockCompare, Present
    <3>1. local.clock \in Clock /\ remote.clock \in Clock
      BY DEF Computed, Present, MaybeMeta, Meta
    <3> QED BY <3>1, CompareConverse
  <2> QED BY <2>1, <2>2 DEF NoSilentOverwrite
<1> QED BY <1>1, ComputedInvariant, PTL

\* Spec => []ForkOnlyOnDivergence: a conflict is reported only for two live
\* copies that both moved away from the last synced version and differ.
THEOREM TreeForksOnlyOnDivergence == Spec => []ForkOnlyOnDivergence
<1>1. Computed => ForkOnlyOnDivergence
  BY ForkArms DEF Computed, ForkOnlyOnDivergence, Decided, Synced, HashesEq, Present
<1> QED BY <1>1, ComputedInvariant, PTL

\* Spec => []DecisionSafe: the decision tree loses no edit silently and raises
\* no conflict without cause, whatever the three snapshots of a path hold.
THEOREM TreeIsSafe == Spec => []DecisionSafe
BY TreeNeverDeletesBlindly, TreeNeverOverwritesSilently, TreeForksOnlyOnDivergence, PTL
   DEF DecisionSafe
=============================================================================

