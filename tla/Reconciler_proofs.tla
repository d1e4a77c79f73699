-------------------------- MODULE Reconciler_proofs -------------------------
(***************************************************************************)
(* Facts about the operators of VectorClock and Reconciler, for any set of *)
(* hashes and of nodes: the algebra of the clocks, and what each kind of   *)
(* decision of the tree presupposes.                                       *)
(***************************************************************************)
EXTENDS Reconciler, TLAPS

USE DEF MaybeMeta, Meta

\* A record of the index is present, buried or absent, and never two of these.
LEMMA Trichotomy ==
  ASSUME NEW m \in MaybeMeta
  PROVE  /\ m = None \/ Present(m) \/ Tomb(m)
         /\ ~(Present(m) /\ Tomb(m))
         /\ m = None => ~Present(m) /\ ~Tomb(m)
BY DEF Present, Tomb

\* Comparing two clocks gives exactly one of the four orders.
LEMMA CompareTotal ==
  ASSUME NEW a, NEW b
  PROVE  Compare(a, b) \in {"Equal", "Before", "After", "Concurrent"}
BY DEF Compare

\* Two clocks that agree everywhere are the same clock.
LEMMA CompareEqual ==
  ASSUME NEW a \in Clock, NEW b \in Clock
  PROVE  Compare(a, b) = "Equal" <=> a = b
<1>1. Compare(a, b) = "Equal" <=> \A n \in Nodes : a[n] = b[n]
  BY MaxTickAssumption DEF Compare, Clock
<1>2. (\A n \in Nodes : a[n] = b[n]) <=> a = b
  BY DEF Clock
<1> QED BY <1>1, <1>2

\* compare is antisymmetric: one side's "Before" is the other side's "After".
LEMMA CompareConverse ==
  ASSUME NEW a \in Clock, NEW b \in Clock
  PROVE  Compare(a, b) = "Before" <=> Compare(b, a) = "After"
BY MaxTickAssumption DEF Compare, Clock

\* happens_before is a strict order: no clock is before itself, and it composes.
THEOREM HappensBeforeStrict ==
  ASSUME NEW a \in Clock, NEW b \in Clock, NEW c \in Clock
  PROVE  /\ ~HappensBefore(a, a)
         /\ HappensBefore(a, b) /\ HappensBefore(b, c) => HappensBefore(a, c)
<1> DEFINE Leq(x, y) == \A n \in Nodes : x[n] <= y[n]
<1>1. ASSUME NEW x \in Clock, NEW y \in Clock
      PROVE  HappensBefore(x, y) <=> Leq(x, y) /\ \E n \in Nodes : x[n] < y[n]
  BY MaxTickAssumption DEF HappensBefore, Compare, Clock
<1>2. ~HappensBefore(a, a)
  BY <1>1, MaxTickAssumption DEF Clock
<1>3. ASSUME HappensBefore(a, b), HappensBefore(b, c) PROVE HappensBefore(a, c)
  <2>1. Leq(a, b) /\ Leq(b, c) /\ \E n \in Nodes : a[n] < b[n]
    BY <1>1, <1>3
  <2>2. Leq(a, c) /\ \E n \in Nodes : a[n] < c[n]
    BY <2>1, MaxTickAssumption DEF Clock
  <2> QED BY <2>2, <1>1
<1> QED BY <1>2, <1>3

\* VectorClock::merge is the least clock that neither side is ahead of, whatever
\* the order of the arguments, and merging again changes nothing: no side's
\* ticks are lost when two writers' clocks meet.
THEOREM MergeIsJoin ==
  ASSUME NEW a \in Clock, NEW b \in Clock, NEW c \in Clock
  PROVE  /\ Merge(a, b) \in Clock
         /\ Merge(a, b) = Merge(b, a)
         /\ Merge(a, a) = a
         /\ \A n \in Nodes : a[n] <= Merge(a, b)[n] /\ b[n] <= Merge(a, b)[n]
         /\ (\A n \in Nodes : a[n] <= c[n] /\ b[n] <= c[n])
              => \A n \in Nodes : Merge(a, b)[n] <= c[n]
<1>1. \A n \in Nodes : a[n] \in 0..MaxTick /\ b[n] \in 0..MaxTick /\ c[n] \in 0..MaxTick
  BY DEF Clock
<1>2. Merge(a, b) \in Clock
  BY <1>1, MaxTickAssumption DEF Merge, Clock
<1>3. Merge(a, b) = Merge(b, a)
  BY <1>1, MaxTickAssumption DEF Merge
<1>4. Merge(a, a) = a
  BY MaxTickAssumption DEF Merge, Clock
<1>5. \A n \in Nodes : a[n] <= Merge(a, b)[n] /\ b[n] <= Merge(a, b)[n]
  <2> TAKE n \in Nodes
  <2>1. Merge(a, b)[n] = IF b[n] > a[n] THEN b[n] ELSE a[n]
    BY DEF Merge
  <2>2. a[n] \in Nat /\ b[n] \in Nat
    BY <1>1, MaxTickAssumption
  <2> QED BY <2>1, <2>2
<1>6. (\A n \in Nodes : a[n] <= c[n] /\ b[n] <= c[n])
        => \A n \in Nodes : Merge(a, b)[n] <= c[n]
  BY <1>1, MaxTickAssumption DEF Merge
<1> QED BY <1>2, <1>3, <1>4, <1>5, <1>6

-----------------------------------------------------------------------------
\* resolve_one covers all 27 combinations of absent, live and deleted.
LEMMA ResolveOneTotal ==
  ASSUME NEW l \in MaybeMeta, NEW r \in MaybeMeta, NEW i \in MaybeMeta
  PROVE  ResolveOne(l, r, i) \in [action : ActionTypes, conflict : ConflictKinds]
<1> USE DEF Make, MakeWithConflict, ActionTypes, ConflictKinds
<1>1. ResolveThreeWay(l, r, i) \in [action : ActionTypes, conflict : ConflictKinds]
  BY DEF ResolveThreeWay
<1>2. QED BY <1>1, Trichotomy DEF ResolveOne

\* A decision to delete never meets two live copies, and the one it meets is
\* the version last synced.
LEMMA DeleteArms ==
  ASSUME NEW l \in MaybeMeta, NEW r \in MaybeMeta, NEW i \in MaybeMeta,
         ResolveOne(l, r, i).action \in {"DeleteLocal", "DeleteRemote"}
  PROVE  /\ Present(l) => HashesEq(l, i)
         /\ Present(r) => HashesEq(r, i)
<1> DEFINE d == ResolveOne(l, r, i)
<1>1. \/ ~Present(l) /\ ~Present(r)
      \/ Present(l) /\ ~Present(r) /\ HashesEq(l, i)
      \/ ~Present(l) /\ Present(r) /\ HashesEq(r, i)
      \/ d = Make("Skip")
      \/ \E a \in {"Upload", "Download", "ConflictFork", "Inconsistent"} :
           \E k \in ConflictKinds : d = MakeWithConflict(a, k)
  BY Trichotomy, ZenonT(60) DEF ResolveOne, ResolveThreeWay, Make, MakeWithConflict, ConflictKinds
<1> QED BY <1>1 DEF Make, MakeWithConflict

\* Where a Download meets a live local copy, that copy is older than the remote
\* one, or unchanged since the last sync, or the decision reports a conflict.
LEMMA DownloadArms ==
  ASSUME NEW l \in MaybeMeta, NEW r \in MaybeMeta, NEW i \in MaybeMeta,
         ResolveOne(l, r, i).action = "Download", Present(l)
  PROVE  \/ ResolveOne(l, r, i).conflict # "none"
         \/ HashesEq(l, i)
         \/ Present(r) /\ ClockCompare(l, r) = "Before"
<1> DEFINE d == ResolveOne(l, r, i)
<1>1. \/ d = MakeWithConflict("Download", "ModifiedDeleted")
      \/ HashesEq(l, i)
      \/ Present(r) /\ ClockCompare(l, r) = "Before"
      \/ \E a \in (ActionTypes \cup {"Inconsistent"}) \ {"Download"} :
           \E k \in ConflictKinds : d = MakeWithConflict(a, k)
  BY Trichotomy, ZenonT(60)
     DEF ResolveOne, ResolveThreeWay, Make, MakeWithConflict, ConflictKinds, ActionTypes
<1> QED BY <1>1 DEF MakeWithConflict

\* The same for an Upload and a live remote copy.
LEMMA UploadArms ==
  ASSUME NEW l \in MaybeMeta, NEW r \in MaybeMeta, NEW i \in MaybeMeta,
         ResolveOne(l, r, i).action = "Upload", Present(r)
  PROVE  \/ ResolveOne(l, r, i).conflict # "none"
         \/ HashesEq(r, i)
         \/ Present(l) /\ ClockCompare(l, r) = "After"
<1> DEFINE d == ResolveOne(l, r, i)
<1>1. \/ d = MakeWithConflict("Upload", "ModifiedDeleted")
      \/ HashesEq(r, i)
      \/ Present(l) /\ ClockCompare(l, r) = "After"
      \/ \E a \in (ActionTypes \cup {"Inconsistent"}) \ {"Upload"} :
           \E k \in ConflictKinds : d = MakeWithConflict(a, k)
  BY Trichotomy, ZenonT(60)
     DEF ResolveOne, ResolveThreeWay, Make, MakeWithConflict, ConflictKinds, ActionTypes
<1> QED BY <1>1 DEF MakeWithConflict

\* A copy is transferred only if one of the two sides has the path.
LEMMA UploadNeedsACopy ==
  ASSUME NEW i \in MaybeMeta
  PROVE  ResolveOne(None, None, i) = Make("Skip")
BY ZenonT(60) DEF ResolveOne, Present, Tomb

\* A fork needs two live copies, different from each other and from the index.
LEMMA ForkArms ==
  ASSUME NEW l \in MaybeMeta, NEW r \in MaybeMeta, NEW i \in MaybeMeta,
         ResolveOne(l, r, i).action = "ConflictFork"
  PROVE  /\ Present(l) /\ Present(r) /\ ~HashesEq(l, r)
         /\ ~HashesEq(l, i) /\ ~HashesEq(r, i)
<1> DEFINE d == ResolveOne(l, r, i)
<1> DEFINE NoFork(x) == \E a \in {"Upload", "Download", "DeleteLocal", "DeleteRemote",
                                   "Skip", "Inconsistent"} :
                         \E k \in ConflictKinds : x = MakeWithConflict(a, k)
<1>1. \/ Present(l) /\ Present(r) /\ i = None /\ ~HashesEq(l, r)
      \/ Present(l) /\ Present(r) /\ d = ResolveThreeWay(l, r, i)
      \/ NoFork(d)
  BY Trichotomy, ZenonT(60) DEF ResolveOne, Make, MakeWithConflict, ConflictKinds
<1>2. \/ ~HashesEq(l, r) /\ ~HashesEq(l, i) /\ ~HashesEq(r, i)
      \/ NoFork(ResolveThreeWay(l, r, i))
  BY ZenonT(60) DEF ResolveThreeWay, Make, MakeWithConflict, ConflictKinds
<1>3. ~NoFork(d)
  BY DEF MakeWithConflict
<1> QED BY <1>1, <1>2, <1>3 DEF HashesEq
=============================================================================
