----------------------------- MODULE FreshIndex -----------------------------
(***************************************************************************)
(* What the index of a share root promises, whatever happens to its events:*)
(* an entry is only ever set to something the file has held since the      *)
(* entry was last set.  An index that keeps this promise never goes back   *)
(* in time and never invents a deletion.                                   *)
(***************************************************************************)
CONSTANTS Paths, Contents, NoHash

VARIABLES root, entry, recent

freshVars == <<root, entry, recent>>

Maybe == Contents \cup {NoHash}

FreshInit ==
  /\ root \in [Paths -> Maybe]
  /\ entry \in [Paths -> Maybe]
  /\ recent = [p \in Paths |-> {root[p]}]

\* The files change.
Move ==
  /\ root' \in [Paths -> Maybe]
  /\ recent' = [p \in Paths |-> recent[p] \cup {root'[p]}]
  /\ UNCHANGED entry

\* The entry of a path is brought up to date, with a file that may be changing.
Refresh(p) ==
  /\ \E v \in recent[p] : entry' = [entry EXCEPT ![p] = v]
  /\ recent' = [recent EXCEPT ![p] = {root[p]}]
  /\ UNCHANGED root

FreshNext == Move \/ \E p \in Paths : Refresh(p)

FreshSpec == FreshInit /\ [][FreshNext]_freshVars
=============================================================================
