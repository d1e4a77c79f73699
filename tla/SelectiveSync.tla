--------------------------- MODULE SelectiveSync ---------------------------
(***************************************************************************)
(* Per-device folder rules: PUT /selective-sync, and what exchange_state,  *)
(* delta_upload and delta_download do with them for one device.  A prefix  *)
(* stands for the path under it.  Rules belong to a user, but a device     *)
(* obeys those of all users together; no rule at all means everything.     *)
(***************************************************************************)
EXTENDS Reconciler

CONSTANTS PathsS,      \* files of the vault, each in a folder of its own
          UsersS,      \* users who may set rules for the device
          ServerS,     \* the server's id in vector clocks
          MaxRuleOps,  \* bound on rule changes
          MaxWritesS   \* bound on edits, deletions and foreign uploads

ASSUME SelAssumption == None \notin Hashes /\ ServerS \in Nodes

VARIABLES rules,    \* rules[u]: device_sync_includes of user u
          rowS,     \* rowS[p]: the server's row (its bytes are its hash)
          baseS,    \* baseS[p]: node_baselines of the device
          localS,   \* localS[p]: content on the device, or None
          todo,     \* the response being applied: [up, down, del]
          gone,     \* paths the user removed from the device, not transferred since
          outside,  \* paths that some rule has excluded at some time
          ruleOps, writesS
selVars == <<rules, rowS, baseS, localS, todo, gone, outside, ruleOps, writesS>>

NoTodo == [up |-> {}, down |-> {}, del |-> {}]
LiveS(h) == [hash |-> h, deleted |-> FALSE, clock |-> ZeroClock]
BuriedS(m) == [m EXCEPT !.deleted = TRUE]

SelInit ==
  /\ rules = [u \in UsersS |-> {}] /\ rowS = [p \in PathsS |-> None]
  /\ baseS = [p \in PathsS |-> None] /\ localS = [p \in PathsS |-> None]
  /\ todo = NoTodo /\ gone = {} /\ outside = {} /\ ruleOps = 0 /\ writesS = 0

NodeSyncIncludes == UNION {rules[u] : u \in UsersS}
\* Mutant: no rule at all matches nothing.
PathMatchesListed(p) == p \in NodeSyncIncludes
PathMatches(p) == NodeSyncIncludes = {} \/ p \in NodeSyncIncludes

(* replace_device_sync_includes: one transaction, the user's own rules. *)
PutSelectiveSync(u, prefixes) ==
  /\ ruleOps < MaxRuleOps /\ ruleOps' = ruleOps + 1
  /\ rules' = [rules EXCEPT ![u] = prefixes]
  /\ outside' = outside \cup {p \in PathsS : ~PathMatches(p)'}
  /\ UNCHANGED <<rowS, baseS, localS, todo, gone, writesS>>

WriteS == writesS < MaxWritesS /\ writesS' = writesS + 1
DeviceEdit(p, h) ==
  /\ WriteS /\ localS[p] # h /\ localS' = [localS EXCEPT ![p] = h]
  /\ UNCHANGED <<rules, rowS, baseS, todo, gone, outside, ruleOps>>
DeviceRemove(p) ==
  /\ WriteS /\ localS[p] # None /\ localS' = [localS EXCEPT ![p] = None]
  /\ gone' = gone \cup {p} /\ UNCHANGED <<rules, rowS, baseS, todo, outside, ruleOps>>
UploadedS(h) == [LiveS(h) EXCEPT !.clock = Advance(ZeroClock, ServerS)]
OtherDevice(p, h) ==
  /\ WriteS /\ rowS' = [rowS EXCEPT ![p] = UploadedS(h)]
  /\ UNCHANGED <<rules, baseS, localS, todo, gone, outside, ruleOps>>

(* exchange_state: every path is reconciled, tombstones and the baseline are
   written, and only the lists of the response are filtered. *)
Reported(p) == IF localS[p] = None THEN None ELSE LiveS(localS[p])
Decided(p) == ResolveOne(rowS[p], Reported(p), baseS[p]).action
BaselineAfter(p) ==
  CASE Decided(p) \in {"Upload", "Skip"} /\ rowS[p] # None -> rowS[p]
    [] Decided(p) = "Download" -> Reported(p)
    [] Decided(p) \in {"DeleteLocal", "DeleteRemote"} /\ rowS[p] # None -> BuriedS(rowS[p])
    [] OTHER -> baseS[p]
FilterPaths(ps) == {p \in ps : PathMatches(p)}
ExchangeSelective ==
  /\ todo = NoTodo
  /\ rowS' = [p \in PathsS |->
                IF Decided(p) = "DeleteLocal" /\ Present(rowS[p]) THEN BuriedS(rowS[p])
                                                                 ELSE rowS[p]]
  /\ baseS' = [p \in PathsS |-> BaselineAfter(p)]
  /\ LET does(acts) == FilterPaths({p \in PathsS : Decided(p) \in acts})
     IN  todo' = [up |-> does({"Download"}), down |-> does({"Upload"}),
                  del |-> does({"DeleteLocal", "DeleteRemote"})]
  /\ UNCHANGED <<rules, localS, gone, outside, ruleOps, writesS>>

(* delta_upload and delta_download look the rules up again. *)
UploadSelective(p) ==
  /\ p \in todo.up /\ todo' = [todo EXCEPT !.up = @ \ {p}]
  /\ IF PathMatches(p) /\ localS[p] # None
     THEN rowS' = [rowS EXCEPT ![p] = UploadedS(localS[p])] /\ gone' = gone \ {p}
     ELSE UNCHANGED <<rowS, gone>>
  /\ UNCHANGED <<rules, baseS, localS, outside, ruleOps, writesS>>
DownloadSelective(p) ==
  /\ p \in todo.down /\ todo' = [todo EXCEPT !.down = @ \ {p}]
  /\ IF PathMatches(p) /\ Present(rowS[p])
     THEN localS' = [localS EXCEPT ![p] = rowS[p].hash] /\ gone' = gone \ {p}
     ELSE UNCHANGED <<localS, gone>>
  /\ UNCHANGED <<rules, rowS, baseS, outside, ruleOps, writesS>>
DeleteSelective(p) ==
  /\ p \in todo.del /\ todo' = [todo EXCEPT !.del = @ \ {p}]
  /\ localS' = [localS EXCEPT ![p] = None]
  /\ UNCHANGED <<rules, rowS, baseS, gone, outside, ruleOps, writesS>>

SelNext ==
  \/ \E u \in UsersS : \E ps \in SUBSET PathsS : PutSelectiveSync(u, ps)
  \/ \E p \in PathsS :
       \/ \E h \in Hashes : DeviceEdit(p, h) \/ OtherDevice(p, h)
       \/ DeviceRemove(p)
       \/ UploadSelective(p) \/ DownloadSelective(p) \/ DeleteSelective(p)
  \/ ExchangeSelective
SelSpec == SelInit /\ [][SelNext]_selVars
-----------------------------------------------------------------------------
\* The rows that a step turned into tombstones.
BuriedNow == {p \in PathsS : Present(rowS[p]) /\ Tomb(rowS'[p])}

(* A file that has been in the device's folders all along disappears from the
   vault only if it was removed on the device and not sent or received since, whatever the rules for other
   folders did meanwhile (exchange_state, build_post_sync_baseline). *)
IncludedSurvives ==
  [][\A p \in BuriedNow : p \in gone \/ p \in outside]_selVars
=============================================================================
