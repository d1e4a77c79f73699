----------------------------- MODULE Dashboard -----------------------------
(***************************************************************************)
(* The tenant's dashboard (disk-server dashboard/routes.rs over disk-core  *)
(* meta_db/dashboard.rs): the summary, read in several statements, and the *)
(* resolution of a conflict, a scoped read followed by an update by id.    *)
(* Calls of several users run at once, beside the operations that register *)
(* and revoke nodes and the daily prune of resolved conflicts.             *)
(***************************************************************************)
EXTENDS Naturals, FiniteSets

CONSTANTS
    TenantsD,     \* tenants
    ConfIds,      \* ids of conflict rows
    NodesD,       \* node ids; a node belongs to one tenant
    ActionsD,     \* resolve actions of the requests
    ValidActions, \* the ones is_valid_resolve_action admits
    CallsD,       \* request slots
    MaxWorkD,     \* bound on requests and registrations
    NoneD         \* nothing

VARIABLES
    confD,        \* conflict rows: tenant, resolved, resolution
    nodesD,       \* node rows: tenant (NoneD: not registered), revoked
    callsD,       \* requests in progress
    workD,        \* work started
    summaryD      \* history: the last summary answered and whether nodes moved

dashVars == <<confD, nodesD, callsD, workD, summaryD>>

IdleCall == [op |-> "idle", tenant |-> NoneD, id |-> NoneD, action |-> NoneD,
             count |-> 0, moved |-> FALSE]

DashInit ==
    /\ confD \in [ConfIds -> [tenant : TenantsD, resolved : {FALSE}, resolution : {NoneD}]]
    /\ nodesD = [n \in NodesD |-> [tenant |-> NoneD, revoked |-> FALSE]]
    /\ callsD = [c \in CallsD |-> IdleCall]
    /\ workD = 0
    /\ summaryD = [count |-> 0, devices |-> {}, moved |-> FALSE]

Work == workD < MaxWorkD /\ workD' = workD + 1
EndD(c) == callsD' = [callsD EXCEPT ![c] = IdleCall]

\* get_unresolved_conflict_for_tenant.
Unresolved(t, i) == ~confD[i].resolved /\ confD[i].tenant = t

\* is_valid_resolve_action.
ValidAction(a) == a \in ValidActions

\* resolve_conflict_inner up to the read: an action that is not valid, a row of
\* another tenant and a resolved row are refused.
ResolveRead(c) ==
    /\ callsD[c] = IdleCall
    /\ Work
    /\ \E t \in TenantsD, i \in ConfIds, a \in ActionsD :
           IF ValidAction(a) /\ Unresolved(t, i)
           THEN callsD' = [callsD EXCEPT ![c] =
                    [IdleCall EXCEPT !.op = "resolve", !.tenant = t, !.id = i, !.action = a]]
           ELSE UNCHANGED callsD
    /\ UNCHANGED <<confD, nodesD, summaryD>>

\* MetaDb::resolve_conflict: the update names the id alone.
ResolveWrite(c) ==
    LET i == callsD[c].id IN
    /\ callsD[c].op = "resolve"
    /\ confD' = [confD EXCEPT ![i] =
                    IF @.tenant = NoneD THEN @
                    ELSE [@ EXCEPT !.resolved = TRUE, !.resolution = callsD[c].action]]
    /\ EndD(c)
    /\ UNCHANGED <<nodesD, workD, summaryD>>

\* cleanup_resolved_conflicts: a resolved row is deleted when it is old enough.
PruneResolved ==
    /\ \E i \in ConfIds :
           /\ confD[i].resolved
           /\ confD' = [confD EXCEPT ![i] =
                  [tenant |-> NoneD, resolved |-> FALSE, resolution |-> NoneD]]
    /\ UNCHANGED <<nodesD, callsD, workD, summaryD>>

\* count_tenant_nodes.
ActiveCount(t) == Cardinality({n \in NodesD : nodesD[n].tenant = t /\ ~nodesD[n].revoked})

\* list_tenant_nodes.
ActiveNodes(t) == {n \in NodesD : nodesD[n].tenant = t /\ ~nodesD[n].revoked}

\* summary_inner up to the count of the nodes.
SummaryCount(c) ==
    /\ callsD[c] = IdleCall
    /\ Work
    /\ \E t \in TenantsD :
           callsD' = [callsD EXCEPT ![c] =
               [IdleCall EXCEPT !.op = "summary", !.tenant = t, !.count = ActiveCount(t)]]
    /\ UNCHANGED <<confD, nodesD, summaryD>>

\* The lists of the rest of summary_inner, and the answer.
SummaryList(c) ==
    /\ callsD[c].op = "summary"
    /\ summaryD' = [count |-> callsD[c].count, devices |-> ActiveNodes(callsD[c].tenant),
                    moved |-> callsD[c].moved]
    /\ EndD(c)
    /\ UNCHANGED <<confD, nodesD, workD>>

\* A statement failed, or the client went away: the request ends.
CallEnds(c) == callsD[c] # IdleCall /\ EndD(c) /\ UNCHANGED <<confD, nodesD, workD, summaryD>>

\* RegisterNode and the revocation of a node.
NodeMoves ==
    /\ Work
    /\ \E n \in NodesD :
           \/ /\ nodesD[n].tenant = NoneD
              /\ \E t \in TenantsD : nodesD' = [nodesD EXCEPT ![n].tenant = t]
           \/ /\ nodesD[n].tenant # NoneD /\ ~nodesD[n].revoked
              /\ nodesD' = [nodesD EXCEPT ![n].revoked = TRUE]
    /\ callsD' = [c \in CallsD |-> IF callsD[c].op = "summary"
                                   THEN [callsD[c] EXCEPT !.moved = TRUE] ELSE callsD[c]]
    /\ UNCHANGED <<confD, summaryD>>

DashNext ==
    \/ \E c \in CallsD : \/ ResolveRead(c) \/ ResolveWrite(c) \/ CallEnds(c)
                         \/ SummaryCount(c) \/ SummaryList(c)
    \/ PruneResolved \/ NodeMoves

DashSpec == DashInit /\ [][DashNext]_dashVars

(***************************************************************************)
(* Properties                                                              *)
(***************************************************************************)
\* A summary during which no node was registered or revoked has as many devices as
\* it counts, though the two are separate statements (summary_inner).
SummaryAgrees == ~summaryD.moved => summaryD.count = Cardinality(summaryD.devices)
=============================================================================
