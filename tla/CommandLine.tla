---------------------------- MODULE CommandLine ----------------------------
(***************************************************************************)
(* The `disk` commands: requests to the control plane and to the local     *)
(* daemon, and edits of disk.toml.  A command is the sequence of its steps *)
(* and stops at the first that fails; several may run at the same time.    *)
(***************************************************************************)
EXTENDS Naturals, Sequences, FiniteSets

CONSTANTS Procs,      \* command processes, each runs one command
          TenantsC,   \* workspaces
          NewShares,  \* names `share init` may be given
          MaxTries,   \* CONNECT_MAX_ATTEMPTS (40 in the code)
          MaxFlips,   \* bound on peers that stop or start answering
          NoText      \* a disk.toml that does not parse

\* What a command may be asked to put in place, and the texts of disk.toml.
WantsC == TenantsC \cup NewShares \cup {NoText}
TextsC == [tenant : WantsC, shares : SUBSET WantsC]

ASSUME CliAssumption == MaxTries \in Nat \ {0} /\ NoText \notin TenantsC \cup TextsC

\* GET stands for a request that reads, POST for one that changes something (PUT and
\* DELETE too).
Ask(peer, method) == [peer |-> peer, method |-> method]
Api(method) == <<Ask("control", method)>>
Daemon(method) == <<Ask("daemon", method)>>
EditToml == <<Ask("toml", "edit")>>

(* sharing_cmd *)
RunInviteCreate == Api("POST")
RunInviteList == Api("GET")
RunInviteAccept == Api("POST")
RunSharingMembers == Api("GET")
RunMemberRemove == Api("POST")
(* trash_cmd, versions_cmd, snapshots_cmd *)
RunTrashList == Api("GET")
RunTrashRestore == Api("POST")
RunTrashDelete == Api("POST")
RunTrashEmpty == Api("POST")
RunVersionsList == Api("GET")
RunVersionsRestore == Api("POST")
RunSnapshotsCreate == Api("POST")
RunSnapshotsList == Api("GET")
RunSnapshotsShow == Api("GET")
RunSnapshotsRestore == Api("POST")
(* selective_sync_cmd, agents_cmd *)
RunSelectiveList == Api("GET")
RunSelectiveSet == Api("POST")
RunWebhooksList == Api("GET")
RunWebhooksRegister == Api("POST")
RunWebhooksDelete == Api("POST")
RunRevision == Api("GET")
RunWrite == Api("POST")
(* org_cmd: a slug is looked up first *)
ResolveOrgId == Api("GET")
ApplyLocalTenantSync == EditToml \o Daemon("POST")
RunOrgList == Api("GET")
RunOrgCreate == Api("POST")
RunOrgContext == Api("GET")
RunOrgSwitch == ResolveOrgId \o Api("context") \o ApplyLocalTenantSync
RunOrgSync == Api("GET") \o ApplyLocalTenantSync
RunOrgMembers == ResolveOrgId \o Api("GET")
RunOrgMembersAdd == ResolveOrgId \o Api("POST")
(* commands: the daemon's loopback REST *)
RunStatus == Daemon("GET")
RunConfigReload == Daemon("POST")
RunLanPeers == Daemon("GET")
RunConflictsList == Daemon("GET")
RunConflictsShow == Daemon("GET")
ResolveOne == Daemon("POST")
RunConflictsResolve == {ResolveOne, Daemon("GET") \o ResolveOne \o ResolveOne}
RunShareInit == EditToml

LocalCommands ==
  {RunStatus, RunConfigReload, RunLanPeers, RunConflictsList, RunConflictsShow,
   RunShareInit} \cup RunConflictsResolve
HistoryCommands ==
  {RunTrashList, RunTrashRestore, RunTrashDelete, RunTrashEmpty, RunVersionsList,
   RunVersionsRestore, RunSnapshotsCreate, RunSnapshotsList, RunSnapshotsShow,
   RunSnapshotsRestore}
TeamCommands ==
  {RunInviteCreate, RunInviteList, RunInviteAccept, RunSharingMembers, RunMemberRemove,
   RunSelectiveList, RunSelectiveSet, RunWebhooksList, RunWebhooksRegister,
   RunWebhooksDelete, RunRevision, RunWrite, RunOrgList, RunOrgCreate, RunOrgContext,
   RunOrgSwitch, RunOrgSync, RunOrgMembers, RunOrgMembersAdd}
Commands == LocalCommands \cup HistoryCommands \cup TeamCommands
-----------------------------------------------------------------------------
VARIABLES script,     \* script[p]: the steps of p's command
          pos,        \* pos[p]: the step p is at
          phaseC,     \* "new", "ready", "served", "edit", "check", "ok", "failed", "killed"
          replyC,     \* replyC[p]: the handler accepted the request
          triesC,     \* connection attempts of the current step
          ranC,       \* ranC[p][i]: how often the peer carried step i out
          wantC,      \* wantC[p]: the tenant, or the share, that p is to put in place
          copyC,      \* copyC[p]: the text p read
          alone,      \* no other command ran beside p
          toml,       \* [tenant, shares], or NoText
          context,    \* the user's active tenant at the server
          upC,        \* peers that answer
          flips
cliVars == <<script, pos, phaseC, replyC, triesC, ranC, wantC, copyC, alone, toml,
             context, upC, flips>>

CliInit ==
  /\ script = [p \in Procs |-> <<>>] /\ pos = [p \in Procs |-> 1]
  /\ phaseC = [p \in Procs |-> "new"] /\ replyC = [p \in Procs |-> FALSE]
  /\ triesC = [p \in Procs |-> 0] /\ ranC = [p \in Procs |-> <<>>]
  /\ wantC = [p \in Procs |-> NoText] /\ copyC = [p \in Procs |-> NoText]
  /\ alone = [p \in Procs |-> FALSE]
  /\ toml \in [tenant : TenantsC, shares : {{}}] /\ context \in TenantsC
  /\ upC = {"control", "daemon"} /\ flips = 0

Running == {p \in Procs : phaseC[p] \in {"ready", "served", "edit", "check"}}
StepOf(p) == script[p][pos[p]]
PhaseTo(p, f) == phaseC' = [phaseC EXCEPT ![p] = f]
(* The step is done: the next one, or the end of the command. *)
StepDone(p) ==
  /\ pos' = [pos EXCEPT ![p] = @ + 1] /\ triesC' = [triesC EXCEPT ![p] = 0]
  /\ PhaseTo(p, IF pos[p] = Len(script[p]) THEN "ok" ELSE "ready")

(* main: the arguments are checked and, for the control plane, a token is
   there (otherwise the command fails without any effect). *)
StartCommand(p, c, w) ==
  /\ phaseC[p] = "new" /\ PhaseTo(p, "ready")
  /\ script' = [script EXCEPT ![p] = c] /\ wantC' = [wantC EXCEPT ![p] = w]
  /\ ranC' = [ranC EXCEPT ![p] = [i \in 1..Len(c) |-> 0]]
  /\ alone' = [q \in Procs |-> IF q = p THEN Running = {} ELSE FALSE]
  /\ UNCHANGED <<pos, replyC, triesC, copyC, toml, context, upC, flips>>

(* send_with_retry: only a connection that was not accepted is tried again;
   the control plane is asked once. *)
MayRetry(p) == StepOf(p).peer = "daemon" /\ triesC[p] + 1 < MaxTries
ConnectRefused(p) ==
  /\ phaseC[p] = "ready" /\ StepOf(p).peer \in {"control", "daemon"} \ upC
  /\ IF MayRetry(p) THEN triesC' = [triesC EXCEPT ![p] = @ + 1] /\ UNCHANGED phaseC
                    ELSE PhaseTo(p, "failed") /\ UNCHANGED triesC
  /\ UNCHANGED <<script, pos, replyC, ranC, wantC, copyC, alone, toml, context, upC, flips>>

(* The peer takes the request and carries it out or refuses it. *)
PeerServes(p, accepted) ==
  /\ phaseC[p] = "ready" /\ StepOf(p).peer \in upC /\ PhaseTo(p, "served")
  /\ replyC' = [replyC EXCEPT ![p] = accepted]
  /\ ranC' = IF accepted THEN [ranC EXCEPT ![p][pos[p]] = @ + 1] ELSE ranC
  /\ context' = IF accepted /\ StepOf(p).method = "context" THEN wantC[p] ELSE context
  /\ wantC' = IF accepted /\ script[p] = RunOrgSync /\ pos[p] = 1
              THEN [wantC EXCEPT ![p] = context] ELSE wantC
  /\ UNCHANGED <<script, pos, triesC, copyC, alone, toml, upC, flips>>
(* api_get, api_post, api_put, api_delete_json: the status decides. *)
ReplyArrives(p) ==
  /\ phaseC[p] = "served"
  /\ IF replyC[p] THEN StepDone(p) ELSE PhaseTo(p, "failed") /\ UNCHANGED <<pos, triesC>>
  /\ UNCHANGED <<script, replyC, ranC, wantC, copyC, alone, toml, context, upC, flips>>
\* Mutant: whatever went wrong, the request is sent again.
AfterLostReplyAgain(p) == PhaseTo(p, IF MayRetry(p) THEN "ready" ELSE "failed")
AfterLostReply(p) == PhaseTo(p, "failed")
ReplyLost(p) ==   \* a timeout or a broken connection after the request went out
  /\ phaseC[p] = "served" /\ AfterLostReply(p)
  /\ triesC' = [triesC EXCEPT ![p] = @ + 1]
  /\ UNCHANGED <<script, pos, replyC, ranC, wantC, copyC, alone, toml, context, upC, flips>>

-----------------------------------------------------------------------------
(* set_node_tenant_id and append_share: read, check, write in place, check
   what was written, put the old text back if it does not parse. *)

ReadToml(p) ==
  /\ phaseC[p] = "ready" /\ StepOf(p).peer = "toml"
  /\ \/ toml = NoText /\ PhaseTo(p, "failed") /\ UNCHANGED copyC
     \/ toml # NoText /\ wantC[p] \in NewShares /\ wantC[p] \in toml.shares
        /\ PhaseTo(p, "failed") /\ UNCHANGED copyC
     \/ toml # NoText /\ ~(wantC[p] \in NewShares /\ wantC[p] \in toml.shares)
        /\ PhaseTo(p, "edit") /\ copyC' = [copyC EXCEPT ![p] = toml]
  /\ UNCHANGED <<script, pos, replyC, triesC, ranC, wantC, alone, toml, context, upC, flips>>
PatchTenant(text, t) == [text EXCEPT !.tenant = t]
RenderShare(text, s) == [text EXCEPT !.shares = @ \cup {s}]
Updated(p) == IF script[p] = RunShareInit THEN RenderShare(copyC[p], wantC[p])
                                          ELSE PatchTenant(copyC[p], wantC[p])
WriteToml(p, parses) ==
  /\ phaseC[p] = "edit" /\ PhaseTo(p, "check")
  /\ toml' = IF parses THEN Updated(p) ELSE NoText
  /\ replyC' = [replyC EXCEPT ![p] = parses]
  /\ UNCHANGED <<script, pos, triesC, ranC, wantC, copyC, alone, context, upC, flips>>
Restored(p) == copyC[p]
CheckToml(p) ==
  /\ phaseC[p] = "check"
  /\ IF replyC[p] THEN StepDone(p) /\ ranC' = [ranC EXCEPT ![p][pos[p]] = @ + 1]
                       /\ UNCHANGED toml
                  ELSE /\ PhaseTo(p, "failed") /\ toml' = Restored(p)
                       /\ UNCHANGED <<pos, triesC, ranC>>
  /\ UNCHANGED <<script, replyC, wantC, copyC, alone, context, upC, flips>>
(* fs::write truncates first: a stop in it leaves no text. *)
CommandKilled(p) ==
  /\ p \in Running /\ PhaseTo(p, "killed")
  /\ toml' \in IF phaseC[p] = "edit" THEN {toml, NoText} ELSE {toml}
  /\ UNCHANGED <<script, pos, replyC, triesC, ranC, wantC, copyC, alone, context, upC, flips>>

PeerFlips(x) ==
  /\ flips < MaxFlips /\ flips' = flips + 1
  /\ upC' = IF x \in upC THEN upC \ {x} ELSE upC \cup {x}
  /\ UNCHANGED <<script, pos, phaseC, replyC, triesC, ranC, wantC, copyC, alone, toml,
                 context>>

Wants(c) == IF c = RunShareInit THEN NewShares ELSE IF c = RunOrgSwitch THEN TenantsC
            ELSE {NoText}
CliNext ==
  \/ \E p \in Procs :
       \/ \E c \in Commands : \E w \in Wants(c) : StartCommand(p, c, w)
       \/ ConnectRefused(p) \/ ReplyArrives(p) \/ ReplyLost(p)
       \/ \E ok \in BOOLEAN : PeerServes(p, ok) \/ WriteToml(p, ok)
       \/ ReadToml(p) \/ CheckToml(p) \/ CommandKilled(p)
  \/ \E x \in {"control", "daemon"} : PeerFlips(x)
CliSpec == CliInit /\ [][CliNext]_cliVars
-----------------------------------------------------------------------------
(* Whatever fails or is repeated, no step of a command is carried out twice,
   none is carried out before the ones in front of it, and a command that
   exits with success had every step carried out (send_with_retry, api_post). *)
StepsOnce ==
  \A p \in Procs :
    /\ \A i \in DOMAIN ranC[p] : ranC[p][i] <= 1
    /\ \A i, j \in DOMAIN ranC[p] : i < j => ranC[p][j] <= ranC[p][i]
    /\ phaseC[p] = "ok" => \A i \in DOMAIN ranC[p] : ranC[p][i] = 1

(* disk.toml parses whenever no command is about to check it, however the
   commands overlap, unless one was killed in the middle
   (append_share, set_node_tenant_id). *)
TomlParses ==
  toml = NoText => \E p \in Procs : phaseC[p] \in {"check", "killed"}

(* A switch or a sync that nothing overlapped leaves disk.toml with the tenant
   that is active at the server, also when an earlier switch got half-way
   (run_switch, run_sync, apply_local_tenant_sync). *)
TenantAligned ==
  \A p \in Procs :
    (script[p] \in {RunOrgSwitch, RunOrgSync} /\ alone[p] /\ phaseC[p] # "ok"
     /\ phaseC'[p] = "ok") => toml' # NoText /\ toml'.tenant = context'
=============================================================================
