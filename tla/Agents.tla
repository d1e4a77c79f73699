------------------------------- MODULE Agents -------------------------------
(***************************************************************************)
(* Agent writes and the webhooks that report them (crates/disk-server/src/ *)
(* agents over meta_db/agents.rs).  A write names the revision it was made *)
(* from; the revision is compared before the file is written and again     *)
(* when it is raised, and the raise is three statements: a read, an upsert *)
(* under a condition, and a read that decides what the caller is told.     *)
(* Events go through a bounded channel to one delivery task.               *)
(***************************************************************************)
EXTENDS Naturals, Sequences, FiniteSets

CONSTANTS
  Agents,        \* agents that write the file; an agent's content is its own
  Hooks,         \* webhook registrations
  JobCap,    \* CHANNEL_CAP
  MaxRetries,    \* MAX_RETRIES
  MaxAgentOps,   \* bound on writes and reports
  NoAgent        \* nobody, nothing

\* A job in delivery.
Deliveries == [left : SUBSET Hooks, tried : Nat, on : Hooks \cup {NoAgent}]

ASSUME AgentsAssumption == NoAgent \notin Hooks \cup Deliveries

VARIABLES
  agentRev,   \* agent_write_revisions: the revision and whose content it names
  agentFile,  \* whose bytes the file holds
  agentRow,   \* whose content the files row describes
  writing,    \* agent_write under way
  hooks,      \* agent_webhooks: the events each enabled registration asks for
  jobs,    \* the dispatcher's channel
  delivery,   \* the job in delivery: the targets left, attempts at the first
  served,    \* history: for every target of the last job, how it ended
  agentOps

agentVars == <<agentRev, agentFile, agentRow, writing, hooks, jobs,
               delivery, served, agentOps>>

AgentEvents == {"agent.write_ok", "agent.write_conflict", "embeddings.stale"}

AgentsInit ==
  /\ agentRev = [n |-> 0, by |-> NoAgent]
  /\ agentFile = NoAgent /\ agentRow = NoAgent
  /\ writing = [a \in Agents |-> NoAgent]
  /\ hooks = [h \in Hooks |-> {}]
  /\ jobs = <<>>
  /\ delivery = NoAgent
  /\ served = [h \in Hooks |-> [end |-> "none", tries |-> 0]]
  /\ agentOps = 0

AgentBegins == agentOps < MaxAgentOps /\ agentOps' = agentOps + 1

\* AgentWebhookDispatcher::enqueue: try_send, dropped when the channel is full
Enqueue(e) ==
  jobs' = IF Len(jobs) < JobCap THEN Append(jobs, e) ELSE jobs

\* agent_write_inner up to the comparison with the current revision
BeginWrite(a, expected) ==
  /\ AgentBegins
  /\ writing[a] = NoAgent
  /\ IF expected # agentRev.n
     THEN Enqueue("agent.write_conflict") /\ UNCHANGED writing
     ELSE /\ writing' = [writing EXCEPT ![a] = [from |-> expected, at |-> "file"]]
          /\ UNCHANGED jobs
  /\ UNCHANGED <<agentRev, agentFile, agentRow, hooks, delivery, served>>

AgentAt(a, pc) == writing[a] # NoAgent /\ writing[a].at = pc
AgentTo(a, pc) == writing' = [writing EXCEPT ![a].at = pc]
AgentLeaves(a) == writing' = [writing EXCEPT ![a] = NoAgent]

\* agent_write_inner: the bytes replace the file before the revision is raised
WriteBytes(a) ==
  /\ AgentAt(a, "file")
  /\ \/ agentFile' = a /\ AgentTo(a, "compare")
     \/ AgentLeaves(a) /\ UNCHANGED agentFile
  /\ UNCHANGED <<agentRev, agentRow, hooks, jobs, delivery, served, agentOps>>

\* agent_write_inner: a raise refused as stale is answered 409
AnswerConflict(a) == AgentLeaves(a) /\ Enqueue("agent.write_conflict")

\* bump_agent_write_revision: get_agent_write_revision
BumpCompare(a) ==
  /\ AgentAt(a, "compare")
  /\ IF agentRev.n # writing[a].from
     THEN AnswerConflict(a)
     ELSE AgentTo(a, "upsert") /\ UNCHANGED jobs
  /\ UNCHANGED <<agentRev, agentFile, agentRow, hooks, delivery, served, agentOps>>

\* Mutant of Unmoved: the revision was compared before, so the upsert has no WHERE.
UnmovedSince(a) == TRUE

\* WHERE agent_write_revisions.revision = ?8
Unmoved(a) == agentRev.n = writing[a].from

\* bump_agent_write_revision: INSERT .. ON CONFLICT DO UPDATE .. WHERE
BumpUpsert(a) ==
  /\ AgentAt(a, "upsert")
  /\ agentRev' = IF Unmoved(a) THEN [n |-> writing[a].from + 1, by |-> a] ELSE agentRev
  /\ AgentTo(a, "check")
  /\ UNCHANGED <<agentFile, agentRow, hooks, jobs, delivery, served, agentOps>>

\* bump_agent_write_revision: the revision is read again, and decides
BumpCheck(a) ==
  /\ AgentAt(a, "check")
  /\ IF agentRev.n = writing[a].from + 1
     THEN AgentTo(a, "row") /\ UNCHANGED jobs
     ELSE AnswerConflict(a)
  /\ UNCHANGED <<agentRev, agentFile, agentRow, hooks, delivery, served, agentOps>>

\* agent_write_inner: get_plan_tier, upsert_file_scoped_versioned, the event
WriteAgentRow(a) ==
  /\ AgentAt(a, "row")
  /\ AgentLeaves(a)
  /\ \/ agentRow' = a /\ Enqueue("agent.write_ok")
     \/ UNCHANGED <<agentRow, jobs>>
  /\ UNCHANGED <<agentRev, agentFile, hooks, delivery, served, agentOps>>

\* report_embeddings_stale_inner, something being stale or missing
ReportStale ==
  /\ AgentBegins
  /\ Enqueue("embeddings.stale")
  /\ UNCHANGED <<agentRev, agentFile, agentRow, writing, hooks, delivery, served>>

\* validate_events: at least one, and every one known
ValidEvents(es) == es # {} /\ es \subseteq AgentEvents

\* register_webhook_inner, insert_agent_webhook
RegisterWebhook(h, es) ==
  /\ hooks[h] = {} /\ ValidEvents(es)
  /\ AgentBegins
  /\ hooks' = [hooks EXCEPT ![h] = es]
  /\ UNCHANGED <<agentRev, agentFile, agentRow, writing, jobs, delivery, served>>

\* delete_webhook_inner, delete_agent_webhook
DeleteWebhook(h) ==
  /\ hooks[h] # {}
  /\ hooks' = [hooks EXCEPT ![h] = {}]
  /\ UNCHANGED <<agentRev, agentFile, agentRow, writing, jobs, delivery, served,
                 agentOps>>

\* list_agent_webhooks_for_event
TargetsOf(e) == {h \in Hooks : e \in hooks[h]}

\* delivery_loop: the next job, or nothing if the lookup fails
TakeJob ==
  /\ delivery = NoAgent /\ jobs # <<>>
  /\ jobs' = Tail(jobs)
  /\ \/ /\ delivery' = [left |-> TargetsOf(Head(jobs)), tried |-> 0, on |-> NoAgent]
        /\ served' = [h \in Hooks |-> [tries |-> 0, end |->
                         IF h \in TargetsOf(Head(jobs)) THEN "owed" ELSE "none"]]
     \/ UNCHANGED <<delivery, served>>
  /\ UNCHANGED <<agentRev, agentFile, agentRow, writing, hooks, agentOps>>

\* for attempt in 1..=MAX_RETRIES
Exhausted(n) == n = MaxRetries

\* deliver_one: a request, its answer, and either the next attempt or the next
\* target
Attempt(h) ==
  /\ delivery # NoAgent
  /\ delivery.on = h \/ (delivery.on = NoAgent /\ h \in delivery.left)
  /\ LET n == delivery.tried + 1
         next == [left |-> delivery.left \ {h}, tried |-> 0, on |-> NoAgent]
     IN  \/ /\ served' = [served EXCEPT ![h] = [end |-> "delivered", tries |-> n]]
            /\ delivery' = next
         \/ IF Exhausted(n)
            THEN served' = [served EXCEPT ![h] = [end |-> "failed", tries |-> n]]
                 /\ delivery' = next
            ELSE /\ delivery' = [delivery EXCEPT !.on = h, !.tried = n]
                 /\ UNCHANGED served
  /\ UNCHANGED <<agentRev, agentFile, agentRow, writing, hooks, jobs, agentOps>>

\* delivery_loop: every target has been served
JobDone ==
  /\ delivery # NoAgent /\ delivery.left = {}
  /\ delivery' = NoAgent
  /\ UNCHANGED <<agentRev, agentFile, agentRow, writing, hooks, jobs, served, agentOps>>

Deliver == TakeJob \/ JobDone \/ \E h \in Hooks : Attempt(h)

AgentsNext ==
  \/ \E a \in Agents :
       \/ \E r \in 0..MaxAgentOps : BeginWrite(a, r)
       \/ WriteBytes(a) \/ BumpCompare(a) \/ BumpUpsert(a) \/ BumpCheck(a)
       \/ WriteAgentRow(a)
  \/ ReportStale
  \/ \E h \in Hooks : DeleteWebhook(h) \/ \E es \in SUBSET AgentEvents : RegisterWebhook(h, es)
  \/ Deliver

AgentsSpec == AgentsInit /\ [][AgentsNext]_agentVars

\* The delivery task is a loop of its own: it runs whenever it can.
AgentsFairSpec == AgentsSpec /\ WF_agentVars(Deliver)

-----------------------------------------------------------------------------
(* A revision number names one content: the revision of a file only rises, *)
(* one at a time, and the content it names changes only with the number,   *)
(* whatever the interleaving of the three statements of several raises     *)
(* (bump_agent_write_revision).                                            *)
RevisionNamesContent ==
  [][agentRev' = agentRev \/ agentRev'.n = agentRev.n + 1]_agentVars

(* When a job has been worked off, every registration that asked for its   *)
(* event either answered with success or was tried MAX_RETRIES times: the  *)
(* failure of one receiver costs no other its event (delivery_loop,        *)
(* deliver_one).                                                           *)
EveryTargetServed ==
  \A h \in Hooks :
    /\ served[h].end = "owed" => delivery # NoAgent /\ h \in delivery.left
    /\ served[h].end = "failed" => served[h].tries = MaxRetries

(* The delivery task always comes back for the next job: an event that     *)
(* entered the channel leaves it, however many receivers are down       *)
(* (delivery_loop, deliver_one).                                           *)
ChannelDrains == (jobs # <<>>) ~> (delivery = NoAgent /\ jobs = <<>>)

(* A revision names one content and every event reaches its receivers, or  *)
(* they were tried MAX_RETRIES times (bump_agent_write_revision,           *)
(* delivery_loop).                                                         *)
AgentsSound == []EveryTargetServed /\ RevisionNamesContent /\ ChannelDrains
=============================================================================
