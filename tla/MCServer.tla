------------------------------ MODULE MCServer ------------------------------
(***************************************************************************)
(* The tasks of the server process: sessions and enrollment, the reload of *)
(* the ACL file, the boot and the end of the process, the index of a share *)
(* root and the delivery of agent events.  A behaviour moves one of them,  *)
(* the part, and leaves the others as they started.                        *)
(***************************************************************************)
EXTENDS NodeAuth, AclReload, ServerBoot, ShareIndex, Agents, TLC

CONSTANTS n1

VARIABLE part

mcVars == <<part, vars, aclVars, bootVars, indexVars, agentVars>>

\* Every task runs on the first machine.
OnFirst == [t \in Tasks |-> n1]

\* Lists an operator writes for the two certificates: older and newer ones, one
\* of version 0, one with a role that does not exist, one without an entry, one that
\* does not parse.
AclBody(v, r) == [parses |-> TRUE, version |-> v, nodes |-> ("c1" :> r @@ "c2" :> NoRole)]
StartBody == AclBody(2, "bidirectional")
EditedBodies ==
  {StartBody, AclBody(0, "send_only"), AclBody(1, "publisher"), AclBody(3, "receive_only"),
   AclBody(4, "owner"), AclBody(5, NoRole), [AclBody(3, NoRole) EXCEPT !.parses = FALSE]}

\* What a part may start from is left open only where it is the part that moves.
Still(p, start) == part = p \/ start

MCInit ==
  /\ part \in {"auth", "acl", "boot", "index", "agents"}
  /\ Still("auth", mode = "open")
  /\ Still("acl", yaml = NoBody)
  /\ Still("boot", envB = [ca |-> "stub", stubCa |-> TRUE, signed |-> TRUE, unsignedOk |-> FALSE,
                           auth |-> FALSE, key |-> "none", oauth |-> "off", billing |-> "off"])
  /\ Still("index", root = [p \in Paths |-> NoHash] /\ rows = root)
  /\ Init /\ AclInit /\ BootInit /\ IndexInit /\ AgentsInit

AuthMoves   == part = "auth" /\ Next /\ UNCHANGED <<part, aclVars, bootVars, indexVars, agentVars>>
AclMoves    == part = "acl" /\ AclNext /\ UNCHANGED <<part, vars, bootVars, indexVars, agentVars>>
BootMoves   == part = "boot" /\ BootNext /\ UNCHANGED <<part, vars, aclVars, indexVars, agentVars>>
IndexMoves  == part = "index" /\ IndexNext /\ UNCHANGED <<part, vars, aclVars, bootVars, agentVars>>
AgentsMove  == part = "agents" /\ AgentsNext
               /\ UNCHANGED <<part, vars, aclVars, bootVars, indexVars>>

MCNext == AuthMoves \/ AclMoves \/ BootMoves \/ IndexMoves \/ AgentsMove

\* The fairness of each module, for the part that moves.
MCFairness ==
  /\ \A t \in Tasks : WF_vars(part = "auth" /\ Step(t))
  /\ \A n \in NodeIds : WF_vars(part = "auth" /\ Forget(n))
  /\ WF_vars(part = "auth" /\ Boot)
  /\ WF_aclVars(part = "acl" /\ AclStep)
  /\ WF_bootVars(part = "boot" /\ BootProceeds)
  /\ WF_bootVars(part = "boot" /\ HttpStarts)
  /\ WF_bootVars(part = "boot" /\ Stopping)
  /\ \A l \in Listeners : WF_bootVars(part = "boot" /\ RequestEnds(l))
  /\ WF_indexVars(part = "index" /\ LoopStep)
  /\ WF_agentVars(part = "agents" /\ Deliver)

MCSpec == MCInit /\ [][MCNext]_mcVars /\ MCFairness
=============================================================================
