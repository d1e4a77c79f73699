------------------------------ MODULE MCDaemon ------------------------------
(***************************************************************************)
(* The tasks of the client daemon: the share tasks and their backoff, the  *)
(* reload of disk.toml, the life of the process and the fetch from peers.  *)
(* They share no state the properties look at, so a behaviour moves one of *)
(* them, the part, and leaves the others as they started.                  *)
(***************************************************************************)
EXTENDS SyncLoop, ConfigReload, DaemonBoot, LanSync

VARIABLE part

mcVars == <<part, vars, cfgVars, bootVars, lanVars>>

(***************************************************************************)
(* The texts an operator writes: one that does not parse, a publisher with *)
(* its key, one without, one share for another, a default left out, and a  *)
(* share named twice.                                                      *)
(***************************************************************************)
ShareEntry(n, d, p) == [name |-> n, direction |-> d, publisher |-> p]
Toml(ss, d)         == [parses |-> TRUE, shares |-> ss, default |-> d]

StartToml  == Toml(<<ShareEntry("a", NoDirection, FALSE)>>, "bidirectional")
EditedToml ==
  {StartToml, [StartToml EXCEPT !.parses = FALSE],
   Toml(<<ShareEntry("a", "publisher", TRUE), ShareEntry("b", NoDirection, FALSE)>>,
        "receive_only"),
   Toml(<<ShareEntry("b", "publisher", FALSE)>>, "receive_only"),
   Toml(<<ShareEntry("b", NoDirection, FALSE)>>, "send_only"),
   Toml(<<ShareEntry("a", NoDirection, FALSE)>>, NoDirection),
   Toml(<<ShareEntry("b", "send_only", FALSE), ShareEntry("b", "send_only", FALSE)>>, NoDirection)}

\* What a part may start from is left open only where it is the part that moves.
Still(p, start) == part = p \/ start

MCInit ==
  /\ part \in {"sync_loop", "config", "boot", "lan"}
  /\ Init /\ DaemonInit /\ RunInit /\ LanInit
  /\ Still("boot", serverH)
  /\ Still("lan", cloudL = CHOOSE b \in BodiesL : TRUE)

LoopMoves   == part = "sync_loop" /\ Next /\ UNCHANGED <<part, cfgVars, bootVars, lanVars>>
ConfigMoves == part = "config" /\ DaemonNext /\ UNCHANGED <<part, vars, bootVars, lanVars>>
BootMoves   == part = "boot" /\ RunNext /\ UNCHANGED <<part, vars, cfgVars, lanVars>>
LanMoves    == part = "lan" /\ LanNext /\ UNCHANGED <<part, vars, cfgVars, bootVars>>

MCNext == LoopMoves \/ ConfigMoves \/ BootMoves \/ LanMoves

\* The fairness of each module, for the part that moves.
MCFairness ==
  /\ WF_vars(part = "sync_loop" /\ Tick)
  /\ \A s \in Shares : WF_vars(part = "sync_loop" /\ TaskStep(s))
  /\ WF_cfgVars(part = "config" /\ WatcherStep)
  /\ WF_cfgVars(part = "config" /\ ReconcilerStep)
  /\ WF_bootVars(part = "boot" /\ MainStep)
  /\ WF_bootVars(part = "boot" /\ InstallHandlers)
  /\ WF_bootVars(part = "boot" /\ SignalTaken)
  /\ \A s \in SharesH : /\ WF_bootVars(part = "boot" /\ ShareStep(s))
                        /\ WF_bootVars(part = "boot" /\ DwellEnds(s))
                        /\ WF_bootVars(part = "boot" /\ SweepEnds(s))
  /\ WF_lanVars(part = "lan" /\ FetchGoesOn)

MCSpec == MCInit /\ [][MCNext]_mcVars /\ MCFairness
=============================================================================
