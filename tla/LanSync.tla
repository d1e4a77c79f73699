------------------------------ MODULE LanSync ------------------------------
(***************************************************************************)
(* LAN sync of a node: the mDNS discovery task and its peer registry, the  *)
(* blob server of the peers, and the download that asks them before it     *)
(* asks the cloud.  A body stands for its own blake3 hash.  Peers are      *)
(* numbered in the order of their node ids.                                *)
(***************************************************************************)
EXTENDS Naturals, FiniteSets, FiniteSetsExt

CONSTANTS PeersL,     \* the nodes on the link, this one included
          SelfL,      \* this node
          FleetL,     \* those of this node's tenant
          BodiesL,    \* contents of the one file
          PeerTtl,    \* PEER_TTL_SECS
          MaxClockL,  \* bound on the clock
          MaxFetches, \* bound on downloads
          MaxResolved,\* bound on the announcements that wait (the code's is 64)
          NoBodyL

ASSUME LanAssumption ==
  /\ PeersL \subseteq Nat /\ SelfL \in FleetL /\ FleetL \subseteq PeersL
  /\ PeerTtl \in Nat /\ NoBodyL \notin BodiesL

VARIABLES browsing,   \* the blocking mDNS reader still runs
          discovering,\* the discovery task still runs
          resolved,   \* peers in the channel, each with the time it was seen
          lastSeen,   \* the registry: lastSeen[p], 0 when p is not in it
          clockL, holdsL, cloudL, askingL, candidatesL, expectedL, gotL, fetches
lanVars == <<browsing, discovering, resolved, lastSeen, clockL, holdsL, cloudL,
             askingL, candidatesL, expectedL, gotL, fetches>>

LanInit ==
  /\ browsing = TRUE /\ discovering = TRUE /\ resolved = {}
  /\ lastSeen = [p \in PeersL |-> 0] /\ clockL = 1
  /\ holdsL = [p \in PeersL |-> NoBodyL] /\ cloudL \in BodiesL
  /\ askingL = FALSE /\ candidatesL = {} /\ expectedL = NoBodyL /\ gotL = NoBodyL
  /\ fetches = 0

lanDiscovery == <<browsing, discovering, resolved, lastSeen>>
lanTransfer == <<askingL, candidatesL, expectedL, gotL, fetches>>

(* mDNS resolves a service; this node's own announcement is heard too. *)
ServiceResolved(p) ==
  /\ browsing /\ Cardinality(resolved) < MaxResolved
  /\ resolved' = resolved \cup {<<p, clockL>>}
  /\ UNCHANGED <<browsing, discovering, lastSeen, clockL, holdsL, cloudL, lanTransfer>>
(* A second without an event ends the loop around recv_timeout. *)
BrowsingEnds ==
  /\ browsing /\ browsing' = FALSE
  /\ UNCHANGED <<discovering, resolved, lastSeen, clockL, holdsL, cloudL, lanTransfer>>
RegistryUpsert(e) ==
  /\ discovering /\ e \in resolved /\ resolved' = resolved \ {e}
  /\ lastSeen' = IF e[1] = SelfL THEN lastSeen ELSE [lastSeen EXCEPT ![e[1]] = e[2]]
  /\ UNCHANGED <<browsing, discovering, clockL, holdsL, cloudL, lanTransfer>>
ShutdownLan ==
  /\ discovering /\ discovering' = FALSE /\ browsing' = FALSE /\ resolved' = {}
  /\ lastSeen' = [p \in PeersL |-> 0]
  /\ UNCHANGED <<clockL, holdsL, cloudL, lanTransfer>>

PeerEdits(p, b) ==
  /\ p \in FleetL \ {SelfL} /\ holdsL[p] # b /\ holdsL' = [holdsL EXCEPT ![p] = b]
  /\ UNCHANGED <<lanDiscovery, clockL, cloudL, lanTransfer>>
CloudMoves(b) ==
  /\ cloudL # b /\ cloudL' = b
  /\ UNCHANGED <<lanDiscovery, clockL, holdsL, lanTransfer>>
SecondPassesL ==
  /\ clockL < MaxClockL /\ clockL' = clockL + 1
  /\ UNCHANGED <<lanDiscovery, holdsL, cloudL, lanTransfer>>

SnapshotL == {p \in PeersL : lastSeen[p] > 0 /\ clockL - lastSeen[p] <= PeerTtl}
EligiblePeers(ps) == ps \cap FleetL
(* The cloud's ExchangeState names the content; the registry is pruned and the
   candidates are fixed here, before any of them is asked. *)
StartFetch ==
  /\ ~askingL /\ fetches < MaxFetches /\ fetches' = fetches + 1
  /\ askingL' = TRUE /\ expectedL' = cloudL /\ gotL' = NoBodyL
  /\ candidatesL' = EligiblePeers(SnapshotL)
  /\ lastSeen' = [p \in PeersL |-> IF p \in SnapshotL THEN lastSeen[p] ELSE 0]
  /\ UNCHANGED <<browsing, discovering, resolved, clockL, holdsL, cloudL>>

(* check_authorize and get_blob at the peer. *)
CheckAuthorize(p) == SelfL # p /\ p \in FleetL
GetBlob(p) == IF CheckAuthorize(p) THEN holdsL[p] ELSE NoBodyL
Verified(b) == b # NoBodyL /\ b = expectedL
\* Mutant: a peer that failed is asked again.
NextPeerSame(p) == candidatesL
NextPeer(p) == candidatesL \ {p}

PeerHit ==
  /\ askingL /\ candidatesL # {} /\ Verified(GetBlob(Min(candidatesL)))
  /\ gotL' = GetBlob(Min(candidatesL)) /\ askingL' = FALSE /\ candidatesL' = {}
  /\ UNCHANGED <<lanDiscovery, clockL, holdsL, cloudL, expectedL, fetches>>
(* A refusal, a missing file, another hash, an error or the timeout. *)
PeerMiss ==
  /\ askingL /\ candidatesL # {} /\ candidatesL' = NextPeer(Min(candidatesL))
  /\ UNCHANGED <<lanDiscovery, clockL, holdsL, cloudL, askingL, expectedL, gotL, fetches>>
(* The cloud answers with what it holds now, or not at all; what is not the
   expected content is dropped (materialize_downloaded_bytes). *)
CloudAnswers ==
  /\ askingL /\ candidatesL = {} /\ askingL' = FALSE
  /\ gotL' = IF cloudL = expectedL THEN cloudL ELSE NoBodyL
  /\ UNCHANGED <<lanDiscovery, clockL, holdsL, cloudL, candidatesL, expectedL, fetches>>
CloudFails ==
  /\ askingL /\ candidatesL = {} /\ askingL' = FALSE
  /\ UNCHANGED <<lanDiscovery, clockL, holdsL, cloudL, candidatesL, expectedL, gotL, fetches>>

LanNext ==
  \/ \E p \in PeersL :
       \/ ServiceResolved(p)
       \/ \E b \in BodiesL \cup {NoBodyL} : PeerEdits(p, b)
  \/ \E e \in resolved : RegistryUpsert(e)
  \/ \E b \in BodiesL : CloudMoves(b)
  \/ BrowsingEnds \/ ShutdownLan \/ SecondPassesL \/ StartFetch
  \/ PeerHit \/ PeerMiss \/ CloudAnswers \/ CloudFails
(* Each request has a timeout of its own, so a fetch always goes on. *)
FetchGoesOn == PeerHit \/ PeerMiss \/ CloudAnswers \/ CloudFails
LanSpec == LanInit /\ [][LanNext]_lanVars /\ WF_lanVars(FetchGoesOn)
-----------------------------------------------------------------------------
(* What a download delivers is the content that the exchange named, although
   the candidates were chosen from announcements up to a TTL old and every
   holder may edit its copy meanwhile (try_lan_fetch, fetch_blob_from_peer). *)
FetchedIsExpected == gotL \in {NoBodyL, expectedL}

(* A LAN peer delays a download but never blocks it: each attempt ends with the
   content or with the cloud's answer (try_lan_fetch, LAN_FETCH_TIMEOUT). *)
FetchEnds == askingL ~> ~askingL

(* A fetch from peers ends and yields the content that the exchange named,
   from a peer or from the server (try_lan_fetch). *)
FetchSound == []FetchedIsExpected /\ FetchEnds
=============================================================================
