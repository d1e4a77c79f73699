----------------------------- MODULE UploadGate -----------------------------
(***************************************************************************)
(* What an upload passes before it replaces a file: the checks at the      *)
(* start of delta_upload, the chunks spooled to a temporary file under the *)
(* share root, the content hash, the publisher's signature (built with the *)
(* feature publisher-verify) with its key cache and its counter, the quota *)
(* and the rename.  Requests run concurrently.                             *)
(***************************************************************************)
EXTENDS Naturals, FiniteSets

CONSTANTS Uploads,     \* requests
          ChunksU,     \* chunks of a whole upload
          KeyTtl,      \* publisher_keys are fresh for 24 hours
          MaxKeys,     \* bound on key rotations
          MaxClockU,   \* bound on the clock
          MaxCounter,  \* bound on counters
          NoKeyU

ASSUME GateAssumption ==
  /\ 0 \notin Uploads /\ ChunksU \in Nat \ {0} /\ KeyTtl \in Nat /\ NoKeyU \notin Nat
  /\ MaxKeys \in Nat \ {0} /\ MaxClockU \in Nat /\ MaxCounter \in Nat

VARIABLES admitsU,      \* session, tenant, role and folder rules allow an upload
          stageU,       \* stage[r]
          sentU,        \* sent[r]: chunks received
          proofU,       \* proof[r]: [key, counter] of the client's signature
          fetching,    \* fetching[r]: [at, key] of a fetch from the Vault under way
          spoolsU,      \* requests whose temporary file exists
          fileU,       \* the request whose bytes the file holds, 0 at first
          quarantineU,  \* requests whose bytes were set aside
          maxCounter, keyCache, vaultKey, retiredAt, clockU
gateVars == <<admitsU, stageU, sentU, proofU, fetching, spoolsU, fileU, quarantineU,
              maxCounter, keyCache, vaultKey, retiredAt, clockU>>
worldU == <<vaultKey, retiredAt, clockU>>
verifierU == <<maxCounter, keyCache>>

GateInit ==
  /\ admitsU = TRUE /\ stageU = [r \in Uploads |-> "new"] /\ sentU = [r \in Uploads |-> 0]
  /\ proofU = [r \in Uploads |-> [key |-> 0, counter |-> 0]]
  /\ fetching = [r \in Uploads |-> NoKeyU] /\ spoolsU = {} /\ fileU = 0 /\ quarantineU = {}
  /\ maxCounter = 0 /\ keyCache = NoKeyU /\ vaultKey = 1 /\ clockU = 0
  /\ retiredAt = [k \in 1..MaxKeys |-> MaxClockU + 1]

GotoU(r, s) == stageU' = [stageU EXCEPT ![r] = s]
InStageU(r, s) == stageU[r] = s

AdmissionChanges ==   \* a session ends, the ACL or the folder rules change
  /\ \E r \in Uploads : stageU[r] \in {"new", "stream"}
  /\ admitsU' = ~admitsU
  /\ UNCHANGED <<stageU, sentU, proofU, fetching, spoolsU, fileU, quarantineU, verifierU, worldU>>

(* require_auth, resolve_session_tenant, selective_includes_for_node and
   check_acl_by_cert, once, before the first chunk. *)
OpenUpload(r, k, c) ==
  /\ InStageU(r, "new") /\ admitsU /\ k <= vaultKey /\ GotoU(r, "stream")
  /\ proofU' = [proofU EXCEPT ![r] = [key |-> k, counter |-> c]]
  /\ UNCHANGED <<admitsU, sentU, fetching, spoolsU, fileU, quarantineU, verifierU, worldU>>
(* UploadSpool::create with the first chunk, append with each. *)
SpoolChunk(r) ==
  /\ InStageU(r, "stream") /\ sentU[r] < ChunksU
  /\ sentU' = [sentU EXCEPT ![r] = @ + 1] /\ spoolsU' = spoolsU \cup {r}
  /\ UNCHANGED <<admitsU, stageU, proofU, fetching, fileU, quarantineU, verifierU, worldU>>
(* A stream error, a damaged chunk or a failing write drops the spool. *)
DropSpool(r) == spoolsU \ {r}
StreamBreaks(r) ==
  /\ InStageU(r, "stream") /\ GotoU(r, "broken") /\ spoolsU' = DropSpool(r)
  /\ UNCHANGED <<admitsU, sentU, proofU, fetching, fileU, quarantineU, verifierU, worldU>>

(* The client declares the hash of the whole content. *)
ContentHashOk(r) == sentU[r] = ChunksU
StreamEnds(r) ==
  /\ InStageU(r, "stream")
  /\ IF ContentHashOk(r) THEN GotoU(r, "staged") /\ UNCHANGED spoolsU
                         ELSE GotoU(r, "refused") /\ spoolsU' = spoolsU \ {r}
  /\ UNCHANGED <<admitsU, sentU, proofU, fetching, fileU, quarantineU, verifierU, worldU>>

-----------------------------------------------------------------------------
(* PublisherVerifier::verify *)

\* Mutant: the failure is recorded and the upload goes on.
QuarantinedButKept(r) == GotoU(r, "verified") /\ quarantineU' = quarantineU \cup {r}
Quarantined(r) == GotoU(r, "quarantined") /\ quarantineU' = quarantineU \cup {r}
SignatureOk(r, k) == proofU[r].key = k

(* A request without a proof, or a server built or set up without the verifier. *)
NothingToVerify(r) ==
  /\ InStageU(r, "staged") /\ proofU[r].key = 0 /\ GotoU(r, "verified")
  /\ UNCHANGED <<admitsU, sentU, proofU, fetching, spoolsU, fileU, quarantineU, verifierU, worldU>>
Signed(r) == InStageU(r, "staged") /\ proofU[r].key # 0

FreshKey == keyCache # NoKeyU /\ clockU - keyCache.at < KeyTtl
KeyCached(r) ==
  /\ Signed(r) /\ FreshKey
  /\ IF SignatureOk(r, keyCache.key) THEN GotoU(r, "signed") /\ UNCHANGED quarantineU
                                     ELSE Quarantined(r)
  /\ UNCHANGED <<admitsU, sentU, proofU, fetching, spoolsU, fileU, verifierU, worldU>>
(* fetch_pubkey: the time of the cache entry is taken before the call. *)
FetchStarts(r) ==
  /\ Signed(r) /\ ~FreshKey /\ GotoU(r, "fetch")
  /\ fetching' = [fetching EXCEPT ![r] = [at |-> clockU, key |-> NoKeyU]]
  /\ UNCHANGED <<admitsU, sentU, proofU, spoolsU, fileU, quarantineU, verifierU, worldU>>
VaultAnswers(r) ==
  /\ InStageU(r, "fetch") /\ fetching[r].key = NoKeyU
  /\ fetching' = [fetching EXCEPT ![r].key = vaultKey]
  /\ UNCHANGED <<admitsU, stageU, sentU, proofU, spoolsU, fileU, quarantineU, verifierU, worldU>>
FetchFails(r) ==
  /\ InStageU(r, "fetch") /\ Quarantined(r)
  /\ UNCHANGED <<admitsU, sentU, proofU, fetching, spoolsU, fileU, verifierU, worldU>>
CacheEntry(r) == fetching[r]
KeyArrives(r) ==
  /\ InStageU(r, "fetch") /\ fetching[r].key # NoKeyU
  /\ keyCache' \in {CacheEntry(r), keyCache}   \* a failed upsert is ignored
  /\ IF SignatureOk(r, fetching[r].key) THEN GotoU(r, "signed") /\ UNCHANGED quarantineU
                                        ELSE Quarantined(r)
  /\ UNCHANGED <<admitsU, sentU, proofU, fetching, spoolsU, fileU, maxCounter, worldU>>

(* check_and_advance_counter: the read and the upsert are two statements. *)
CheckCounter(r) ==
  /\ InStageU(r, "signed")
  /\ IF proofU[r].counter > maxCounter THEN GotoU(r, "counted") /\ UNCHANGED quarantineU
                                      ELSE Quarantined(r)
  /\ UNCHANGED <<admitsU, sentU, proofU, fetching, spoolsU, fileU, verifierU, worldU>>
AdvanceCounter(r) ==
  /\ InStageU(r, "counted") /\ GotoU(r, "verified") /\ maxCounter' = proofU[r].counter
  /\ UNCHANGED <<admitsU, sentU, proofU, fetching, spoolsU, fileU, quarantineU, keyCache, worldU>>

(* check_upload refuses; the temporary file stays. *)
QuotaRefuses(r) ==
  /\ InStageU(r, "verified") /\ GotoU(r, "refused")
  /\ UNCHANGED <<admitsU, sentU, proofU, fetching, spoolsU, fileU, quarantineU, verifierU, worldU>>
CommitUpload(r) ==
  /\ InStageU(r, "verified") /\ GotoU(r, "done") /\ fileU' = r /\ spoolsU' = spoolsU \ {r}
  /\ UNCHANGED <<admitsU, sentU, proofU, fetching, quarantineU, verifierU, worldU>>

RotateKey ==
  /\ vaultKey < MaxKeys /\ vaultKey' = vaultKey + 1
  /\ retiredAt' = [retiredAt EXCEPT ![vaultKey] = clockU]
  /\ UNCHANGED <<admitsU, stageU, sentU, proofU, fetching, spoolsU, fileU, quarantineU,
                 verifierU, clockU>>
HoursPass ==
  /\ clockU < MaxClockU /\ clockU' = clockU + 1
  /\ UNCHANGED <<admitsU, stageU, sentU, proofU, fetching, spoolsU, fileU, quarantineU,
                 verifierU, vaultKey, retiredAt>>

GateNext ==
  \/ \E r \in Uploads :
       \/ \E k \in 0..MaxKeys, c \in 1..MaxCounter : OpenUpload(r, k, c)
       \/ SpoolChunk(r) \/ StreamBreaks(r) \/ StreamEnds(r)
       \/ NothingToVerify(r) \/ KeyCached(r) \/ FetchStarts(r) \/ VaultAnswers(r)
       \/ FetchFails(r) \/ KeyArrives(r)
       \/ CheckCounter(r) \/ AdvanceCounter(r) \/ QuotaRefuses(r) \/ CommitUpload(r)
  \/ AdmissionChanges \/ RotateKey \/ HoursPass
GateSpec == GateInit /\ [][GateNext]_gateVars
-----------------------------------------------------------------------------
(* The file never holds a part of an upload, nor an upload that the publisher
   check set aside, however the streams of several requests break off and
   interleave (delta_upload, UploadSpool). *)
FileIsWhole ==
  fileU # 0 => sentU[fileU] = ChunksU /\ fileU \notin quarantineU

(* A temporary file outlives its request only if the request came through with
   all of its content and was then refused by the publisher check or the quota,
   which forget to remove it: an interrupted stream leaves nothing behind
   (UploadSpool::drop, delta_upload). *)
StraySpools ==
  \A r \in spoolsU : stageU[r] \in {"broken", "done", "refused", "quarantined"} =>
    sentU[r] = ChunksU

(* A key served from the cache was the Vault's key less than a TTL ago, even if
   a slow fetch writes an old key over a newer one (get_pubkey). *)
CachedKeyWasCurrent ==
  keyCache # NoKeyU => keyCache.at <= retiredAt[keyCache.key]

(* An upload is taken over as a whole or not at all, under a key that was
   valid when it was fetched, and an interrupted one leaves no spool
   (delta_upload, get_pubkey). *)
GateSound == FileIsWhole /\ StraySpools /\ CachedKeyWasCurrent
=============================================================================
