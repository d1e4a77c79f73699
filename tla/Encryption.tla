----------------------------- MODULE Encryption -----------------------------
(***************************************************************************)
(* The end-to-end key of a node: `disk vault unlock | lock | escrow`, the  *)
(* key store behind them, and the daemon that resolves a key once when it  *)
(* starts and seals what it uploads with it.  A key is the pair of the     *)
(* passphrase and the salt it is derived from (Argon2id): equal pairs and  *)
(* only those give equal keys.                                             *)
(***************************************************************************)
EXTENDS Naturals, FiniteSets

CONSTANTS Passphrases,  \* what may be typed; one is the vault's
          Salts,        \* random salts, drawn one after the other
          MaxOpsK,      \* bound on commands and daemon starts
          NoKey,        \* no record, no key
          Torn          \* a record that cannot be parsed

\* Keys, the records of a store and the escrow file.
KeysK == Passphrases \X Salts
RecordsK == [salt : Salts, key : KeysK]
EscrowsK == [recovery : Passphrases, key : KeysK]

ASSUME KeysAssumption ==
  /\ MaxOpsK \in Nat /\ NoKey # Torn
  /\ {NoKey, Torn} \cap (Salts \cup KeysK \cup RecordsK \cup EscrowsK) = {}

Derive(p, s) == <<p, s>>
Backends == {"os", "file"}

VARIABLES stored,     \* stored[b]: NoKey, Torn or [salt, key]: label e2ee.<node>
          keychainUp, \* the OS keychain answers
          envKey,     \* what DISK_VAULT_PASSPHRASE and DISK_VAULT_SALT give
          escrow,     \* NoKey, Torn or [recovery, key]
          drawn,      \* salts drawn so far
          daemonKey,  \* the key the running daemon resolved, or NoKey
          sealed,     \* keys of the ciphertexts that the server holds
          lastK,      \* the last command
          opsK
keyVars == <<stored, keychainUp, envKey, escrow, drawn, daemonKey, sealed, lastK, opsK>>
OpK(what) == opsK < MaxOpsK /\ opsK' = opsK + 1 /\ lastK' = what

KeysInit ==
  /\ stored = [b \in Backends |-> NoKey] /\ keychainUp \in BOOLEAN
  /\ envKey \in {NoKey, Torn} \cup {Derive(p, s) : p \in Passphrases, s \in Salts}
  /\ escrow = NoKey /\ drawn = {} /\ daemonKey = NoKey /\ sealed = {}
  /\ lastK = "none" /\ opsK = 0

-----------------------------------------------------------------------------
(* The key store *)

(* validate_label wants a lower-case letter or a digit first; the probe's
   label begins with an underscore. *)
ValidateLabel(label) == label \in {"e2ee.node"}
ProbeOsKeystore == keychainUp /\ ValidateLabel("__probe__")
DetectOrFile == IF ProbeOsKeystore THEN "os" ELSE "file"
LoadRecord == stored[DetectOrFile]
StoreRecord(r) == stored' = [stored EXCEPT ![DetectOrFile] = r]
DeleteRecord == stored' = [stored EXCEPT ![DetectOrFile] = NoKey]
(* The file is truncated and written in place: a stop in between leaves an
   empty record. *)
StoreTorn == StoreRecord(Torn)

-----------------------------------------------------------------------------
(* Keys: NoKey where the code returns None, Torn where it returns an error *)

Readable(r) == r \notin {NoKey, Torn}
ParseStoredKey(r) == IF Readable(r) THEN r.key ELSE Torn
LoadFromEnv == envKey
LoadFromKeystore == IF LoadRecord = NoKey THEN NoKey ELSE ParseStoredKey(LoadRecord)
ResolveVaultKey == IF LoadFromEnv # NoKey THEN LoadFromEnv ELSE LoadFromKeystore

(* The salt of an unlock: the given one, the stored one, or a fresh one; an
   unreadable record stops the command. *)
\* Mutant: every unlock draws a salt.
SaltForUnlockFresh(override) == Salts \ drawn
SaltForUnlock(override) ==
  IF override # NoKey THEN {override}
  ELSE IF Readable(LoadRecord) THEN {LoadRecord.salt}
  ELSE IF LoadRecord = NoKey THEN Salts \ drawn ELSE {}
UnlockVaultKey(p, override) ==
  \E s \in SaltForUnlock(override) :
     StoreRecord([salt |-> s, key |-> Derive(p, s)]) /\ drawn' = drawn \cup {s}
(* The record gets a salt that the key was not derived from. *)
ImportVaultKey(k) ==
  \E s \in Salts \ drawn :
     StoreRecord([salt |-> s, key |-> k]) /\ drawn' = drawn \cup {s}

CreateEscrowBlob(k, recovery) == [recovery |-> recovery, key |-> k]
RecoverFromEscrow(blob, recovery) == IF blob.recovery = recovery THEN blob.key ELSE Torn
WriteEscrowFile(blob) == escrow' = blob

-----------------------------------------------------------------------------
(* `disk vault` and the daemon *)

RunUnlock(p, override) ==
  /\ OpK("unlock") /\ UnlockVaultKey(p, override)
  /\ UNCHANGED <<keychainUp, envKey, escrow, daemonKey, sealed>>
CommandStops ==
  /\ OpK("stopped")
  /\ \/ SaltForUnlock(NoKey) # {} /\ StoreTorn /\ UNCHANGED escrow
     \/ Readable(ResolveVaultKey) /\ WriteEscrowFile(Torn) /\ UNCHANGED stored
  /\ UNCHANGED <<keychainUp, envKey, drawn, daemonKey, sealed>>
RunLock ==
  /\ OpK("lock") /\ DeleteRecord
  /\ UNCHANGED <<keychainUp, envKey, escrow, drawn, daemonKey, sealed>>
RunEscrowCreate(recovery) ==
  /\ Readable(ResolveVaultKey) /\ OpK("escrow")
  /\ WriteEscrowFile(CreateEscrowBlob(ResolveVaultKey, recovery))
  /\ UNCHANGED <<stored, keychainUp, envKey, drawn, daemonKey, sealed>>
RunEscrowRecover(recovery) ==
  /\ Readable(escrow) /\ RecoverFromEscrow(escrow, recovery) # Torn /\ OpK("recover")
  /\ ImportVaultKey(RecoverFromEscrow(escrow, recovery))
  /\ UNCHANGED <<keychainUp, envKey, escrow, daemonKey, sealed>>

(* The daemon resolves the key when it starts and keeps it; without one its
   uploads stay plaintext. *)
DaemonStartsK ==
  /\ OpK("daemon")
  /\ daemonKey' = IF Readable(ResolveVaultKey) THEN ResolveVaultKey ELSE NoKey
  /\ UNCHANGED <<stored, keychainUp, envKey, escrow, drawn, sealed>>
SealUpload ==
  /\ daemonKey # NoKey /\ daemonKey \notin sealed
  /\ sealed' = sealed \cup {daemonKey}
  /\ UNCHANGED <<stored, keychainUp, envKey, escrow, drawn, daemonKey, lastK, opsK>>
KeychainFlips ==
  /\ opsK < MaxOpsK /\ opsK' = opsK + 1 /\ keychainUp' = ~keychainUp
  /\ UNCHANGED <<stored, envKey, escrow, drawn, daemonKey, sealed, lastK>>

KeysNext ==
  \/ \E p \in Passphrases :
       \/ \E o \in drawn \cup {NoKey} : RunUnlock(p, o)
       \/ RunEscrowCreate(p) \/ RunEscrowRecover(p)
  \/ CommandStops \/ RunLock \/ DaemonStartsK \/ SealUpload \/ KeychainFlips
KeysSpec == KeysInit /\ [][KeysNext]_keyVars
-----------------------------------------------------------------------------
(* The keys a person who knows every passphrase and the environment can still
   obtain. *)
Obtainable ==
  LET records == {r \in {stored[b] : b \in Backends} : Readable(r)}
  IN  {r.key : r \in records} \cup {Derive(p, r.salt) : p \in Passphrases, r \in records}
      \cup (IF Readable(escrow) THEN {escrow.key} ELSE {}) \cup {envKey}

(* `disk vault unlock` without --salt makes no ciphertext unreadable, whatever
   passphrase is typed and whatever came before: it keeps the salt it finds,
   and a key that came from an escrow is still in the escrow unless a stop tore
   that file (unlock_vault_key, import_vault_key). *)
UnlockLosesNoKey ==
  \A p \in Passphrases : RunUnlock(p, NoKey) /\ escrow # Torn =>
     sealed \cap Obtainable \subseteq Obtainable'

(* After `disk vault lock` no store holds the key, although each command
   decides for itself which store it uses (detect_or_file). *)
LockLeavesNothing ==
  lastK = "lock" => \A b \in Backends : stored[b] = NoKey

-----------------------------------------------------------------------------
(***************************************************************************)
(* One file of an encrypted share during RemoteSync::execute: the scan, the *)
(* overlay that replaces the plaintext hash by the hash of a ciphertext,   *)
(* the upload and the download.  A ciphertext is the pair of the body and  *)
(* the random nonce it was sealed with, and stands for its own hash.  The  *)
(* transport is built anew for each cycle, so its in-memory cache is empty *)
(* whenever the overlay reads it and is left out.                          *)
(***************************************************************************)

CONSTANTS SizesW,     \* plaintext lengths
          TextsW,     \* distinct texts of one length
          MaxSaves,   \* bound on writes of the file (its mtime)
          MaxNonce,   \* bound on encryptions
          NoWire

ASSUME WireAssumption == MaxSaves \in Nat /\ MaxNonce \in Nat

BodiesW == [size : SizesW, text : TextsW]
VaultsW == {"default", "notes"}   \* VAULT_DEFAULT and a share's name

VARIABLES shareW,    \* the name of the share
          fileW,     \* [body, mtime]
          rowsW,     \* rows[v]: the wire index stored for the file in vault v
          serverW,   \* the ciphertext the server holds
          noncesW,   \* encryptions so far
          cycleW,    \* "idle", "scanned", "upload", "sending", "download", "written"
          scannedW,  \* [mtime, size] of the scan, NoWire outside a cycle
          wantedW,   \* the ciphertext the exchange or the encryption settled on
          slippedW   \* mtimes of saves made while a transfer was under way
wireVars == <<shareW, fileW, rowsW, serverW, noncesW, cycleW, scannedW, wantedW, slippedW>>

WireInit ==
  /\ shareW \in VaultsW /\ fileW \in [body : BodiesW, mtime : {1}]
  /\ rowsW = [v \in VaultsW |-> NoWire] /\ \E b \in BodiesW : serverW = <<b, 1>>
  /\ noncesW = 1 /\ cycleW = "idle" /\ scannedW = NoWire /\ wantedW = NoWire
  /\ slippedW = {}

(* from_plaintext_encrypted: every call draws a nonce. *)
Encrypt(b) == <<b, noncesW + 1>>

SaveBody(b) ==
  /\ fileW.mtime < MaxSaves /\ b # fileW.body
  /\ fileW' = [body |-> b, mtime |-> fileW.mtime + 1]
  /\ slippedW' = IF cycleW \in {"sending", "written"}
                THEN slippedW \cup {fileW.mtime + 1} ELSE slippedW
  /\ UNCHANGED <<shareW, rowsW, serverW, noncesW, cycleW, scannedW, wantedW>>
OtherUploads(b) ==
  /\ noncesW < MaxNonce /\ noncesW' = noncesW + 1 /\ serverW' = Encrypt(b)
  /\ UNCHANGED <<shareW, fileW, rowsW, cycleW, scannedW, wantedW, slippedW>>

ScanFile ==
  /\ cycleW = "idle" /\ noncesW + 1 < MaxNonce
  /\ cycleW' = "scanned" /\ scannedW' = [mtime |-> fileW.mtime, size |-> fileW.body.size]
  /\ UNCHANGED <<shareW, fileW, rowsW, serverW, noncesW, wantedW, slippedW>>

MatchesScan(row, scan) ==
  row # NoWire /\ row.mtime = scan.mtime /\ row.size = scan.size

(* list_all_files lists the vault "default". *)
CachedWire == rowsW["default"]

(* The overlay reports the cached ciphertext when the row matches the scan;
   otherwise it encrypts what the file holds now.  The exchange compares the
   reported hash with the server's; a difference is settled by an upload or a
   download. *)
ExchangeWire ==
  /\ cycleW = "scanned"
  /\ LET hit == MatchesScan(CachedWire, scannedW)
         claim == IF hit THEN CachedWire.hash ELSE Encrypt(fileW.body)
     IN  /\ noncesW' = IF hit THEN noncesW ELSE noncesW + 1
         /\ cycleW' \in IF claim = serverW THEN {"idle"} ELSE {"upload", "download"}
         /\ wantedW' = serverW
  /\ UNCHANGED <<shareW, fileW, rowsW, serverW, scannedW, slippedW>>
OverlayFails ==   \* the file cannot be read: it is left out of the exchange
  /\ cycleW = "scanned" /\ ~MatchesScan(CachedWire, scannedW) /\ cycleW' = "idle"
  /\ UNCHANGED <<shareW, fileW, rowsW, serverW, noncesW, scannedW, wantedW, slippedW>>

ReadAndEncrypt ==
  /\ cycleW = "upload" /\ noncesW < MaxNonce
  /\ wantedW' = Encrypt(fileW.body) /\ noncesW' = noncesW + 1 /\ cycleW' = "sending"
  /\ UNCHANGED <<shareW, fileW, rowsW, serverW, scannedW, slippedW>>

(* The row takes the modification time of the file as it is by then. *)
PersistWireMeta(c) ==
  rowsW' = [rowsW EXCEPT ![shareW] =
             [hash |-> c, mtime |-> fileW.mtime, size |-> c[1].size]]
UploadDone ==
  /\ cycleW = "sending" /\ serverW' = wantedW /\ cycleW' = "idle"
  /\ PersistWireMeta(wantedW) \/ rowsW' = rowsW   \* a failed write is only logged
  /\ UNCHANGED <<shareW, fileW, noncesW, scannedW, wantedW, slippedW>>
TransferFails ==
  /\ cycleW \in {"upload", "sending", "download"} /\ cycleW' = "idle"
  /\ UNCHANGED <<shareW, fileW, rowsW, serverW, noncesW, scannedW, wantedW, slippedW>>

(* download_file returns what the server holds now; from_wire_bytes keeps it
   only if it is the ciphertext that the exchange named. *)
FromWireBytes(got, promised) == got = promised
DownloadBody ==
  /\ cycleW = "download" /\ FromWireBytes(serverW, wantedW) /\ fileW.mtime < MaxSaves
  /\ fileW' = [body |-> serverW[1], mtime |-> fileW.mtime + 1] /\ cycleW' = "written"
  /\ UNCHANGED <<shareW, rowsW, serverW, noncesW, scannedW, wantedW, slippedW>>
DownloadPersist ==
  /\ cycleW = "written" /\ cycleW' = "idle"
  /\ PersistWireMeta(wantedW) \/ rowsW' = rowsW
  /\ UNCHANGED <<shareW, fileW, serverW, noncesW, scannedW, wantedW, slippedW>>

WireNext ==
  \/ \E b \in BodiesW : SaveBody(b) \/ OtherUploads(b)
  \/ ScanFile \/ ExchangeWire \/ OverlayFails \/ ReadAndEncrypt
  \/ UploadDone \/ TransferFails \/ DownloadBody \/ DownloadPersist
WireSpec == WireInit /\ [][WireNext]_wireVars
-----------------------------------------------------------------------------
(* A stored wire index that a scan would reuse decrypts to what the file holds
   now, unless the file was saved between the moment the transfer read or wrote
   it and the moment its modification time was taken (overlay_scanned_meta,
   persist_e2ee_wire_meta).  A save of another length in that window is noticed
   all the same. *)
ReusedIndexIsCurrent ==
  \A v \in VaultsW :
    MatchesScan(rowsW[v], [mtime |-> fileW.mtime, size |-> fileW.body.size]) =>
      \/ rowsW[v].hash[1] = fileW.body
      \/ fileW.mtime \in slippedW /\ rowsW[v].hash[1].size = fileW.body.size

(* A download replaces the file by the body of the ciphertext that the exchange
   of the same cycle named, even if another node uploads in between
   (DownloadPayload::from_wire_bytes). *)
DownloadIsPromised ==
  (cycleW = "download" /\ cycleW' = "written") => fileW'.body = wantedW[1]

(* What was sealed can be opened and is what it is taken for: no unlock loses a
   key and no lock leaves one, and neither a download nor the reuse of a stored
   index takes one content for another (vault_key.rs, exchange_overlay.rs). *)
EncryptionSound ==
  [][/\ UnlockLosesNoKey /\ LockLeavesNothing'
     /\ DownloadIsPromised /\ ReusedIndexIsCurrent']_<<keyVars, wireVars>>
=============================================================================
