------------------------------ MODULE MCPersonal ------------------------------
(***************************************************************************)
(* What runs on a person's machine beside the sync loop: conflict copies,  *)
(* the vault key, encrypted and delta transfers, the command line, the GUI,*)
(* the import of an existing tree, folder archives, embedding sidecars, and*)
(* the parts of the personal vault.  They share no state the properties    *)
(* look at, so a behaviour moves one of them, the part, and leaves the     *)
(* others as they started.                                                 *)
(***************************************************************************)
EXTENDS Conflicts, Encryption, CommandLine, Gui, FileCommands, ParentVault,
        Provider, OwnerJournal, SqliteVfs, Delta

CONSTANTS r1, r2, r3

VARIABLE part

mcVars == <<part, conflictVars, keyVars, wireVars, cliVars, guiVars, importVars,
            pvVars, providerVars, ojVars, vfsVars, captureVars, deltaVars,
            archiveVars, embVars, vfsfVars>>

\* Two of the three staged requests are for one object revision.
SharedTarget == (r1 :> "a") @@ (r2 :> "b") @@ (r3 :> "a")

ProcSymmetry == Permutations(Procs)

\* What a part may start from is left open only where it is the part that moves.
Still(p, start) == part = p \/ start

MCInit ==
  /\ part \in {"conflicts", "keys", "wire", "cli", "gui", "import", "parent", "provider",
               "journal", "vfs", "capture", "delta", "archive", "embeddings",
               "parent_files"}
  /\ ParentInit /\ ProviderInit /\ JournalInit /\ VfsInit /\ FileInit
  /\ ConflictsInit
  /\ Still("conflicts", follower = {})
  /\ KeysInit
  /\ Still("keys", keychainUp /\ envKey = NoKey)
  /\ WireInit
  /\ Still("wire", /\ shareW = CHOOSE v \in VaultsW : TRUE
                   /\ fileW.body = CHOOSE b \in BodiesW : TRUE
                   /\ serverW = <<fileW.body, 1>>)
  /\ CliInit
  /\ Still("cli", context = (CHOOSE t \in TenantsC : TRUE) /\ toml.tenant = context)
  /\ GuiInit
  /\ Still("gui", daemonsG = [h \in HostsG |-> {}])
  /\ ImportInit
  /\ Still("import", treeI = [n \in NamesI |-> NoBodyI])
  /\ CaptureInit
  /\ Still("capture", wireK = CHOOSE w \in WireK : Valid(w))
  /\ DeltaInit
  /\ Still("delta", baseD = <<>> /\ clientD = <<>>)
  /\ ArchiveInit
  /\ Still("archive", folderA = [n \in NamesA |-> NoneA])
  /\ EmbInit
  /\ Still("embeddings", /\ sourceE = (CHOOSE b \in BodiesE : TRUE) 
                         /\ configE = CHOOSE c \in ConfigsE : c.enabled)

ConflictsMoves ==
  /\ part = "conflicts" /\ ConflictsNext
  /\ UNCHANGED <<part, keyVars, wireVars, cliVars, guiVars, importVars, pvVars,
                 providerVars, ojVars, vfsVars, captureVars, deltaVars, archiveVars,
                 embVars, vfsfVars>>

KeysMoves ==
  /\ part = "keys" /\ KeysNext
  /\ UNCHANGED <<part, conflictVars, wireVars, cliVars, guiVars, importVars, pvVars,
                 providerVars, ojVars, vfsVars, captureVars, deltaVars, archiveVars,
                 embVars, vfsfVars>>

WireMoves ==
  /\ part = "wire" /\ WireNext
  /\ UNCHANGED <<part, conflictVars, keyVars, cliVars, guiVars, importVars, pvVars,
                 providerVars, ojVars, vfsVars, captureVars, deltaVars, archiveVars,
                 embVars, vfsfVars>>

CliMoves ==
  /\ part = "cli" /\ CliNext
  /\ UNCHANGED <<part, conflictVars, keyVars, wireVars, guiVars, importVars, pvVars,
                 providerVars, ojVars, vfsVars, captureVars, deltaVars, archiveVars,
                 embVars, vfsfVars>>

GuiMoves ==
  /\ part = "gui" /\ GuiNext
  /\ UNCHANGED <<part, conflictVars, keyVars, wireVars, cliVars, importVars, pvVars,
                 providerVars, ojVars, vfsVars, captureVars, deltaVars, archiveVars,
                 embVars, vfsfVars>>

ImportMoves ==
  /\ part = "import" /\ ImportNext
  /\ UNCHANGED <<part, conflictVars, keyVars, wireVars, cliVars, guiVars, pvVars,
                 providerVars, ojVars, vfsVars, captureVars, deltaVars, archiveVars,
                 embVars, vfsfVars>>

ParentMoves ==
  /\ part = "parent" /\ ParentNext
  /\ UNCHANGED <<part, conflictVars, keyVars, wireVars, cliVars, guiVars, importVars,
                 providerVars, ojVars, vfsVars, captureVars, deltaVars, archiveVars,
                 embVars, vfsfVars>>

ProviderMoves ==
  /\ part = "provider" /\ ProviderNext
  /\ UNCHANGED <<part, conflictVars, keyVars, wireVars, cliVars, guiVars, importVars,
                 pvVars, ojVars, vfsVars, captureVars, deltaVars, archiveVars,
                 embVars, vfsfVars>>

JournalMoves ==
  /\ part = "journal" /\ JournalNext
  /\ UNCHANGED <<part, conflictVars, keyVars, wireVars, cliVars, guiVars, importVars,
                 pvVars, providerVars, vfsVars, captureVars, deltaVars, archiveVars,
                 embVars, vfsfVars>>

VfsMoves ==
  /\ part = "vfs" /\ VfsNext
  /\ UNCHANGED <<part, conflictVars, keyVars, wireVars, cliVars, guiVars, importVars,
                 pvVars, providerVars, ojVars, captureVars, deltaVars, archiveVars,
                 embVars, vfsfVars>>

CaptureMoves ==
  /\ part = "capture" /\ CaptureNext
  /\ UNCHANGED <<part, conflictVars, keyVars, wireVars, cliVars, guiVars, importVars,
                 pvVars, providerVars, ojVars, vfsVars, deltaVars, archiveVars,
                 embVars, vfsfVars>>

DeltaMoves ==
  /\ part = "delta" /\ DeltaNext
  /\ UNCHANGED <<part, conflictVars, keyVars, wireVars, cliVars, guiVars, importVars,
                 pvVars, providerVars, ojVars, vfsVars, captureVars, archiveVars,
                 embVars, vfsfVars>>

ArchiveMoves ==
  /\ part = "archive" /\ ArchiveNext
  /\ UNCHANGED <<part, conflictVars, keyVars, wireVars, cliVars, guiVars, importVars,
                 pvVars, providerVars, ojVars, vfsVars, captureVars, deltaVars,
                 embVars, vfsfVars>>

EmbeddingsMoves ==
  /\ part = "embeddings" /\ EmbNext
  /\ UNCHANGED <<part, conflictVars, keyVars, wireVars, cliVars, guiVars, importVars,
                 pvVars, providerVars, ojVars, vfsVars, captureVars, deltaVars,
                 archiveVars, vfsfVars>>

ParentFilesMoves ==
  /\ part = "parent_files" /\ FileNext
  /\ UNCHANGED <<part, conflictVars, keyVars, wireVars, cliVars, guiVars, importVars,
                 pvVars, providerVars, ojVars, vfsVars, captureVars, deltaVars,
                 archiveVars, embVars>>

MCNext ==
  \/ ConflictsMoves \/ KeysMoves \/ WireMoves \/ CliMoves \/ GuiMoves
  \/ ImportMoves \/ ParentMoves \/ ProviderMoves \/ JournalMoves \/ VfsMoves
  \/ CaptureMoves \/ DeltaMoves \/ ArchiveMoves \/ EmbeddingsMoves \/ ParentFilesMoves

MCSpec == MCInit /\ [][MCNext]_mcVars

-----------------------------------------------------------------------------
\* The commands and the window of a person, at each step and after it: a command
\* carries out each step once and leaves disk.toml readable and with the active
\* tenant, the window offers the conflicts that are not known to be resolved and
\* no others, and an import, an archive or a sidecar is what it says of the files
\* (send_with_retry, drain_resolve, import_state, archive.rs, evaluate_staleness).
CommandsSound ==
  [][/\ TenantAligned /\ (StepsOnce /\ TomlParses)'
     /\ OthersStayListed /\ ResolvedNotOffered'
     /\ (ImportCovers /\ RestoredWasHeld /\ IndexIsBacked /\ FreshVectorFits)'
    ]_<<cliVars, guiVars, importVars, archiveVars, embVars>>
===============================================================================
