---------------------------- MODULE FileCommands ----------------------------
(***************************************************************************)
(* disk import-state (disk-client import_state.rs): the seeding of the     *)
(* client's rows from a tree that another tool kept in step.  The walk     *)
(* visits the entries in the order of their names; a regular file is       *)
(* stat'ed, then hashed, then upserted, each row on its own, while whoever *)
(* works in the tree goes on.  A run may stop anywhere and be repeated.    *)
(***************************************************************************)
EXTENDS Naturals, FiniteSets

CONSTANTS
    NumPaths,     \* the tree's names, 1..NumPaths in the order of the walk
    BodiesI,      \* contents
    MaxRunsI,     \* bound on the runs
    MaxEditsI,    \* bound on the changes of the tree
    NoBodyI       \* no file, no row

ASSUME ImportAssumption == NumPaths \in Nat /\ {"link", NoBodyI} \cap BodiesI = {}

VARIABLES
    treeI,        \* name -> a content, "link" (anything not a regular file), NoBodyI
    rowsI,        \* the rows: size (the content stat'ed) and hash
    walkI,        \* the run: step, name visited, dry run, the stat of the name
    runsI,        \* runs started
    editsI,       \* changes of the tree made
    touchedI      \* history: names changed since the run began

importVars == <<treeI, rowsI, walkI, runsI, editsI, touchedI>>

NamesI == 1..NumPaths
NoRowI == [size |-> NoBodyI, hash |-> NoBodyI]
Resting(step) == [at |-> step, pos |-> 1, dry |-> FALSE, stat |-> NoBodyI]

ImportInit ==
    /\ treeI \in [NamesI -> BodiesI \cup {"link", NoBodyI}]
    /\ rowsI = [n \in NamesI |-> NoRowI]
    /\ walkI = Resting("idle")
    /\ runsI = 0
    /\ editsI = 0
    /\ touchedI = {}

\* run_import_state: the root is checked and canonicalised, the database opened.
StartImport ==
    /\ walkI.at \in {"idle", "failed", "finished"}
    /\ runsI < MaxRunsI
    /\ \E dry \in BOOLEAN : walkI' = [Resting("visit") EXCEPT !.dry = dry]
    /\ runsI' = runsI + 1
    /\ touchedI' = {}
    /\ UNCHANGED <<treeI, rowsI, editsI>>

NextName == [walkI EXCEPT !.at = "visit", !.pos = @ + 1, !.stat = NoBodyI]

\* The head of the loop: what is not a regular file, or is gone by the time it is
\* canonicalised, is passed over; otherwise its metadata is read.
VisitEntry ==
    /\ walkI.at = "visit"
    /\ walkI.pos \in NamesI
    /\ walkI' = IF treeI[walkI.pos] \in {"link", NoBodyI} THEN NextName
                ELSE [walkI EXCEPT !.at = "hash", !.stat = treeI[walkI.pos]]
    /\ UNCHANGED <<treeI, rowsI, runsI, editsI, touchedI>>

\* upsert_file_scoped replaces a row that is there.
UpsertRow(old, row) == row

\* hash_file, then the upsert unless this is a dry run.  A file that went away
\* after its metadata was read ends the run with an error.
HashEntry ==
    LET p == walkI.pos IN
    /\ walkI.at = "hash"
    /\ IF treeI[p] \in BodiesI
       THEN /\ walkI' = NextName
            /\ rowsI' = IF walkI.dry THEN rowsI
                        ELSE [rowsI EXCEPT ![p] =
                                 UpsertRow(@, [size |-> walkI.stat, hash |-> treeI[p]])]
       ELSE walkI' = Resting("failed") /\ UNCHANGED rowsI
    /\ UNCHANGED <<treeI, runsI, editsI, touchedI>>

\* The walk is over: the report is printed.
FinishImport ==
    /\ walkI.at = "visit"
    /\ walkI.pos \notin NamesI
    /\ walkI' = [Resting("finished") EXCEPT !.dry = walkI.dry]
    /\ UNCHANGED <<treeI, rowsI, runsI, editsI, touchedI>>

\* A read or database error, or the operator's interrupt: the rows written stay.
StopImport ==
    /\ walkI.at \in {"visit", "hash"}
    /\ walkI' = Resting("failed")
    /\ UNCHANGED <<treeI, rowsI, runsI, editsI, touchedI>>

\* Somebody works in the tree.
EditTree ==
    /\ editsI < MaxEditsI
    /\ editsI' = editsI + 1
    /\ \E n \in NamesI, b \in BodiesI \cup {NoBodyI} :
           /\ treeI[n] # b
           /\ treeI' = [treeI EXCEPT ![n] = b]
           /\ touchedI' = touchedI \cup {n}
    /\ UNCHANGED <<rowsI, walkI, runsI>>

ImportNext ==
    StartImport \/ VisitEntry \/ HashEntry \/ FinishImport \/ StopImport \/ EditTree

ImportSpec == ImportInit /\ [][ImportNext]_importVars

(***************************************************************************)
(* Properties                                                              *)
(***************************************************************************)
\* When a run that writes has reported its end, every regular file nobody touched
\* meanwhile has a row with its own size and hash, whatever an earlier run that was
\* cut short had left behind (import_state).
ImportCovers ==
    walkI.at = "finished" /\ ~walkI.dry =>
        \A n \in NamesI \ touchedI :
            treeI[n] \in BodiesI => rowsI[n] = [size |-> treeI[n], hash |-> treeI[n]]

-----------------------------------------------------------------------------
(***************************************************************************)
(* Folder archives (disk-core archive.rs, disk archive create / restore):  *)
(* each file is stored under the digest of its contents, the index lists   *)
(* path and digest and is written last.  Neither is written atomically; a  *)
(* process may stop between two of its writes or within one, and users     *)
(* edit the folder meanwhile.  A digest is the contents.                   *)
(***************************************************************************)

CONSTANTS
    NamesA,      \* paths of the folder
    BodiesA,     \* contents
    MaxEditsA,   \* bound on the edits by users
    MaxRunsA,    \* bound on creations and restores
    NoneA,       \* no file, no index, nobody running
    TornA        \* a file cut off while it was written

ASSUME ArchiveAssumption == NoneA \notin {TornA, "whole"}

VARIABLES
    folderA,     \* the source
    slotA,       \* entries/<digest>.zst: NoneA, TornA or "whole"
    indexA,      \* index.json
    createA,     \* create under way: paths to go, entries so far
    restoreA,    \* restore under way: entries to go
    destA,       \* the destination
    heldA,       \* history: everything the folder held
    countA       \* [edits, runs]

archiveVars == <<folderA, slotA, indexA, createA, restoreA, destA, heldA, countA>>

EntriesA == [path : NamesA, digest : BodiesA]

ArchiveInit ==
    /\ folderA \in [NamesA -> BodiesA \cup {NoneA}]
    /\ slotA = [d \in BodiesA |-> NoneA]
    /\ indexA = NoneA /\ createA = NoneA /\ restoreA = NoneA
    /\ destA = [n \in NamesA |-> NoneA]
    /\ heldA = {[path |-> n, digest |-> folderA[n]] : n \in {x \in NamesA : folderA[x] # NoneA}}
    /\ countA = [edits |-> 0, runs |-> 0]

EditFolder(n, b) ==
    /\ countA.edits < MaxEditsA /\ countA' = [countA EXCEPT !.edits = @ + 1]
    /\ folderA' = [folderA EXCEPT ![n] = b]
    /\ heldA' = IF b = NoneA THEN heldA ELSE heldA \cup {[path |-> n, digest |-> b]}
    /\ UNCHANGED <<slotA, indexA, createA, restoreA, destA>>

StartsRun == countA.runs < MaxRunsA /\ countA' = [countA EXCEPT !.runs = @ + 1]

\* create: the walk of the folder.
CreateBegin ==
    /\ StartsRun /\ createA = NoneA
    /\ createA' = [todo |-> NamesA, entries |-> {}, slot |-> NoneA]
    /\ UNCHANGED <<folderA, slotA, indexA, restoreA, destA, heldA>>

\* A file is read and its slot truncated; a file gone since the walk is skipped or
\* ends the creation, which leaves everything as it is.
CreateRead(n) ==
    /\ createA # NoneA /\ createA.slot = NoneA /\ n \in createA.todo
    /\ IF folderA[n] = NoneA
       THEN /\ createA' \in {NoneA, [createA EXCEPT !.todo = @ \ {n}]}
            /\ UNCHANGED slotA
       ELSE /\ createA' = [createA EXCEPT !.slot = [path |-> n, digest |-> folderA[n]]]
            /\ slotA' = [slotA EXCEPT ![folderA[n]] = TornA]
    /\ UNCHANGED <<folderA, indexA, restoreA, destA, heldA, countA>>

\* The compressed contents are in the slot.
CreateWrite ==
    /\ createA # NoneA /\ createA.slot # NoneA
    /\ slotA' = [slotA EXCEPT ![createA.slot.digest] = "whole"]
    /\ createA' = [todo    |-> createA.todo \ {createA.slot.path},
                   entries |-> createA.entries \cup {createA.slot}, slot |-> NoneA]
    /\ UNCHANGED <<folderA, indexA, restoreA, destA, heldA, countA>>

\* The index is written in place, after the last slot.
CreateIndex ==
    /\ createA # NoneA /\ createA.todo = {} /\ createA.slot = NoneA
    /\ indexA' = createA.entries /\ createA' = NoneA
    /\ UNCHANGED <<folderA, slotA, restoreA, destA, heldA, countA>>

\* The creation fails or is stopped: a slot, or the index, is left as it is.
CreateStops ==
    /\ createA # NoneA /\ createA' = NoneA
    /\ indexA' \in IF createA.todo = {} THEN {indexA, TornA} ELSE {indexA}
    /\ UNCHANGED <<folderA, slotA, restoreA, destA, heldA, countA>>

\* restore, into a fresh destination: read_index refuses a torn index.
RestoreBegin ==
    /\ StartsRun /\ restoreA = NoneA
    /\ indexA \notin {NoneA, TornA}
    /\ restoreA' = indexA
    /\ destA' = [n \in NamesA |-> NoneA]
    /\ UNCHANGED <<folderA, slotA, indexA, createA, heldA>>

\* The integrity check: size and digest of what was decompressed.
Intact(e, data) == data = e.digest

\* What decompressing a slot gives: a slot cut off is nothing but its beginning.
Decoded(d) == IF slotA[d] = "whole" THEN d ELSE TornA

\* One entry; a missing slot or a failed check ends the restore.
RestoreEntry(e) ==
    /\ restoreA # NoneA /\ e \in restoreA
    /\ IF slotA[e.digest] # NoneA /\ Intact(e, Decoded(e.digest))
       THEN /\ destA' = [destA EXCEPT ![e.path] = Decoded(e.digest)]
            /\ restoreA' = restoreA \ {e}
       ELSE restoreA' = NoneA /\ UNCHANGED destA
    /\ UNCHANGED <<folderA, slotA, indexA, createA, heldA, countA>>

RestoreEnd ==
    /\ restoreA = {} /\ restoreA' = NoneA
    /\ UNCHANGED <<folderA, slotA, indexA, createA, destA, heldA, countA>>

ArchiveNext ==
    \/ \E n \in NamesA : CreateRead(n) \/ \E b \in BodiesA \cup {NoneA} : EditFolder(n, b)
    \/ CreateBegin \/ CreateWrite \/ CreateIndex \/ CreateStops
    \/ RestoreBegin \/ RestoreEnd \/ \E e \in EntriesA : RestoreEntry(e)

ArchiveSpec == ArchiveInit /\ [][ArchiveNext]_archiveVars

(***************************************************************************)
(* Properties                                                              *)
(***************************************************************************)
\* Whatever a restore has written is a file the folder held under that path,
\* although creations may be cut off, run again over an older archive or overlap
\* the restore (the integrity check of restore).
RestoredWasHeld ==
    \A n \in NamesA : destA[n] # NoneA => [path |-> n, digest |-> destA[n]] \in heldA

\* A complete index lists each path once, with contents the folder held and a slot
\* on disk for each of them, whatever was edited while it was made (create).
IndexIsBacked ==
    indexA \notin {NoneA, TornA} =>
        /\ indexA \subseteq heldA
        /\ \A e \in indexA : slotA[e.digest] # NoneA
        /\ \A e, f \in indexA : e.path = f.path => e = f

-----------------------------------------------------------------------------
(***************************************************************************)
(* Embedding sidecars beside a source file (disk-core embeddings/, disk    *)
(* embeddings write, the sweep after a cycle).  An ingest writes the       *)
(* vector, then a manifest with the hash the source has at that moment;    *)
(* neither write is atomic.  The sweep compares both with the source and   *)
(* the configuration and its report is posted to the server.  One source   *)
(* file; a hash is the contents.                                           *)
(***************************************************************************)

CONSTANTS
    WritersE,    \* disk embeddings write processes
    BodiesE,     \* contents of the source
    ModelsE,     \* model ids
    SizesE,      \* dimensions
    MaxStepsE,   \* bound on edits, configurations and ingests together
    NoneE,       \* no file, no process
    TornE        \* a file cut off while it was written

VARIABLES
    sourceE,     \* the source file, or NoneE
    configE,     \* [enabled, model, dims]
    vectorE,     \* .vec.bin: its dimensions, TornE or NoneE
    manifestE,   \* .manifest.json, TornE or NoneE
    ingestE,     \* per process: NoneE or [at, hash, model, dims]
    sweepE,      \* the sweep under way: NoneE or [config, hash, manifest]
    reportE,     \* EmbeddingsStatusSnapshot: fresh, stale, missing, none, or NoneE
    postedE,     \* what the server was told last
    stepsE

embVars == <<sourceE, configE, vectorE, manifestE, ingestE, sweepE, reportE, postedE, stepsE>>

ConfigsE == [enabled : BOOLEAN, model : ModelsE, dims : SizesE]

EmbInit ==
    /\ sourceE \in BodiesE
    /\ configE \in {c \in ConfigsE : c.enabled}
    /\ vectorE = NoneE /\ manifestE = NoneE
    /\ ingestE = [w \in WritersE |-> NoneE]
    /\ sweepE = NoneE /\ reportE = NoneE /\ postedE = NoneE
    /\ stepsE = 0

StepE == stepsE < MaxStepsE /\ stepsE' = stepsE + 1

EditSource(b) ==
    /\ StepE /\ b # sourceE /\ sourceE' = b
    /\ UNCHANGED <<configE, vectorE, manifestE, ingestE, sweepE, reportE, postedE>>

\* disk.toml is changed and the daemon restarted with it.
Reconfigure(c) ==
    /\ StepE /\ c # configE /\ configE' = c
    /\ sweepE' = NoneE /\ reportE' = NoneE
    /\ UNCHANGED <<sourceE, vectorE, manifestE, ingestE, postedE>>

\* The check of write_sidecar: exactly dimensions * 4 bytes.
SizeFits(given, dims) == given = dims

\* run_embeddings_write and write_sidecar, up to the hash of the source.
IngestBegin(w, given) ==
    /\ StepE /\ ingestE[w] = NoneE
    /\ configE.enabled /\ SizeFits(given, configE.dims) /\ sourceE # NoneE
    /\ ingestE' = [ingestE EXCEPT ![w] = [at |-> "vector", hash |-> sourceE, given |-> given,
                                          model |-> configE.model, dims |-> configE.dims]]
    /\ UNCHANGED <<sourceE, configE, vectorE, manifestE, sweepE, reportE, postedE>>

IngestVector(w) ==
    /\ ingestE[w] # NoneE /\ ingestE[w].at = "vector"
    /\ vectorE' = ingestE[w].given
    /\ ingestE' = [ingestE EXCEPT ![w].at = "manifest"]
    /\ UNCHANGED <<sourceE, configE, manifestE, sweepE, reportE, postedE, stepsE>>

\* SidecarManifest::write_to_share.
IngestManifest(w) ==
    /\ ingestE[w] # NoneE /\ ingestE[w].at = "manifest"
    /\ manifestE' = [hash |-> ingestE[w].hash, model |-> ingestE[w].model,
                     dims |-> ingestE[w].dims, bytes |-> ingestE[w].dims]
    /\ ingestE' = [ingestE EXCEPT ![w] = NoneE]
    /\ UNCHANGED <<sourceE, configE, vectorE, sweepE, reportE, postedE, stepsE>>

\* The process stops before a write, or within it.
IngestStops(w) ==
    /\ ingestE[w] # NoneE
    /\ vectorE' \in IF ingestE[w].at = "vector" THEN {vectorE, TornE} ELSE {vectorE}
    /\ manifestE' \in IF ingestE[w].at = "manifest" THEN {manifestE, TornE} ELSE {manifestE}
    /\ ingestE' = [ingestE EXCEPT ![w] = NoneE]
    /\ UNCHANGED <<sourceE, configE, sweepE, reportE, postedE, stepsE>>

\* scan_share_embeddings: the source is hashed, then evaluate_staleness reads the
\* manifest, or takes it as missing if it cannot be parsed.  A source that is not
\* there is no row of the report.
SweepBegin ==
    /\ sweepE = NoneE /\ configE.enabled
    /\ sweepE' = [hash |-> sourceE, manifest |-> manifestE]
    /\ UNCHANGED <<sourceE, configE, vectorE, manifestE, ingestE, reportE, postedE, stepsE>>

\* The last comparison of evaluate_staleness.
VectorMatches(m) == vectorE = m.bytes

\* evaluate_staleness, as scan_share_embeddings counts its results.
Staleness(m, hash) ==
    IF hash = NoneE THEN "none"
    ELSE IF m \in {NoneE, TornE} \/ vectorE = NoneE THEN "missing"
    ELSE IF /\ m.hash = hash /\ m.model = configE.model /\ m.dims = configE.dims
            /\ VectorMatches(m)
    THEN "fresh" ELSE "stale"

\* The report is published; report_stale_to_server posts it unless all is fresh, if
\* a token is set and the call gets through.
SweepEnd ==
    /\ sweepE # NoneE
    /\ LET s == Staleness(sweepE.manifest, sweepE.hash)
       IN  /\ reportE' = [status |-> s, vector |-> vectorE, hash |-> sweepE.hash]
           /\ postedE' \in IF s \in {"fresh", "none"} THEN {postedE} ELSE {postedE, s}
    /\ sweepE' = NoneE
    /\ UNCHANGED <<sourceE, configE, vectorE, manifestE, ingestE, stepsE>>

EmbNext ==
    \/ \E b \in BodiesE \cup {NoneE} : EditSource(b)
    \/ \E c \in ConfigsE : Reconfigure(c)
    \/ \E w \in WritersE : \/ \E g \in SizesE : IngestBegin(w, g)
                           \/ IngestVector(w) \/ IngestManifest(w) \/ IngestStops(w)
    \/ SweepBegin \/ SweepEnd

EmbSpec == EmbInit /\ [][EmbNext]_embVars

(***************************************************************************)
(* Properties                                                              *)
(***************************************************************************)
\* A sidecar reported as fresh has a vector of the configured dimensions, through
\* changes of the configuration and ingests that overlap or are cut off between
\* vector and manifest (evaluate_staleness).
FreshVectorFits ==
    reportE # NoneE /\ reportE.status = "fresh" => reportE.vector = configE.dims
=============================================================================
