# A verification model of SecureFlow

TLA+ modules, TLC configurations and TLAPS proofs for SecureFlow: the catalog trust
store, the advisory catalog from download to installed bundle, one scan with its
supervised engine, what happens to a run afterwards (reviews, AI answers, ledger,
cases, MCP servers), and the evidence that a plan links to it. Everything is
translated from the Rust sources under `src/crates/`; documents are quoted only where
the code disagrees with them.

## 1. The system

SecureFlow is a local, command-line security review tool. Each command is a
process that works on files; there is no server except line-based MCP servers on
standard input. Most documents are written once and never changed
(`write_atomic_new`) or replaced whole. State that outlives a command, and that
several commands may use at once, is in few places: the trust store directory, the
SQLite advisory catalog, the reviewed-findings ledger, and the run and case files.

| Component | State | Operations | Talks to |
|---|---|---|---|
| Catalog trust store (`knowledge/src/catalog_trust/`) | `lock`, `state.json` (root lineage, retained roles, floors, time, generation, one pending and all completed installations), `receipts/` | enroll, import (full or roots only), verify, install, status, inspect; recovery at every exclusive opening | catalog bundle (verified private copy, hard link), publisher's metadata directory |
| Catalog trust publisher (`producer.rs`) | none, one file per call | prepare, sign, assemble | writes what the trust store reads |
| Advisory catalog (`catalog.rs`, `snapshot.rs`, `delta.rs`) | prepared directories; SQLite: records and revisions, snapshots, deltas, per-source progress, full-text index and its status | prepare, validate, register, import batch, complete source, complete, rebuild index, back up, query | CLI commands sequence the transactions |
| Canonical identity (`catalog.rs`) | canonical ids, identifiers, redirects | import of a record, deactivation, `catalog-rebuild-canonicalization` | part of every import transaction |
| Catalog bundle (`catalog_bundle.rs`) | payload and manifest; output database and its sidecars | create, verify, install, trusted install | catalog (copy and projection on a profile), trust store |
| Catalog backup (`catalog_backup.rs`) | backup file and manifest | create, verify, restore | catalog |
| Advisory correlation (`catalog.rs`, `correlation.rs`) | one envelope | evaluate stored ranges for a package version | catalog, orchestrator |
| Engine adapter | child process, its descendants, two pipes, two reader threads, output budget, deadline | run, kill, retry once, import the report | external engine, run manifest |
| Run manifest | one JSON file | validate, record phases, decisions, answers | every later command |
| AI request and response | one request file | prepare, apply | run manifest |
| Reviewed-findings ledger (`knowledge/src/lib.rs`) | a JSON-lines file | import, read, search | run manifests |
| Security case, MCP servers | one case file, staged recommendations | create, import, decide, stage | run manifests, reviews, SARIF |
| Web assessment | scope, inventory, inference, assessment, lab and corpus results | read a source tree, validate, score | a tree that may be edited, orchestrator |
| Secure-review and benchmark adapters | one envelope each | import | run manifest, orchestrator |
| Orchestrator | one plan | derive, validate | every kind of evidence |
| Review room, scripts, plugins | none | view a case, release, install | files |

Behaviours that are hard here, and that the model is for:

* a crash or power loss between two writes of one operation (journal, link, sync,
  state, receipt), where recovery has only files to look at;
* processes that check something, then wait for a lock or start a transaction, then
  act on it; a copy taken of a database that others are changing;
* metadata, snapshots and deltas that arrive replayed, forked, incomplete, altered or
  in another order than they were made; an upstream that changes between the download
  of an index and of the records it lists;
* a child process that forks, hangs, floods its pipes, answers too late or leaves
  descendants behind, while deadline and authorization expire and its binary and
  target are edited;
* a source tree, a clock or a catalog that changes while one document is made of it;
* documents replaced by several commands, and others held in memory by a server;
* long sequences of legal commands that reach a state the next command refuses;
* an incremental computation (index rows, canonical ids, a walk over range events)
  that has to agree with the one from scratch.

`PROJECT.json` lists every hazard with its line and the properties that cover it.

## 2. Modules

| Module | What it is | Uses |
|---|---|---|
| `TrustMetadata` | the checks on signed metadata and on a state, as operators (`wire.rs`, `consumer.rs`, `install.rs`, `types.rs`, `Session::status`) | |
| `TrustStore` | the store and its processes, one action per step between two durable writes | `TrustMetadata`, instance of `ReleaseLedger` |
| `ReleaseLedger` | abstract specification: what the store promises its operator | |
| `TrustStoreProofs` | theorems about `TrustStore`: types, exclusion, floors, what was published | `TrustStore`, `TLAPS` |
| `TrustLedgerProofs` | what the state file becomes (it loads, never goes back, keeps room), status, authority, outputs, receipts, and the refinement of `ReleaseLedger` | `TrustStoreProofs` |
| `AdvisoryCatalog` | catalog commands as sequences of transactions | |
| `AdvisoryCatalogProofs` | theorems about `AdvisoryCatalog` | `AdvisoryCatalog`, `TLAPS` |
| `AdvisorySources` | preparation and validation of snapshot and delta directories, as operators | |
| `AdvisorySupply` | the catalog fed with what `AdvisorySources` prepared, or others altered | `AdvisoryCatalog`, `AdvisorySources` |
| `CatalogDistribution` | bundles made of that catalog, and installed | `AdvisoryCatalog` |
| `CatalogDistributionProofs` | theorems about `CatalogDistribution` | `CatalogDistribution`, `AdvisoryCatalogProofs` |
| `CanonicalIdentity` | canonical ids record by record, and the rebuild | |
| `CanonicalIdentityProofs` | theorems about `CanonicalIdentity` | `CanonicalIdentity`, `WellFoundedInduction`, `TLAPS` |
| `EngineRun` | one scan: parent, child, descendants, readers, clock, editors | |
| `EngineRunProofs` | theorems about `EngineRun` | `EngineRun`, `TLAPS` |
| `RunManifest` | the manifest, its validation and how a report fills it, as operators | |
| `KnowledgeLedger` | records, duplicates, parsing, import, as operators | `RunManifest` |
| `SecurityCase` | cases, their imports and decisions, as operators | `RunManifest` |
| `ReviewDesk` | all commands on runs, cases and the ledger, over shared files | `KnowledgeLedger`, `SecurityCase` |
| `ReviewDeskProofs` | theorems about `ReviewDesk` | `ReviewDesk`, `WellFoundedInduction`, `SequenceTheorems`, `TLAPS` |
| `VersionRanges` | the evaluation of version ranges, and the reference meaning it is compared with | |
| `EvidenceImports` | envelopes of Secure Skill, Secure Bench and the catalog | `VersionRanges` |
| `WebEvidence` | scopes, inventories, inferences, assessments, evaluations, as operators | |
| `Orchestration` | plans: phases, next action, claims, validation | `RunManifest` |
| `EvidenceDesk` | the commands that make, import and link evidence | `WebEvidence`, `Orchestration`, `EvidenceImports` |
| `EvidenceDeskProofs` | theorems about `EvidenceDesk` and `VersionRanges` | `EvidenceDesk`, `SequenceTheorems`, `FiniteSetTheorems`, `WellFoundedInduction`, `TLAPS` |
| `MCTrustImport`, `MCTrustInstall`, `MCCatalog`, `MCCatalogRace`, `MCDistribution`, `MCIdentity`, `MCEngine`, `MCReview`, `MCEvidence` | the instances TLC checks | |

A definition whose comment starts with `Mutant:` is a plausible mistake. No action
uses it; it stands beside the definition it would replace, and `PROJECT.json` says
which property notices.

Three compositions carry the interactions. `TrustStore` contains the trusted half of
bundle installation. `AdvisorySupply` and `CatalogDistribution` put what feeds the
catalog before it and what is made of it after it, each around the same
`AdvisoryCatalog`. `ReviewDesk` and `EvidenceDesk` share `RunManifest`, so a manifest
that a scan writes is the one that is reviewed, imported and planned for.

### 2.1 Trust store

State to code:

| Variable | Code |
|---|---|
| `store` | how far `initialize` got: directory, `lock`, `receipts/`, `state.json` |
| `disk`, `synced` | `state.json` as seen through the file system, and as a power loss leaves it at least |
| `out`, `outSynced` | the output paths, likewise; `by` is history: which receipt published the file |
| `receipts` | files under `receipts/` |
| `proc[p]` | one command: what it will do next, its clock, its `Session::state` |
| `faults` | crashes and power losses so far (a bound, nothing else) |

Actions to code: `CreateStore`, `FillStore` are `initialize`; `Open` is
`StoreLock::open`, `load_state` and the clock check of `Session::open`;
`RecoverPublished`, `RecoverAbsent` and one case of `Refuse` are the three outcomes
of `recover`; `ExportReceipt`, `ExportDone` are `export_receipts`; `ImportRoot`,
`RootsDone`, `ImportTimestamp`, `ImportSnapshot`, `ImportTargets`, `FinishImport`
are `import_roots`, `import_metadata` and the last save of `Session::import`;
`Journal`, `Publish`, `Complete` are `install_with_checkpoint`. Every save is
`Save`: a reader keeps the state in memory, a writer renames the new file and then
syncs the directory, and may be cut off between the two. Status is the operator
`StatusAccepts`; it changes nothing.

An envelope is a record. Its `signers` are the keys whose signatures verify, its
other fields the signed content, and a link by version, length and hash is the
child itself. A manifest stands for the manifest's digest and for the database it
describes, so "exactly the bytes of the descriptor" is equality of manifests.

Assumptions. The store directory and the parents of outputs are private (the code
demands mode 0700), so other programs add files there only where nothing is, and
remove nothing. A SQLite sidecar found at recovery is a conflict like other
bytes. A process runs one command per session, as the CLI does. A foreign file may
have the very bytes of a release: recovery then takes it for its own, as the code
does (`install.rs:39`), and `ReceiptsAreBacked` says what a receipt is worth in that
case (section 6). Enrollment happens at the first clock value. The batch of 128
roots, the byte budgets and file permissions are not modelled; `MaxRoots`,
`MaxCompleted` and `MaxGeneration` stand for the size of the state and the limit of
its number.

### 2.2 Advisory catalog

`snaps`, `deltas` are the rows of snapshots and deltas with their progress;
`current`, `active` the records; `fts`, `index` the full-text rows and
`search_index_status`; `backups` what published backups contain. A command is a
program counter over transactions. `Check` steps are the checks the code makes
before it opens a transaction; each other action is one Immediate transaction.
`Abort` ends a command between two transactions: a refusal, an error or a kill.

`Feed` says what each manifest contains; manifest ids are digests, so two manifests
with one id and other contents cannot occur and the code's conflict branches are
left out. Sources belong to one ecosystem. The time of acquisition is a pair, the
instant and the rank of its text, since the code orders rows by the one and checks
the other. Two artifacts of one ecosystem are never
acquired at the same time (`FeedAssumption`). SQLite in WAL mode loses no committed
transaction on a crash of the process; a power loss with `synchronous = NORMAL` may,
which is not modelled. Loose records carry no date, so `NewestWins` and
`PresenceFollows` leave out the keys a loose tree may bring.

### 2.3 Supply of the catalog

`AdvisorySources` has no variables: `PrepareSnapshot` and `PrepareDelta` are the two
`prepare-osv` commands, `SnapshotLoads`, `ArchiveMatches` and `DeltaLoads` the
validation that every import repeats, `SnapshotFeed` and `DeltaFeed` what an import
reads of the directory. `AdvisorySupply` offers directories that were prepared from
an archive, an index and a folder of records, and directories that were altered
afterwards; only those that load are imported, and the assumption
`OfferedAssumption`, evaluated by TLC, ties `Feed` to them. `MCCatalog` writes the
feed out record by record, so that the assumption compares two descriptions.
`CatalogFollowsIndex` relates three things no single piece of code sees together: the
list the operator downloaded, the chain of deltas, and the records.

What the code leaves to its operator, and what `CatalogFollowsIndex` therefore
assumes or the model simplifies:

* `ensure_delta_order` compares the first cursor over a base with the base's time of
  acquisition only when no older chain exists; rows between the archive and that cursor are
  lost. The property is conditional on `Covers`: the archive reaches up to the cursor.
* A delta is refused by a complete newer snapshot only: `ensure_delta_order`
  (`catalog.rs:2925`) does not look at one whose import was interrupted. What the sources
  that this import did complete deactivated stays inactive until it is finished, although
  the index of the delta lists it. The property asks that no snapshot newer than the base
  was begun.
* An index cut off at its oldest end is accepted; the index listing everything dated
  up to its time is an assumption of the instance.
* Record files are read again after they were validated, without comparing hashes,
  and the archive is opened again after it was hashed: a directory does not change
  between the two in the model.
* A record with an equal time and other bytes makes its delta unusable
  (`RecordOrder`); the instance has one (`F2`).
* One ecosystem; a folder is a set of files; sizes, text limits and file kinds are
  one condition, "not well formed". What the base quarantined stays away.

### 2.4 Distribution of the catalog

`CatalogDistribution` adds to the running catalog the creation and the installation
of bundles. `BundleCreate` opens the source, `Freeze` is the online backup together
with the projection, descriptor and checks made on the private copy (nobody else
sees it), `PublishNew` links the payload and then the manifest, `CreateEnds` is
a refusal, a failed link or a kill, after which a published payload stays.
`BundleInstall` is one installation up to the checked private copy,
`PublishInstalled` its link, `UseInstalled` another process importing into the new
output at once, `CheckInstalled` the final check. `Forged` manifests are written by
somebody else with whatever payload they name.

A database stands for its bytes. `MatchesOrigin` compares counts only, as the code
does. The last check of an installation removes its output and sidecars even if
another process has already used it (`catalog_bundle.rs:312`); `UseInstalled` makes
that happen and no property denies it. A payload removed because a sync failed, and
sidecars of other programs, are not modelled. A projected bundle carries no
snapshots, so a correlation made on one fails its own validation; correlation and
distribution are separate instances here.

### 2.5 Canonical identity

`held`, `active`, `canon` are `source_records`; `names`, `redirects`, `live` the
tables of identifiers, redirects and canonical ids; `orphaned`, `past`, `torn` and
`said` are history variables that only properties read. One imported record is one step, which
is sound because a batch may hold a single record and properties here are of states
between records. Canonical ids are integers ordered as their texts are; merging
takes the least. A rebuild groups active records by the least closed set
(`Component`), which is what the code's `DisjointSet` computes. That a delta may be
preparing is left to `AdvisoryCatalog`. After a merge that follows a rebuild the
table of redirects may hold a row from an id to itself; no query reads redirects and
no property is about such rows.

### 2.6 One scan

| Variable | Code |
|---|---|
| `pc` | where `scan`, `run` and `run_with_argv` are |
| `limit`, `granted`, `left` | `config.timeout`, the share of it this attempt gets, the deadline |
| `validity` | the recorded authorization |
| `binary`, `target`, `hashed` | contents on disk and the digests taken of them |
| `leader`, `status`, `child` | the engine, its exit, and one descendant inside or outside its process group |
| `pipe`, `written`, `kept`, `exceeded`, `budget` | the two pipes, what `read_bounded` kept, the shared `AtomicUsize` |
| `files` | the report and the manifest of an earlier or of this scan |
| `polled`, `watched`, `lag` | how time is told (below) |
| `ran`, `scanned` | history: what was executed, and what it could see |

`Parent` is the command: `Authorise`, `HashTarget`, `HashBinary`, `Spawn`, `Poll`,
`Terminate`, `Join`, `Retry` (for a full graph, on what is left of the deadline),
`Accept`, `WriteReport`, `WriteManifest`, or `Interrupted`. `Read` is one loop of a
reader thread. The environment is the engine (`Emit`, `Fork`, `Leave` for a
descendant in a session of its own, `Exit`), the editors (`Edit`) and time (`Tick`).
`RunManifest` holds the import of the report, the deduplication of findings, the
manifest made of it and everything `validate` relates.

Simplifications: time passes in ticks, and a polling parent looks at least once in
each; delays elsewhere (hashing, spawning, joining) are counted by `lag`, so an
engine may outlive an expiry by what nobody supervised, as the 100 ms margin of
`main.rs:120` does not prevent (`StopsInTime` says exactly that). An edit that is
undone before the next digest goes unnoticed by the code; here a content does not
return. The digest of the target leaves out `.git` and `node_modules` and is taken
in one step here.

### 2.7 Runs, ledger and cases

`runs` and `cases` are the files at a few paths, `requests` the AI requests,
`ledger` the records, `importer` and `agent` what a running `knowledge-import` or MCP
server holds in memory; `settled` and `used` are history and bound. The actions carry
the names of the commands: `ReviewRun`, `AiPrepare`, `AiApplyResponse`, `ImportSkips`,
`ImportRead` and `ImportReplace`, `CaseCreate`, `CaseImportSecureReview`, `CaseImportSarif`,
`CaseDecide`, `CaseMcp`, `StageOfSession`, `StageOfCall` (the server that loads the
case for every call), `StageLink`. An output is replaced when it exists, and is
another file than the input.

What the code does and the model keeps: two reviews from one manifest over one output
lose the first; a server stages from the case it loaded, and its single create-only
output makes a second stage of one session fail; nothing enforces the rule of one ledger
writer (`ADR 0005`, `docs/knowledge-benchmark.md:48`), so an importer that had read
the ledger earlier drops records (`ImportedIsKept` excludes just that); a case does
not take over the decisions of the run it is made from; an AI request is bound to the
run and the finding, not to the manifest's digest. Values stand for hashes. A clock
that goes back and byte and character limits are left out.

### 2.8 Evidence

`tree` is the version of each source file, `now` the clock, `catalog` the rows of one
package with the delta that changes them, `docs` the documents written, `job` the
command that is reading, `plan` and `refused` the two outcomes of a command that
checks its own result. A command that reads the tree reads it file by file
(`ReadFile`: digest, contents, digest again), while `Edit`, `Tick` and `DeltaImport`
go on; a command that reads only finished documents is one step. `VersionRanges`
holds `EvaluatePackageVersion` as the code computes it, a walk over events, and
beside it `ReferenceStatus`, what the OSV schema means by them.

The walks are recursive functions: `RangeWalk` over the events of a range, with
`ReadEvent` as one turn of the loop; `AddAll` over the mentions that `MentionsIn` finds
in a file, each stopping where the code gives up. A correlation is kept
with a history field that no command reads, `seen`: the rows it was made of, and whether
the catalog was then still the one it names. The assumptions
beside the constants say what types the code gives to what the instance supplies: lists
are sequences, a row holds what the tables of the catalog have room for.

Versions of files only grow, so a content never returns. An edit that is undone between
the two digests of a file goes unnoticed by the code and is outside of the model.

What the code does and the model keeps or works around:

* An inventory names its tree by `secureflow-web-tree-v1`, a scanned manifest by
  `secureflow-target-sha256-v3`, so the web evidence of `orchestrate-plan` never matches a
  run that SecureFlow scanned (`main.rs:2869`, `2884`). The instance therefore also has
  manifests of another producer that uses the tree's digest; with scanned ones alone
  that half of the properties would be vacuous.
* Likewise a benchmark result names the manifest of Secure Bench
  (`docs/contracts/secureflow-benchmark-result-v1.md:22`) and is compared with that of
  the run (`main.rs:2857`); a result of the instance
  that a plan can link names the manifest of the other producer.
* Commands check what they derived with the checks of its readers, which have limits that
  the derivation does not look at. The command then refuses its own document as a whole.
  `AtABoundary` lists where that happens:
  * a route whose file's path is over 500 bytes, or whose own path is over 2000, holds two dots
    in a row, or has a parameter twice or with a name over 300 (`inventory.rs:1038`, `1053`, `1087`, `1096`);
  * an endpoint with more than `MaxReferences` references, an operation over 300 bytes (a name, a file's
    path, or a path and a line), a route that `normalize_local_route` would change
    (`inference.rs:1210`, `1224`, `1244`);
  * excess response fields whose list makes a limitation of over 500 bytes, and the validation of
    an observation that has `MaxReferences` references already (`assessment.rs:352`, `615`, `647`);
  * a catalog without a complete snapshot, and an advisory whose rows a delta took away between
    two statements (`correlation.rs:500`);
  * a run whose analysis failed after its prioritization completed (`derive_plan`).

  Of a text the model keeps what these checks look at: its length (`Bytes`) and of a route's path
  its parameters, dots and normal form (`PathOf`). Outside of `OwnChecksPass` stay texts that are
  passed on from elsewhere (from an operator, a manifest, a review or an advisory; a version is
  taken up to 256 bytes) and the sizes of whole documents.
* The three statements of `correlate-package` (`catalog.rs:1843`) may see a delta
  between them; `VerdictsMatchTheCatalog` speaks of the others.
* The lifetime of a scope is compared with a clock read before the tree is hashed,
  and `Tick` happens between commands. Which snapshots of the catalog are complete is chosen
  when a correlation begins.

## 3. Runs

| Run | Instance | What it shows |
|---|---|---|
| `trust_import` | two processes; three root envelopes, seven timestamps over five snapshots and four targets; two profiles; clocks 1 and 2; one fault | sessions exclude one another, floors and versions never roll back, every saved state loads, status agrees with import |
| `trust_install` | one process (installation is exclusive); three chains, two outputs, two foreign contents, one of them a release's bytes, a root that revokes a key; two faults | journal, outputs and receipts agree after every pair of crashes or power losses; the store implements `ReleaseLedger`; pending work is settled |
| `catalog_serial` | `AdvisorySupply` with one operator; two archives, a chain of two deltas, a fork, deltas of the newer snapshot, directories altered after their preparation, a loose tree | newest data wins, presence follows the snapshots, no row of an index is lost, a dirty index can be rebuilt |
| `catalog_race` | `CatalogDistribution` with two processes on one catalog, two snapshots, a delta and its rival, malware, a record added by hand; two makers of one bundle; the publisher's manifest pinned, or a forged one accepted unverified | the index, the chain of deltas, backups, published manifests and installed catalogs survive every interleaving of checks, transactions, copies and links |
| `identity` | three records with two or three versions each | lookups, merges, redirects, rebuild |
| `engine` | `EngineRun` with a timeout of two ticks, with and without an expiry that shortens it, more output than is allowed, one delay and one edit anywhere | time, output and provenance hold, and the command ends |
| `review` | `ReviewDesk` with a run of two findings, scanned or of an older producer, two paths for runs and for cases, two importers, one agent | decisions are final, documents stay usable, records stay, agents replace nothing |
| `evidence` | `EvidenceDesk` with five files of up to three versions, five manifests, texts at their limits and a byte over, and event lists up to length four | evidence is of one tree, of the checks that are modelled commands fail their own only at named boundaries, verdicts are those of the ranges |
| `catalog_stale`, `catalog_wedge`, `identity_lost`, `identity_stuck` | as above (`catalog_stale` without distribution) | four disagreements of code and documents (section 6) |

Bounds, and why they are enough:

* `MaxFaults` 2 in `trust_install`: a crash inside recovery from a crash; the
  protocol keeps nothing between two recoveries except the files. One fault in
  `trust_import`, where two processes and many envelopes are what matters.
* `MaxGeneration`: an import saves at most five times and an installation without
  recovery five times, so 7 is met in the middle of a second import and 11 at the end
  of a second installation or in the middle of a recovered one. `MaxCompleted` 2 lets
  two installations fit; in `trust_import` there are no outputs and it is 0.
* `MaxRoots` 2: one rotation fits, the next does not.
* Two releases, and two manifests for one sequence, are what rollback and
  equivocation need; two profiles what isolation of floors needs.
* Catalog: three sources, batches of every size from one record to all; two
  processes suffice for a check and a transaction with another command between.
* Distribution: the catalog's commands stop once a copy was taken, since nothing
  made later of the copy reads the catalog again, and one creation at a time is
  between its start and its copy. Two makers suffice for two that go for one path.
* Identity: three records are the least that have a chain of aliases through a
  middle one; their candidate ids descend in the order in which they usually arrive,
  so that a merge changes the ids that are there rather than the new one's.
* Engine: `Timeout` 2 leaves a retry a tick; `Margin` 1; `MaxOutput` and `PipeSize` 2
  with up to two chunks on one stream and one on the other, so that a pipe fills, one
  stream alone fits and both together exceed the budget; `MaxLag` 1, `MaxEdits` 1.
* Review: `MaxCommands` 5 commands in all, of each kind `MaxReviews`, `MaxRequests`,
  `MaxImports`, `MaxCaseSteps` 2 and `MaxStages` 1: a property here takes one command
  to make a document, two to conflict over it, and one to read the result.
* Evidence: `MaxDocuments` 6 reaches a plan over a scope, an inventory, an inference,
  an assessment and both evaluations; `MaxEdits` 2, `MaxTime` 1, `MaxDeltas` 1,
  `MaxRoutes` 3, `MaxReferences` 2 (100 in the code). `MCBytes` puts a file's path, a route's
  path, a parameter, two operations and two lists of excess fields on their limits or one byte over;
  every boundary of `AtABoundary` is crossed, but of a route's path and its file's only the dots. `MaxOfKind` and `KindOrder` fix one
  order of commands that commute. A plan or a refusal is the last step; a correlation
  shares nothing with web evidence but the run and is made alone.

Two processes are interchangeable in `trust_import`, `catalog_race` and
`catalog_stale`, and paths, importers and makers in `review` and `catalog_race`; these
runs check no liveness and use symmetry. Deadlock is checked in `catalog_serial` and
`identity`. Elsewhere the system may really stop: a store left half-enrolled by a
crash opens for nobody, as the code intends; a scan ends; bundles, cases and evidence
are written to paths that must be new, and the bounds are then used up.

Fairness. `PendingIsSettled` assumes that a running command goes on (weak fairness
of its steps) and that the operator keeps opening root-only sessions at an
acceptable clock, strongly, because a session may be refused while another holds
the lock: this is the procedure of `docs/catalog-trust-runbook.md` ("Reopen an
exclusive import/install at a valid nondecreasing time"). Nothing is assumed of
imports or installations. `IndexIsRebuilt` assumes that commands end and that the
operator keeps running `catalog-rebuild-index` until its check and transaction get
through; it asks nothing when a delta is preparing, where the code refuses on
purpose. `RunEnds` assumes that the parent and its reader threads are scheduled and
that time passes, and nothing of the engine. Outside the sandbox it is conditional on no
descendant staying out of reach: the readers are joined without a deadline
(`docs/mvp.md:62`), a descendant that left the process group or survived an engine
that exited early is killed by nobody and may hold a pipe open for ever.

## 4. Properties

Trust store: `FloorsNeverFall`, `VersionsNeverRollBack` (durable state, across power
losses); `StatusIsReacceptable` (status against import, two separate pieces of
code); `WriterIsAlone`, `SnapshotHolds` (the lock against the copy in memory);
`SavedStateLoads`; `PendingAuthorised`, `InstallsMatchFloors` (journal against the
chain and the floors); `PublishedIsAccounted`, `CompletedIsDurable`,
`ReceiptsAreBacked`, `OutputsArePreserved` (files against state, in every state a
power loss can restore); `CompletionIsReserved`; `ImplementsLedger`;
`PendingIsSettled`.

Catalog: `NewestWins`, `PresenceFollows`, `CatalogFollowsIndex` (records against
manifests and downloads), `IndexIsRebuilt`; `IndexAgrees`, `NoForks`, `BackupsAreClean`,
`ManifestsVerify`, `InstalledAsFrozen` (two processes, and everything made of the
database while it changes). Identity: `MembersAreFindable`, `OnlyNamesMerge`,
`FormerIdsLead`, `RebuildAgrees`.

Scan: `StopsInTime` (both attempts, timeout and expiry), `ReportIsWhole` (two readers
and one budget), `ManifestIsOneRun` (digests against what ran and was scanned),
`RunEnds`. After the scan: `DecisionsAreFinal`, `DocumentsAreUsable`,
`ImportedIsKept`, `AgentsReplaceNothing`. Evidence: `EvidenceIsOfOneTree`,
`OwnChecksPass`, `VerdictsMatchTheCatalog`.

Each is stated in words where it is defined, and each is broken by the mutant
`PROJECT.json` names.

Refinement. `ReleaseLedger` has three variables and no processes: accepted releases
only move forward, one installation is reserved at a time, and only for an accepted
release. `TrustStore` implements it with `floor`, `reserved` and `installed` read
from the durable state. `Install` is there because the durable state may skip the
reservation: a journal entry that was renamed but not synced when its process died
is settled by the next one, whose save makes both durable at once.

## 5. Proofs

Eight modules prove, for every value of the constants and therefore for any number of
processes, envelopes, feeds, records, chunks, makers, findings, agents, files, edits and faults:

| Theorem | Module | What it states |
|---|---|---|
| `TypeCorrect` | `TrustStoreProofs` | `TypeOK` |
| `WritersExclude` | | `WriterIsAlone` |
| `FloorsHoldForever` | | `FloorsNeverFall` |
| `PublishedStaysAccounted` | | `PublishedIsAccounted` |
| `CompletedStaysDurable` | | `CompletedIsDurable` |
| `ReadersAreUndisturbed` | | `SnapshotHolds` |
| `InstallsStayMatched` | | `InstallsMatchFloors` |
| `SavedStatesLoad` | `TrustLedgerProofs` | `SavedStateLoads` |
| `VersionsHoldForever` | | `VersionsNeverRollBack` |
| `CompletionStaysReserved` | | `CompletionIsReserved` |
| `StatusAgreesWithImport` | | `StatusIsReacceptable` |
| `PendingStaysAuthorised` | | `PendingAuthorised` |
| `OutputsStay` | | `OutputsArePreserved` |
| `ReceiptsStayBacked` | | `ReceiptsAreBacked` |
| `StoreImplementsLedger` | | `ImplementsLedger`: the store refines `ReleaseLedger` |
| `DeadlineKept` | `EngineRunProofs` | `StopsInTime` |
| `NothingTruncated` | | `ReportIsWhole` |
| `OneBinaryOneTarget` | | `ManifestIsOneRun` |
| `IndexStaysRight` | `AdvisoryCatalogProofs` | `IndexAgrees` |
| `ChainStaysLinear` | | `NoForks` |
| `BackupsStayClean` | | `BackupsAreClean` |
| `NewestRecordsWin` | | `NewestWins`, of one process at a time and manifests dated alike |
| `SnapshotsDecidePresence` | | `PresenceFollows`, likewise |
| `ManifestsStayVerified` | `CatalogDistributionProofs` | `ManifestsVerify` |
| `InstallsAreAsFrozen` | | `InstalledAsFrozen` |
| `CatalogSurvives` | | `IndexAgrees`, `NoForks`, `BackupsAreClean` with bundles made and installed meanwhile |
| `NamesFind` | `CanonicalIdentityProofs` | `MembersAreFindable` |
| `MergesAreNamed` | | `OnlyNamesMerge` |
| `RedirectsLead` | | `FormerIdsLead` |
| `ImportsAgreeWithRebuild` | | `RebuildAgrees` |
| `WhatIsLeftIsUsable` | `ReviewDeskProofs` | `DocumentsAreUsable` |
| `ImportedStays` | | `ImportedIsKept` |
| `DecisionsStay` | | `DecisionsAreFinal` |
| `AgentsOnlyAdd` | | `AgentsReplaceNothing` |
| `RangesMeanWhatOsvSays` | `EvidenceDeskProofs` | the walk over range events accepts the well formed lists and gives the answer of their intervals, at every length |
| `VersionsAreJudgedByTheRows` | | so do all rows of a package taken together |
| `EvidenceIsTyped` | | the inductive invariant of documents and running walks |
| `EvidenceIsOfTheTreeItNames` | | `EvidenceIsOfOneTree` |
| `VerdictsAreOfTheCatalog` | | `VerdictsMatchTheCatalog` |
| `CommandsPassTheirOwnChecks` | | `OwnChecksPass` |

`InvHolds` (twice), `DistributionInvHolds`, `IdentityInvHolds`, `DeskInvHolds` and
`EvidenceIsTyped` state the inductive invariants of a scan, of the catalog, of its
distribution, of canonical identity, of the documents after a scan and of the evidence.

Assumptions. The trust store uses `PolicyAssumption`, `NoManifestAssumption`,
`StoreConstantsAssumption` and `MetadataAssumption` (versions and sequences are
numbers, manifests are manifests, publishers sign what they like). A scan uses
`EngineAssumption`: the constants are numbers. The catalog and its distribution use
`FeedAssumption`: a manifest brings records, a delta has a snapshot as its base, dates are
numbers, and two snapshots of one ecosystem with one date are of one artifact; deltas may
be dated and chained in any way. Canonical identity uses `IdentityAssumption`: each record
has a candidate of its own, a number. What follows a scan uses `ReviewAssumption`: the
first manifests are ones `scan` would write or load (typed and valid), the first ledger
parses, people have names and take one of the known decisions, and the lists of
imported documents are lists. The evidence uses `ManifestsAreValid` and the
assumptions on types beside it (`TreeIsTyped`, `ManifestsAreTyped`, `RowsAreTyped`,
`ReferencesAreFinite`, `CasesAreFinite`, `RequestsAreTyped`); rows may hold anything the tables can, and range
events of any order and length. Each is evaluated by TLC on the instances.

Two theorems have hypotheses of their own, `Alone` and `WellFed`, since they are false
without them. `Alone`: with two processes the state of finding 1 is reached. `WellFed`
has four parts.

* `DatedAlike`: texts of times are in the order of the instants, which holds when all
  are written in one form. The code orders rows by the text.
* `BasesComeFirst`: a delta is acquired no earlier than its base. `ensure_delta_order`
  refuses the contrary only while there is no older chain (5.7).
* `SourcesAreSeparate`: the name of a source holds its ecosystem, which is how
  `prepare-osv` names it (`snapshot.rs:751`).
* `ArchivesAgree`: two manifests of one archive have the same records in a source that
  both have; they are made from the same bytes by the same classification.

TLC evaluated `Alone` and `WellFed` to true on the constants of `catalog_serial`, and
checked `Reconciled` (5.3) as an invariant of that instance before it was proved.

### 5.1 Trust store

The inductive invariant has layers, each proved with the help of those before it.
`TrustStoreProofs`:

1. `Typed`: types, and two facts an import relies on. The floors of the profiles the
   retained targets list are their releases (`FloorsFollow`): without it a journalled
   release could not be shown to be the one the floor names. The role whose child is
   read next has been retained (`Reached`): without it a step could read a role that
   is not there.
2. `Alone`: a writer is the only running command and its memory is the file;
   steps of recovery and installation belong to writers. This is what makes a
   decision on the copy in memory a decision on the file.
3. `Trailing`: the visible floors follow the durable ones. A save raises the visible
   file and makes durable either the new file or nothing, so both only rise.
4. `Journalling`: one entry at most; past recovery there is none until the session
   writes its own; when it publishes, the entry is durable.
5. `Accounting`: a path is durable as it is seen or empty; a published file's receipt
   is for its path and is pending or completed in both states; completed and exported
   receipts are durable, and so is the pending one of a session about to complete.
   Clearing the journal is harmless because the entry's path is empty, and with one
   entry at most no other published file can depend on it.
6. `InstallsMatchFloors` is inductive itself, given `Typed` and `Alone`.

`TrustLedgerProofs` rests on one lemma, `FileChanges`: a step
leaves the file alone, or one writer replaces it by one of the successors that `Makes`
lists, or a power loss picks one of two versions. With it each further layer is one
case per way of making a file instead of one per action:

7. `Lineage`: both versions of the file start at the enrolled root, and each next
   root succeeded the one before; `Enrolled`: a store that exists was enrolled with a
   root that fits the policy. Together with the types they are `load_state`.
8. `Grows`, a reflexive and transitive relation between files: roles, roots, time and
   generation only move forward. The durable file grows into the visible one, and
   every file made grows out of the one it replaces. The last needs `Punctual`: the clock
   of a running writer is not before the time of the file.
9. `Room`: whatever is pending could be completed by one more save.
10. `Deciding`: what a session has imported so far was accepted under the last root
    at the session's clock and is linked. At the journal step that is what status would
    check, and `Authorised` keeps it for as long as the entry is there.
11. `Owned`: a path is linked by one receipt. A receipt without its record therefore
    stands for somebody else's file, which is the second half of `ReceiptsAreBacked`.
12. `Lagging`, for the refinement: the visible file is `Behind` by at most one step
    of the ledger. A session may save without a sync only once, because it ends there,
    and the next one brings the durable file level before it retains a snapshot
    (`Caught`), so that what becomes durable at once is a step the ledger has:
    `Observe`, `Reserve`, `Settle` or `Install`. `BehindIsALedgerStep` maps each case
    to its action; whatever leaves floors and installations alone is a stutter.

Where a layer quantifies over receipts it needs that a number is not used twice
(`Numbered`): a receipt is told from another by the file that journalled it.

### 5.2 Scan

`Typed`; `Supervised`, the deadline as a budget of ticks (what is watched, what is
left and what is granted add up, and the authorization outlives the limit by the
margin but for ticks spent); `Accounted`, the output budget as a sum over both
streams, with every chunk in a pipe or kept until a stream breaches it; `Traced`, a
content that ran or was scanned lies between the hash taken before and the present
one. Each is inductive given `Typed`; `Supervised` and `Traced` also need from
`Accounted` that nobody is left alive outside of an attempt.

### 5.3 Catalog and distribution

`Inv` has the tables and the commands (`Recorded`), `Registered` (what a command
applies is registered, though another process may have completed it), `Held` (what
counts as present is a record), the properties themselves, and two facts that make
`NoForks` inductive: `Topped`, a chain that is not empty has a latest delta, so that
`ensure_delta_order` has something to compare with, and `Chained`, each complete
delta is later than the complete one it follows. Between its check and its
completion a delta may be overtaken; completion checks the order again in its own
transaction, and that is the check the proof uses. `IndexAgrees` needs nothing of
the check `ensure_no_preparing_delta` that is made too early (section 6): it holds
because every transaction that changes records either maintains the rows or says
that it did not.

What the catalog holds in the end, with one process (`NewestInv`), needs an account of
what each manifest brought. `Accounts`: a complete manifest was seen record by record
and source by source. `Told`: what a running import no longer has left is in the
catalog as the manifest says, and in the sources it has finished the records present are
those of its snapshot. An import that was interrupted starts over, and the run that
completes it applies every record again, so nothing an earlier run did is relied on.
The order comes from the checks: what `ensure_snapshot_order` and `ensure_delta_order`
let in was acquired no earlier than any complete manifest of the source
(`SnapshotIsNewest`, `DeltaIsNewest`), so records it replaces are not newer; and when
the times are equal the archive is the same, hence the records are
(`SameTimeSameRecords`). That there is a latest of the manifests in a table (`Datable`)
is part of the invariant, as a table grows by one at a time.

`DistributionInv` adds where the makers and the installer are (`Publishing`,
`Taken`) and that a manifest that was built describes the catalog (`Made`). The
catalog does not change after the first copy in this module (section 3), so
`InstallsAreAsFrozen` compares with one moment; `CatalogSurvives` has the catalog's
theorems again for the composition.

### 5.4 Canonical identity

Merging one record at a time and grouping all of them at once are two computations of
one thing, which suggests an induction over merges. None is needed. The candidate ids
are ordered, and every id the tables hold is the least candidate of what it stands for;
`IdentityInv` says so and everything else follows.

* `Rooted`: the id of a record is the candidate of a record that identifiers connect it
  with, and not above its own candidate. Connected means that no closed set parts
  the two; it is symmetric, because the complement of a closed set is closed
  (`JoinedBack`). As candidates are distinct, two records with one id share their
  root, which is `MergesAreNamed`.
* `Filed` and `Named`: names lead to the ids of records that were not left out and
  that carried them, and such records are found under theirs. An import that finds
  a name finds its record's id with it; that is `NamesFind`.
* `Home`: the record an id is the candidate of goes where those go that ever had the
  id. When an import merges an id that some record had before, it therefore merges that
  record too (`FoundGoTogether`), and `Redirect` moves the rows together:
  `RedirectsLead`.
* `ImportsAgreeWithRebuild`: the records with one id are closed under common names
  (`Filed`), so the component of a record keeps within them, and the root of the
  id is in the component (`Rooted`); the least candidate of the component is then both
  at most and at least the id.

That a set of ids has a least one (`LeastExists`) is the only use of the order's
well-foundedness. TLC checked `IdentityInv` on the instance of `identity` before it
was proved. Records, identifiers and aliases are arbitrary, and there may be
infinitely many of them; only the candidates are numbers.

### 5.5 Runs, ledger and cases

`DeskInv` says of every document where it may be what its readers check: manifests and
cases on disk are typed and valid, the ledger parses and has what was imported, what an
importer holds has it too, and what a server is about to link is valid, has one stage
more than the case it was staged from and the same decisions.

* Decisions. `Revised` is what `review-run` and `ai-apply-response` have in common: one
  finding differs, summary and phase are recomputed, the rest is as it was.
  `RevisedIsValid` says which of the checks of `RunManifest::validate` a revision cannot break,
  so that what is left to show is the review, the answer and the phase.
  `PendingCanBeDecided` shows that they hold after any decision on a pending finding: the
  phase written is "partial" while a finding is pending and "completed" after the last,
  which is what `Phases::validate` compares with the counts, for any number of findings.
* The ledger. An import is a walk over the findings, and what it leaves is a statement
  about every length. `WalkExists` shows that the recursive definition has a value for
  every finding, and `ImportedParses` that after each of them the ledger parses, begins with
  the ledger that was read and has the records of the findings passed. Both are by
  the least counterexample (`LeastExists`): the first finding at which the statement
  fails is not the beginning, it holds before it, and one step takes it across. The step
  is `AppendParses`: a record linked to the first of its observation
  leaves the links of all earlier records right, because a link looks at the records
  before it only. That two findings of a manifest have two record identifiers is
  `UniqueIds` of a valid manifest; without it the second would be appended twice.
* The race of two importers needs no lock in the proof: an importer brings along
  what was imported when it read (`kept`), and whatever order they replace in, the ledger has
  the records of what the last one counts.
* Agents. `hard_link` looks at the path again, so the case that an agent adds is at a
  path that was free, whoever created files since it looked first.

Totals of a summary appear as equal folds over equal lists only; nothing is proved of
what they add up to.

### 5.6 Evidence

What is computed here are walks: over the events of a range, the files of a tree, the
mentions in a file. Each is a recursive function. `WalkExists` shows that it has a value
at each step, and `UpToLast` carries a statement from one step to the next; both are
by the least counterexample (`FirstFailure`), without induction over data.

* Ranges. After n events the state of the walk is described by the first n events
  alone (`WalkAgrees`): whether they are formed as the schema demands, whether the
  last interval is open and from where, and whether an interval that ended holds the
  version. At the end this is `ReferenceStatus`. A row is excluded only when all in it
  is understood (`RowUnderstood`), which `VersionsAreJudgedByTheRows` adds up over rows.
* Trees. `WalkSound` says of a walk that has read n files: there are versions `vs` such
  that what was found is what these n versions say, each not older than its first digest and not
  newer than the tree. An edit keeps that, for versions only grow (`EditsKeepWalks`).
  When the last digests equal the first ones, `vs` lies between equal versions and is
  the tree the document names. A plan links only documents whose root is the
  target of its run (`PlanSound`).
* Verdicts. Until its last statement a correlation knows that its catalog does not go
  back and that whether there was a hit is what the rows said, as long as no delta came
  in (`CorrelationReads`).
* Own checks. For each kind of document, what the command derives satisfies what its
  `validate` demands, or the document is at one of the boundaries `AtABoundary` names.
  The limits on texts need no arithmetic: a derivation and its check disagree exactly where
  the boundary says, so each lemma splits on it (`ReadInferenceIsValid`, `OverLimit`).
  The entries an inference adds mention by mention claim exactly the mentions read,
  unless its list is full (`AddAllDoes`); a plan's counts add up because pending and
  decided findings part the findings, which is counted with `FiniteSetTheorems`.

### 5.7 What the proofs found

Five statements had to change because the attempt to prove them failed:

* `ReceiptsAreBacked` used to promise a record for every receipt. TLC found nothing because
  foreign files had other bytes than releases. With the same bytes: an entry is saved
  and its save not synced when the process dies; the file at the path is taken for its own by
  recovery (`install.rs:39`), whose save is not synced either; a third session
  exports the receipt; a power loss takes the record back and leaves receipt and file.
  The state is consistent with the file, and the receipt is not void. The property now says so
  and `trust_install` has such a file.
* `NoForks` used to promise a linear chain for every feed. When a chain over an older
  base exists, `ensure_delta_order` (`catalog.rs:2994`) asks of the first delta over a
  newer base only that it names no previous one and that the base is later than the
  last delta. It compares neither the delta's own acquisition with that base
  (`acquired < base_acquired`, refused at 3010 when there is no chain) nor its cursor
  (`after > base_acquired`). Of two deltas over the new base
  acquired before the last one over the old base, both complete: the latest delta
  stays the old one, so the second is compared with it again. With a snapshot at 1,
  a delta at 3, a snapshot at 4 and two deltas over it at 2, TLC ends in that fork.
  `prepare-osv` checks only that the cursor precedes the acquisition (`delta.rs:198`), so it
  takes a mistaken base or clock on the operator's side.
  `docs/contracts/secureflow-advisory-delta-v1.md:40-42` requires a linear chain. The
  property is now unconditional for the cursor of a delta that names a previous one, and
  conditional on `WellDated` for forks.
* `FormerIdsLead` used to be unconditional, and the three of the instance do not break it; four can.
  A record that is inactive during a rebuild keeps its canonical id, which the active
  holders of that id may leave for another. `Home` then fails for it. With candidates
  1 to 4 for records X, Y, K and J: Y is imported and drops out; K and J are joined
  by an alias and get 3; Y's identifier is forgotten by a rebuild; K names Y as an
  alias, Y returns unchanged, J drops out, and a rebuild moves K and Y to 2 while J
  keeps 3; X arrives, then J with an alias of X, which sends 3 to 1; K changes
  again, and as its candidate is 3, `merge_canonical` sends 3 to 2. J had the
  id 3 and is at 1. `docs/contracts/secureflow-advisory-catalog-v1.md:48` says 'Every
  merge preserves a redirect from the previous canonical identifier'; this one
  overwrites it. TLC confirmed the trace on that instance. The property now holds
  until a record that was left out changes (`torn`).
* `CatalogFollowsIndex` used to ask that no *later* snapshot than the delta was begun. A
  snapshot between the base and the delta whose import was interrupted after one of its
  sources was completed has deactivated what it does not list, and does not stop the
  delta, because `ensure_delta_order` (`catalog.rs:2925`) looks at complete snapshots
  only. With another snapshot dated like this TLC reaches a state where the index lists a
  record that is inactive. The import, run again, completes; until then the catalog follows
  neither. The property now asks that no snapshot newer than the base was begun.
* `FeedAssumption` did not say that dates are numbers, nor `IdentityAssumption` that
  candidates are.

## 6. Findings

Four runs end in a violation; `PROJECT.json` quotes the documents.

1. `catalog_stale`: `ensure_no_preparing_delta` runs before the transaction it
   guards. An older snapshot's batch can land between a delta's batches and its
   completion and put older records back under a complete newer delta.
2. `catalog_wedge`: a delta registered while the index is dirty can neither be
   applied, since its batches need a ready index, nor leave the index to be rebuilt.
3. `identity_lost`: a record inactive during a rebuild and listed again unchanged is
   active without its identifiers.
4. `identity_stuck`: a rebuild can compute two redirects for one former id and fails
   on the primary key.

## 7. Not modelled, and the plan

Only model-checked:

* the three liveness properties, `PendingIsSettled`, `IndexIsRebuilt`, `RunEnds`: the provers
  have no liveness under fairness and no ENABLED;
* `CatalogFollowsIndex`. It rests on `NewestWins` and `PresenceFollows`, but also on every delta of
  the chain having been prepared from an index that continues the one before, which is
  an induction over the chain; and on feeds that the theorems of the catalog do not
  need, such as loose trees that share no source with the snapshots.

The values of folds stay with TLC too: nothing is proved of what the totals of a
manifest's summary add up to (5.5).

Not modelled:

* parsing, hashing, signature arithmetic, file permissions, the sizes of whole documents, limits on texts
  except those that web evidence derives (2.8);
* read-only commands: searches, reports, schemas, historical inspection of a store;
* schema migration, the catalog's rollback of unsynced transactions after a power loss
  (`synchronous = NORMAL`), acquisition times whose text and instant disagree;
* the manifest of a backup and `restore`, straight-line code around the modelled copy;
* the publisher (any envelope may be offered, which covers what it writes);
* redaction and truncation in AI requests;
* the two prospective benchmark protocols and the scoring of sealed documents,
  arithmetic without state; the generator of the risk corpus; the lexical analysis of
  source text; the SARIF export of the lab; the pilot, whose transport is compiled out
  (`BOUNDED_TRANSPORT_COMPILED`);
* the review room, scripts and plugins.

Next, in this order:

1. Unsynced transactions in `AdvisoryCatalog`, and the manifest and restoration of a
   backup in `CatalogDistribution`.
2. The sealing of prospective protocols, as an order of documents that may not be
   made after their answers are known.
3. Proof of `CatalogFollowsIndex`, with the chain as a set ordered by cursors, so that the
   least counterexample does what induction would.
