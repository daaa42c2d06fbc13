---------------------------- MODULE EvidenceDesk ----------------------------
(***************************************************************************)
(* The evidence kept beside a run, from the tree and the catalog it is     *)
(* made of to the plan that links it.  The commands that read a tree or    *)
(* the catalog do it in steps, between which the tree is edited, time goes *)
(* on and the catalog takes a delta; the others read immutable documents   *)
(* (write_atomic_new) and are one step.                                    *)
(***************************************************************************)
EXTENDS WebEvidence, Orchestration, EvidenceImports

CONSTANTS
  Manifests,     \* run manifests, of a scan and of another producer
  Drafts,        \* the repositories of scope drafts an operator writes
  Coverage,      \* coverage tables, as sets of rows
  Reproductions, \* what reviewers give as the reproduction of an observation
  Cases, Corpora,           \* what evaluations expect
  Payloads, Results,        \* reviews of Secure Skill, results of Secure Bench
  Requests,                 \* the versions asked for in a correlation
  FirstRows, NextRows,      \* what the catalog may hold of the package, before and after a delta
  MaxEdits, MaxTime, MaxDeltas, MaxDocuments, MaxOfKind  \* bounds

ASSUME ManifestsAreValid == \A m \in Manifests : ManifestValid(m)

\* What the constants stand for: lists are sequences, and a row holds what the tables of
\* the catalog have room for, whether or not it can be parsed.
IsList(s) == s \in Seq(ToSet(s))
RangeEvents == [field : STRING, value : Int]
RowTyped(row) ==
  /\ IsList(row.ranges)
  /\ \A i \in DOMAIN row.ranges :
       /\ row.ranges[i].kind \in {"semver", "other", "unparsable"}
       /\ IsList(row.ranges[i].events)
       /\ \A k \in DOMAIN row.ranges[i].events : row.ranges[i].events[k] \in RangeEvents
RowsTyped(rows) == IsList(rows) /\ \A i \in DOMAIN rows : RowTyped(rows[i])

\* A file that stands for a route has a path the route is read from, and what the parsers make
\* of a mention is what its kind of candidate needs.
ContentTyped(c) ==
  /\ c.shape \in {"app-route", "app-page", "pages-page", "pages-api"} => c.path # NoRoute
  /\ IsList(c.mentions) /\ \A i \in DOMAIN c.mentions : KeyValid(c.mentions[i].key)
ASSUME TreeIsTyped ==
  /\ IsList(Files) /\ Files # <<>>
  /\ \A i \in DOMAIN Files :
       /\ Files[i] # NoOperation /\ IsList(Holds[Files[i]]) /\ Holds[Files[i]] # <<>>
       /\ \A v \in DOMAIN Holds[Files[i]] : ContentTyped(Holds[Files[i]][v])
ASSUME ManifestsAreTyped == \A m \in Manifests : IsList(m.findings)
ASSUME RowsAreTyped == \A rows \in FirstRows \cup NextRows : RowsTyped(rows)
ASSUME ReferencesAreFinite == \A rows \in Coverage : \A r \in rows : IsFiniteSet(r.references)
ASSUME CasesAreFinite ==
  /\ \A case \in Cases : IsFiniteSet(case)
  /\ \A corpus \in Corpora : IsFiniteSet(corpus)
ASSUME RequestsAreTyped == \A r \in Requests : r.given \in BOOLEAN /\ r.version \in Int

VARIABLES
  tree,      \* the version of each file, in the order of Files; a content never returns
  now,       \* the clock
  catalog,   \* what the catalog holds of the package, and the import that is changing it
  docs,      \* the documents written so far
  job,       \* the command that is reading
  plan,      \* the plan, once one was derived
  refused    \* history: the document a command built and then refused to write

vars == <<tree, now, catalog, docs, job, plan, refused>>

NoJob == [command |-> "none"]
FirstTree == [i \in DOMAIN Files |-> 1]

Init ==
  /\ tree = FirstTree
  /\ now = 0
  /\ catalog = [snapshots |-> {"first"}, deltas |-> 0, preparing |-> FALSE, rows |-> {}]
  /\ docs = {} /\ job = NoJob /\ plan = {} /\ refused = {}

\* Bounds: the last step is a plan or a refusal; so many documents, and so many of a kind;
\* and one order of the kinds, as a command that reads only documents commutes with any
\* command that does not read what it writes.
KindOrder == <<"scope", "inventory", "inference", "assessment", "lab-result", "corpus-result",
               "review", "benchmark", "correlation">>
Working == plan = {} /\ refused = {}
OfKind(kind) == {d \in docs : d.kind = kind}
InOrder(kind) ==
  \A i, j \in DOMAIN KindOrder : i < j /\ KindOrder[i] = kind => OfKind(KindOrder[j]) = {}
MayWrite(kind) ==
  /\ Working /\ job = NoJob /\ InOrder(kind) /\ catalog.rows = {}
  /\ Cardinality(docs) < MaxDocuments /\ Cardinality(OfKind(kind)) < MaxOfKind[kind]

AtFirst == docs = {} /\ tree = FirstTree /\ now = 0

\* A command checks what it built and then links it to its name, which must be new.
WriteNew(d, valid) ==
  IF valid THEN docs' = docs \cup {d} /\ UNCHANGED refused
  ELSE refused' = {d} /\ UNCHANGED docs

(***************************************************************************)
(* Around the commands.                                                    *)
(***************************************************************************)
EditsMade == FoldSeq(LAMBDA v, sum : v - 1 + sum, 0, tree)
\* Bound: so many edits, none once a correlation is begun, which does not read the tree.
Edit ==
  /\ Working /\ catalog.rows = {}
  /\ EditsMade < MaxEdits
  /\ \E i \in DOMAIN Files :
       tree[i] + 1 \in DOMAIN Holds[Files[i]] /\ tree' = [tree EXCEPT ![i] = @ + 1]
  /\ UNCHANGED <<now, catalog, docs, job, plan, refused>>

Tick ==
  /\ Working /\ job = NoJob /\ catalog.rows = {} /\ now < MaxTime /\ now' = now + 1
  /\ UNCHANGED <<tree, catalog, docs, job, plan, refused>>

\* A delta import: marked as preparing, in batches that others can read, then complete.
\* Bound: only a correlation reads the catalog, so it changes while one is made.
DeltaImport ==
  /\ Working /\ job.command = "correlate" /\ catalog.deltas < MaxDeltas
  /\ \/ ~catalog.preparing /\ catalog' = [catalog EXCEPT !.preparing = TRUE]
     \/ /\ catalog.preparing
        /\ \E rows \in NextRows : catalog' = [catalog EXCEPT !.rows = {rows}]
     \/ catalog.preparing /\ catalog' = [catalog EXCEPT !.preparing = FALSE, !.deltas = @ + 1]
  /\ UNCHANGED <<tree, now, docs, job, plan, refused>>

(***************************************************************************)
(* Commands that read the tree.  Each pass reads the files one by one: the *)
(* digest of the root, the same digest once more, the files themselves,    *)
(* and the digest a third time.                                            *)
(***************************************************************************)
Walk(command, scope, inventory) ==
  [command |-> command, scope |-> scope, inventory |-> inventory, until |-> 0,
   pass |-> "root", sum |-> <<>>, next |-> 1, root |-> <<>>, found |-> {}]

\* web-scope-create digests the tree it is to authorize.
WebScopeCreate ==
  /\ MayWrite("scope")
  /\ \E until \in 1..MaxTime : job' = [Walk("scope", {}, {}) EXCEPT !.until = until]
  /\ UNCHANGED <<tree, now, catalog, docs, plan, refused>>

\* web-scope-seal takes the repositories from a draft.
WebScopeSeal ==
  /\ MayWrite("scope")
  /\ \E roots \in Drafts, until \in 1..MaxTime :
       LET s == SealScope(roots, until, now) IN ScopeValid(s) /\ docs' = docs \cup {s}
  /\ UNCHANGED <<tree, now, catalog, job, plan, refused>>

\* web-inventory-nextjs and web-infer read the clock once, before everything else.
WebInventoryNextjs ==
  /\ MayWrite("inventory")
  /\ \E s \in OfKind("scope") : ScopeValidAt(s, now) /\ job' = Walk("inventory", {s}, {})
  /\ UNCHANGED <<tree, now, catalog, docs, plan, refused>>

WebInfer ==
  /\ MayWrite("inference")
  /\ \E s \in OfKind("scope"), i \in OfKind("inventory") :
       /\ ScopeValidAt(s, now) /\ InventoryValid(i)
       /\ job' = Walk("inference", {s}, {i})
  /\ UNCHANGED <<tree, now, catalog, docs, plan, refused>>

\* What the scope and the inventory must say of the root before the second digest.
RootAuthorized(j, root) ==
  /\ \A s \in j.scope : AuthorizesRepository(s, TreeHash(root))
  /\ \A i \in j.inventory : {i.scope} = j.scope /\ i.root = TreeHash(root)

\* Mutant: the tree is not digested again after it was read.
TreeTrusted(j, sum) == TRUE
\* The last digest must be the one before.
TreePreserved(j, sum) == sum = j.root

\* What one file adds to the pass.
ReadOne(j, version) ==
  LET f == Files[j.next]
      content == Holds[f][version]
  IN IF j.pass # "read" THEN [j EXCEPT !.sum = Append(@, version), !.next = @ + 1]
     ELSE [j EXCEPT !.next = @ + 1,
                    !.found = {IF j.command = "inventory" THEN ReadForInventory(g, f, content)
                               ELSE ReadForInference(g, f, content) : g \in @}]

\* The document a walk ends with.
Derived(j) ==
  LET scope == CHOOSE s \in j.scope : TRUE
      found == CHOOSE g \in j.found : TRUE
      root == TreeHash(j.root)
  IN IF j.command = "inventory" THEN Inventory(scope, root, found)
     ELSE Inference(scope, root, CHOOSE i \in j.inventory : TRUE, found)
DerivedValid(d) == IF d.kind = "inventory" THEN InventoryValid(d) ELSE InferenceValid(d)

Pass(j, pass) == [j EXCEPT !.pass = pass, !.sum = <<>>, !.next = 1]
Nothing == job' = NoJob /\ UNCHANGED <<docs, refused>>
Goto(j) == job' = j /\ UNCHANGED <<docs, refused>>

\* The end of a pass: the checks before the next one.
EndOfPass(j) ==
  \/ /\ j.pass = "root" /\ j.command = "scope"
     /\ job' = NoJob
     /\ LET s == SealScope({TreeHash(j.sum)}, j.until, now)
        IN IF ScopeValid(s) THEN WriteNew(s, TRUE) ELSE UNCHANGED <<docs, refused>>
  \/ /\ j.pass = "root" /\ j.command # "scope"
     /\ IF RootAuthorized(j, j.sum) THEN Goto([Pass(j, "before") EXCEPT !.root = j.sum]) ELSE Nothing
  \/ /\ j.pass = "before"
     /\ IF j.sum # j.root THEN Nothing
        ELSE Goto([Pass(j, "read") EXCEPT
                     !.found = IF j.command = "inventory" THEN {NothingFound}
                               ELSE {Gathering(i) : i \in j.inventory}])
  \/ /\ j.pass = "read"
     /\ IF DerivedValid(Derived(j)) THEN Goto(Pass(j, "after"))
        ELSE job' = NoJob /\ WriteNew(Derived(j), FALSE)
  \/ /\ j.pass = "after"
     /\ IF TreePreserved(j, j.sum) THEN job' = NoJob /\ WriteNew(Derived(j), TRUE) ELSE Nothing

ReadFile ==
  /\ Working /\ job.command \in {"scope", "inventory", "inference"}
  /\ LET j == ReadOne(job, tree[job.next])
     IN IF j.next <= Len(Files) THEN Goto(j) ELSE EndOfPass(j)
  /\ UNCHANGED <<tree, now, catalog, plan>>

(***************************************************************************)
(* Commands over documents.                                                *)
(***************************************************************************)
WebAssess ==
  /\ MayWrite("assessment")
  /\ \E s \in OfKind("scope"), i \in OfKind("inventory"), rows \in Coverage :
       /\ ScopeValidAt(s, now) /\ InventoryValid(i)
       /\ i.scope = s /\ AuthorizesRepository(s, i.root)
       /\ TableValid(rows)
       /\ LET a == AssessRoutes(s, i, rows) IN WriteNew(a, AssessmentValid(a))
  /\ UNCHANGED <<tree, now, catalog, job, plan>>

WebReviewAssessment ==
  /\ MayWrite("assessment")
  /\ \E a \in OfKind("assessment"), reproduction \in Reproductions : \E o \in a.observations :
       /\ AssessmentValid(a) /\ MayValidate(o)
       /\ LET b == RecordHumanValidation(a, o, reproduction) IN WriteNew(b, AssessmentValid(b))
  /\ UNCHANGED <<tree, now, catalog, job, plan>>

WebLab ==
  /\ MayWrite("lab-result")
  /\ \E i \in OfKind("inventory"), case \in Cases :
       LET l == CompareInventory(i, case) IN InventoryValid(i) /\ WriteNew(l, LabValid(l))
  /\ UNCHANGED <<tree, now, catalog, job, plan>>

WebCorpusEvaluate ==
  /\ MayWrite("corpus-result")
  /\ \E i \in OfKind("inventory"), f \in OfKind("inference"), corpus \in Corpora :
       /\ InventoryValid(i) /\ InferenceValid(f) /\ CorpusLinked(i, f)
       /\ LET r == EvaluateCorpus(i, f, corpus) IN WriteNew(r, CorpusResultValid(r))
  /\ UNCHANGED <<tree, now, catalog, job, plan>>

SecureReviewImport ==
  /\ MayWrite("review")
  /\ \E m \in Manifests, p \in Payloads :
       /\ SourceLoads(p.source, "secure-skill", p.revision) /\ ReviewParses(p.review)
       /\ WriteNew(ImportedReview(m, p.review, p.revision), TRUE)
  /\ UNCHANGED <<tree, now, catalog, job, plan>>

BenchmarkImport ==
  /\ MayWrite("benchmark")
  /\ \E b \in Results :
       /\ SourceLoads(b.source, "secure-bench", b.revision)
       /\ BenchmarkImports(b, b.givenManifest, b.givenSuite)
       /\ WriteNew(ImportedBenchmark(b), TRUE)
  /\ UNCHANGED <<tree, now, catalog, job, plan>>

(***************************************************************************)
(* correlate-package: what the catalog is made of, the advisories of the   *)
(* package and what they hold of it are three queries.                     *)
(***************************************************************************)

\* Bound: a correlation is the first document and the last, as it shares nothing with the
\* others but the run; the rows and the version are varied for one finding, the findings for
\* one version and one row.
FirstOf(S) == {x \in S : x = CHOOSE y \in S : TRUE}
RunsCorrelated == {m \in Manifests : m.findings # <<>>}
Questions ==
  (FirstOf(RunsCorrelated) \X Requests \X FirstRows)
  \cup (RunsCorrelated \X FirstOf(Requests) \X FirstOf(FirstRows))

\* ensure_no_preparing_delta
NoneIsPreparing == ~catalog.preparing

\* correlate-package reads the provenance of the catalog first.  Bound: what the catalog holds
\* is chosen here, and it holds nothing of the package when no snapshot of it is complete.
CorrelatePackage ==
  /\ MayWrite("correlation") /\ AtFirst /\ NoneIsPreparing
  /\ \E q \in Questions, complete \in SUBSET catalog.snapshots : \E i \in DOMAIN q[1].findings :
       /\ complete # {} \/ q[3] = <<>>
       /\ job' = [command |-> "correlate", step |-> "check", manifest |-> q[1], finding |-> i,
                  requested |-> q[2], hit |-> FALSE,
                  catalog |-> [snapshots |-> complete, deltas |-> catalog.deltas]]
       /\ catalog' = [catalog EXCEPT !.rows = {q[3]}, !.snapshots = complete]
  /\ UNCHANGED <<tree, now, docs, plan, refused>>

\* search_package: the check, then whether there is an advisory of the package.
SearchPackage ==
  /\ Working /\ job.command = "correlate"
  /\ \/ job.step = "check" /\ job' = IF NoneIsPreparing THEN [job EXCEPT !.step = "search"] ELSE NoJob
     \/ /\ job.step = "search"
        /\ job' = [job EXCEPT !.step = "evaluate", !.hit = \E rows \in catalog.rows : rows # <<>>]
  /\ UNCHANGED <<tree, now, catalog, docs, plan, refused>>

\* History: whether the catalog is still the one the correlation names.
Still == ~catalog.preparing /\ catalog.deltas = job.catalog.deltas

\* search_package_version reads what the advisory holds, without a check of its own; the
\* document is kept with these rows and whether they are of the catalog it names.
SearchPackageVersion ==
  /\ Working /\ job.command = "correlate" /\ job.step = "evaluate"
  /\ LET rows == CHOOSE r \in catalog.rows : TRUE
         hits == IF job.hit THEN {[assessment |-> EvaluatePackageVersion(job.requested, rows)]} ELSE {}
         c == BuildCorrelation(job.manifest, job.finding, job.requested, job.catalog, hits,
                               [still |-> Still, held |-> rows])
     IN WriteNew(c, CorrelationValid(c))
  /\ job' = NoJob
  /\ UNCHANGED <<tree, now, catalog, plan>>

(***************************************************************************)
(* orchestrate-plan: each document is of the run, of its tree, or of a     *)
(* document that is.                                                       *)
(***************************************************************************)
OneOfEach(evidence) ==
  \A d, e \in evidence : d.kind = e.kind /\ d.kind # "correlation" => d = e

Linked(m, evidence) ==
  LET Of(kind) == {d \in evidence : d.kind = kind}
      inventories == Of("inventory")
  IN /\ \A d \in Of("review") : d.run = m.run /\ d.target = m.target
     /\ \A d \in Of("correlation") :
          d.run = m.run /\ d.manifest = m /\ \E i \in DOMAIN m.findings : m.findings[i].id = d.finding
     /\ \A d \in Of("benchmark") : d.runManifest = m
     /\ \A d \in inventories : d.root = m.target
     /\ \A d \in Of("inference") :
          d.root = m.target /\ \A i \in inventories : i.scope = d.scope /\ i \in d.inventories
     /\ \A d \in Of("assessment") : \E i \in inventories : i.scope = d.scope /\ i \in d.inventories
     /\ \A d \in Of("lab-result") : d.inventory \in inventories
     /\ \A d \in Of("corpus-result") : d.inventory \in inventories /\ d.inference \in Of("inference")

OrchestratePlan ==
  /\ Working /\ job = NoJob
  /\ \E m \in Manifests, evidence \in SUBSET {d \in docs : d.kind # "scope"} :
       /\ OneOfEach(evidence) /\ Linked(m, evidence)
       /\ LET p == DerivePlan(m, evidence)
          IN IF PlanValid(p) THEN plan' = {p} /\ UNCHANGED refused
             ELSE refused' = {p} /\ UNCHANGED plan
  /\ UNCHANGED <<tree, now, catalog, docs, job>>

Around == Edit \/ Tick \/ DeltaImport
TreeWork == WebScopeCreate \/ WebScopeSeal \/ WebInventoryNextjs \/ WebInfer \/ ReadFile
DocumentWork ==
  \/ WebAssess \/ WebReviewAssessment \/ WebLab \/ WebCorpusEvaluate
  \/ SecureReviewImport \/ BenchmarkImport
CatalogWork == CorrelatePackage \/ SearchPackage \/ SearchPackageVersion

Next == Around \/ TreeWork \/ DocumentWork \/ CatalogWork \/ OrchestratePlan
Spec == Init /\ [][Next]_vars

(***************************************************************************)
(* Properties.                                                             *)
(***************************************************************************)

\* What the code of one tree declares and what it mentions.
RoutesOf(root) ==
  UNION {ClassifyNextFile(Files[i], Holds[Files[i]][root.of[i]]) : i \in DOMAIN Files}
MentionsOf(root) ==
  UNION {ToSet(MentionsIn(Files[i], Holds[Files[i]][root.of[i]])) : i \in DOMAIN Files}

InventoryIsOf(d, root) ==
  /\ d.root = root /\ AuthorizesRepository(d.scope, root)
  /\ d.routes \subseteq RoutesOf(root)
  /\ IF d.truncated THEN Cardinality(d.routes) = MaxRoutes ELSE d.routes = RoutesOf(root)

InferenceIsOf(d, root) ==
  LET mentioned == MentionsOf(root) \cup UNION {Implemented(i) : i \in d.inventories}
      claimed == UNION {{[key |-> c.key, is |-> r] : r \in c.references} : c \in d.candidates}
  IN /\ d.root = root /\ AuthorizesRepository(d.scope, root)
     /\ \A i \in d.inventories : i.root = root /\ i.scope = d.scope
     /\ claimed \subseteq mentioned
     /\ d.truncated \/ claimed = mentioned

\* An inventory has the routes of exactly the tree its root names, an inference the mentions
\* of exactly that tree, also when the tree is edited while it is read; and the web evidence
\* of a plan is of the tree of its run, whatever document leads to it (discover_nextjs and
\* infer_local_apis digest the tree before and after, orchestrate-plan follows the links).
EvidenceIsOfOneTree ==
  /\ \A d \in OfKind("inventory") : InventoryIsOf(d, d.root)
  /\ \A d \in OfKind("inference") : InferenceIsOf(d, d.root)
  /\ \A p \in plan : \A d \in p.evidence :
       /\ d.kind = "inventory" => InventoryIsOf(d, p.target)
       /\ d.kind = "inference" => InferenceIsOf(d, p.target)
       /\ d.kind = "assessment" => \E i \in d.inventories : InventoryIsOf(i, p.target)
       /\ d.kind \in {"lab-result", "corpus-result"} => InventoryIsOf(d.inventory, p.target)

\* The boundaries where the code refuses a document it derived itself, as the derivation does
\* not look at a limit that the check has: a route by its file's path or its own (validate_route);
\* an endpoint that more than MaxReferences places mention, an operation that is too long or a
\* route that is not normal (validate_candidate); a validation of an observation that has
\* MaxReferences references, a list of excess fields too long for one limitation
\* (validate_observation); a catalog without a complete snapshot, an advisory whose rows a delta
\* took away between two queries (CorrelationEnvelopeV2::validate); and a run whose
\* prioritization is completed though its analysis is not (validate_derived_state).
AtABoundary(d) ==
  CASE d.kind = "inventory" -> \E r \in d.routes : ~RouteFits(r)
    [] d.kind = "inference" ->
         \E c \in d.candidates :
           \/ Cardinality(c.references) > MaxReferences
           \/ ~OperationFits(c.key) \/ ~RouteIsNormal(c.key)
    [] d.kind = "assessment" ->
         \E o \in d.observations : Cardinality(o.references) > MaxReferences \/ ~LimitationFits(o)
    [] d.kind = "correlation" ->
         d.catalog.snapshots = {} \/ (~d.seen.still /\ d.seen.held = <<>>)
    [] d.kind = "plan" ->
         d.manifest.deterministic # "completed" /\ d.manifest.prioritization = "completed"
    [] OTHER -> FALSE

\* A document a command derives from valid inputs passes the checks its readers repeat, at
\* every step but the boundaries above: the counts and summaries, the derivation of candidates,
\* verdicts and phases, the lineage, which parts go with which kind, the number of references,
\* and the length of the texts derived from the tree and the coverage table.  It says nothing
\* of texts that are passed on from elsewhere (what an operator gives, the manifest, the
\* reviews, the advisories) nor of the size of a whole document.
OwnChecksPass == \A d \in refused : AtABoundary(d)

\* The verdict on a version is the one the stored ranges call for, in the meaning the OSV
\* schema gives them, when no delta was imported while the correlation was made
\* (evaluate_package_version, search_package_version).
VerdictsMatchTheCatalog ==
  \A c \in OfKind("correlation") :
    c.seen.still =>
      /\ (c.advisories = {}) <=> (c.seen.held = <<>>)
      /\ \A a \in c.advisories :
           a.assessment.status = IF c.requested.given THEN ReferenceStatus(c.requested.version, c.seen.held)
                                 ELSE "not-evaluated"
=============================================================================
