--------------------------- MODULE EvidenceImports ---------------------------
(***************************************************************************)
(* Evidence of other programs that is kept beside a run: a review of       *)
(* Secure Skill (secureflow-secure-adapter), a result of Secure Bench      *)
(* (secureflow-bench-adapter), and what the advisory catalog holds of a    *)
(* package the operator names (secureflow-knowledge, correlation.rs).      *)
(***************************************************************************)
EXTENDS VersionRanges

(***************************************************************************)
(* The checkout a review or a result comes from.                           *)
(***************************************************************************)

\* load_source_provenance: the package has the expected name and, when the checkout is a
\* repository, its head is the revision the operator gave.
SourceLoads(source, name, revision) ==
  source.name = name /\ \A head \in source.head : head = revision

(***************************************************************************)
(* Secure Skill.                                                           *)
(***************************************************************************)

\* SecureReview::validate
ReviewParses(p) ==
  /\ p.mode = "fix" => p.authorization = "explicit" /\ p.remediation
  /\ p.mode = "threat-model" => p.threatModel
  /\ \A i, j \in DOMAIN p.findings : p.findings[i] = p.findings[j] => i = j

\* import_review: bound to the run and to the target of its manifest.
ImportedReview(m, payload, revision) ==
  [kind |-> "review", run |-> m.run, target |-> m.target, payload |-> payload,
   revision |-> revision]

(***************************************************************************)
(* Secure Bench.                                                           *)
(***************************************************************************)

\* RatioMetric::validate, where a ratio over nothing has no basis points.
BenchRatioValid(r) ==
  /\ r.numerator <= r.denominator
  /\ r.basisPoints = IF r.denominator = 0 THEN {} ELSE {(r.numerator * 10000) \div r.denominator}

\* import_benchmark: the result names the run manifest and the suite it was given, its
\* ratios are exact, and its counts are those of the score card.
BenchmarkImports(b, runManifest, suite) ==
  /\ b.runManifest = runManifest /\ b.suite = suite
  /\ BenchRatioValid(b.recall)
  /\ b.counts.detected = b.recall.numerator
  /\ b.counts.eligible = b.recall.denominator

ImportedBenchmark(b) ==
  [kind |-> "benchmark", runManifest |-> b.runManifest, suite |-> b.suite, recall |-> b.recall]

(***************************************************************************)
(* Correlation with the advisories of one package.                         *)
(***************************************************************************)

\* summarize_versions
VersionSummary(advisories) ==
  [s \in {"affected", "not-affected", "unknown", "not-evaluated"} |->
     Cardinality({a \in advisories : a.assessment.status = s})]

\* build_correlation_v2; history: what was seen of the catalog when its rows were read.
BuildCorrelation(m, i, requested, catalog, advisories, seen) ==
  [kind |-> "correlation", run |-> m.run, manifest |-> m, finding |-> m.findings[i].id,
   decision |-> m.findings[i].review.decision, requested |-> requested, catalog |-> catalog,
   advisories |-> advisories, summary |-> VersionSummary(advisories), seen |-> seen]

\* CorrelationEnvelopeV2::validate
CorrelationValid(c) ==
  /\ c.catalog.snapshots # {}
  /\ \A a \in c.advisories : AssessmentFits(a.assessment, c.requested)
  /\ c.summary = VersionSummary(c.advisories)
=============================================================================
