---------------------------- MODULE RunManifest ----------------------------
(***************************************************************************)
(* The run manifest (secureflow-model) and how a scan fills it from the    *)
(* report of the engine (secureflow-engine-adapter).  Text and digests are *)
(* left out: a finding has an identifier, a place, a rank and what the     *)
(* engine says of its own evidence.  What a document may lack is a set     *)
(* with at most one member; Nobody and Absent stand for missing values.    *)
(***************************************************************************)
EXTENDS Integers, SequencesExt, FiniteSetsExt

Decisions == {"validated", "rejected", "abstained"}
Terminal == {"completed", "partial", "failed", "cancelled"}
States == {"syntactic-lead", "semantic-path", "guard-aware-lead", "manually-validated"}
Nobody == "nobody"
Absent == -1

Counting(seq, Test(_)) == Cardinality({i \in DOMAIN seq : Test(seq[i])})
Totalling(seq, Amount(_)) == FoldLeft(LAMBDA sum, e : sum + Amount(e), 0, seq)
UniqueIds(seq) == \A i, j \in DOMAIN seq : seq[i].id = seq[j].id => i = j

(***************************************************************************)
(* import_secure_json_report: what the adapter takes.  It leaves the order *)
(* of lines and the reason of a calibration to the manifest's own rules.   *)
(***************************************************************************)

\* project_graph: totals cover what is serialized, and a full graph is all of it.
GraphImports(g) ==
  /\ g.nodes <= g.total
  /\ g.scope = "full" => g.nodes = g.total

\* project_evidence_state: an evidence state, when given, repeats the verification state.
StateImports(e) == \A s \in e.evidence : s \in States /\ s = e.verification

\* project_calibration, of a finding and of an abstention.
FindingImports(e) ==
  /\ StateImports(e)
  /\ e.disposition # "explicit-abstention"
  /\ e.path # "empty"
AbstentionImports(a) == a.disposition = "explicit-abstention" /\ a.path # "empty"

ReportImports(r) ==
  /\ \A g \in r.graph : GraphImports(g)
  /\ \A i \in DOMAIN r.findings : FindingImports(r.findings[i])
  /\ \A i \in DOMAIN r.abstentions : AbstentionImports(r.abstentions[i])

\* project_finding: a candidate starts without a decision and without an AI request.
Candidate(e) ==
  [id |-> e.fingerprint, at |-> e.at, rank |-> e.rank, path |-> e.path,
   verification |-> e.verification, evidence |-> e.evidence,
   disposition |-> e.disposition, reason |-> e.reason,
   review |-> [decision |-> "pending", reviewer |-> Nobody],
   ai |-> [status |-> "not_requested", request |-> {}, tokens |-> Absent]]

\* prioritize_findings: the higher rank first, then by place and identifier.
Before(f, g) ==
  \/ f.rank > g.rank
  \/ f.rank = g.rank /\ f.at.start < g.at.start
  \/ f.rank = g.rank /\ f.at.start = g.at.start /\ f.id <= g.id
Prioritized(findings) == SortSeq(findings, Before)

\* deduplicate_findings: the first with one fingerprint and one place stays, so that a
\* fingerprint reported at two places stays twice.
Deduplicated(findings) ==
  FoldLeft(LAMBDA kept, f : IF \E k \in ToSet(kept) : k.id = f.id /\ k.at = f.at
                            THEN kept ELSE Append(kept, f),
           <<>>, findings)

(***************************************************************************)
(* RunManifest::validate and the rules of its parts.                       *)
(***************************************************************************)

\* validate_v1_shape: a v1 manifest holds nothing that v2 introduced.
LegacyShape(m) ==
  m.contract = "v1" =>
    /\ m.abstentions = <<>> /\ m.graph = {}
    /\ \A i \in DOMAIN m.findings :
         /\ m.findings[i].verification = "none" /\ m.findings[i].evidence = {}
         /\ m.findings[i].disposition = "none"

\* Location::validate: lines count from one, and an end does not precede its start.
PlaceValid(at) == at.start >= 1 /\ \A e \in at.end : e >= at.start

\* EngineEvidenceCalibration::validate: all but a security path give their reason.
CalibrationValid(e) == e.disposition \in {"none", "security-path"} \/ e.reason

\* HumanReview::validate: a decision has its reviewer, a pending review has none.
ReviewValid(review) == (review.decision = "pending") <=> (review.reviewer = Nobody)

\* AiValidation::validate: each status has its metadata and no other.
AiValid(ai) ==
  /\ ai.status \in {"not_requested", "skipped"} => ai.request = {} /\ ai.tokens = Absent
  /\ ai.status = "queued" => ai.request # {} /\ ai.tokens = Absent
  /\ ai.status = "completed" => ai.request # {} /\ ai.tokens # Absent
  /\ ai.status = "failed" => ai.request # {}

FindingValid(f) ==
  /\ \A s \in f.evidence : s = f.verification
  /\ CalibrationValid(f) /\ f.disposition # "explicit-abstention"
  /\ PlaceValid(f.at) /\ f.path # "empty"
  /\ ReviewValid(f.review) /\ AiValid(f.ai)

AbstentionValid(a) ==
  /\ PlaceValid(a.at) /\ a.path # "empty"
  /\ CalibrationValid(a) /\ a.disposition = "explicit-abstention"

\* Phases::validate: the validation phase says which findings are reviewed.
PhasesValid(m) ==
  LET pending == Counting(m.findings, LAMBDA f : f.review.decision = "pending")
      reviewed == Len(m.findings) - pending
  IN /\ m.validation = "completed" => pending = 0
     /\ m.validation = "partial" => pending # 0 /\ reviewed # 0
     /\ m.validation = "skipped" => reviewed = 0

\* What a summary counts; the duplicates are known to the scan alone.
Summary(findings, duplicates) ==
  [candidates |-> Len(findings), duplicates |-> duplicates,
   decided |-> [d \in Decisions |-> Counting(findings, LAMBDA f : f.review.decision = d)],
   calls |-> Counting(findings, LAMBDA f : f.ai.status \in {"completed", "failed"}),
   tokens |-> Totalling(findings, LAMBDA f : IF f.ai.tokens = Absent THEN 0 ELSE f.ai.tokens)]

SummaryValid(s, findings) == s = Summary(findings, s.duplicates)

ManifestValid(m) ==
  /\ LegacyShape(m)
  /\ (m.status \in Terminal) <=> m.ended
  /\ \A g \in m.graph : GraphImports(g)
  /\ \A i \in DOMAIN m.findings : FindingValid(m.findings[i])
  /\ UniqueIds(m.findings)
  /\ \A i \in DOMAIN m.abstentions : AbstentionValid(m.abstentions[i])
  /\ UniqueIds(m.abstentions)
  /\ PhasesValid(m)
  /\ \A s \in m.summary : SummaryValid(s, m.findings)

\* refresh_summary: what is counted is counted again, the duplicates are kept.
RefreshSummary(m) ==
  LET duplicates == IF m.summary = {} THEN 0 ELSE (CHOOSE s \in m.summary : TRUE).duplicates
  IN [m EXCEPT !.summary = {Summary(m.findings, duplicates)}]

\* The manifest scan builds of an imported report; it is written only when it is valid.
ScanManifest(run, target, r) ==
  LET found == Prioritized([i \in DOMAIN r.findings |-> Candidate(r.findings[i])])
      kept == Deduplicated(found)
  IN [contract |-> "v2", run |-> run, target |-> target, status |-> "completed",
      ended |-> TRUE, report |-> r.id, graph |-> r.graph, findings |-> kept,
      deterministic |-> "completed", prioritization |-> "completed",
      validation |-> "skipped", evaluation |-> "skipped",
      abstentions |-> r.abstentions,
      summary |-> {Summary(kept, Len(found) - Len(kept))}]
=============================================================================
