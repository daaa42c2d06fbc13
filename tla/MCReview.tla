------------------------------ MODULE MCReview ------------------------------
(***************************************************************************)
(* One run with two findings, scanned or written by an older producer, two *)
(* files for its manifests, two for cases, an importer of each kind of     *)
(* timing, an agent of each MCP server.                                    *)
(***************************************************************************)
EXTENDS ReviewDesk

Entry(id, line, rank) ==
  [fingerprint |-> id, at |-> [start |-> line, end |-> {line + 1}], rank |-> rank,
   path |-> "steps", verification |-> "semantic-path", evidence |-> {"semantic-path"},
   disposition |-> "security-path", reason |-> FALSE]

\* The second entry repeats the first; the third outranks both.
Report ==
  [id |-> "report", graph |-> {[nodes |-> 1, total |-> 2, scope |-> "finding-evidence"]},
   findings |-> <<Entry("f1", 1, 2), Entry("f1", 1, 1), Entry("f2", 3, 3)>>,
   abstentions |-> <<>>]

Fresh == ScanManifest("r1", "t1", Report)

\* A valid v1 manifest of another producer: no summary, validation still pending.
Legacy ==
  [Fresh EXCEPT !.contract = "v1", !.graph = {}, !.summary = {}, !.validation = "pending",
     !.status = "running", !.ended = FALSE,
     !.findings = [i \in DOMAIN Fresh.findings |->
        [Fresh.findings[i] EXCEPT !.verification = "none", !.evidence = {},
                                  !.disposition = "none"]]]

MCScans == {<<Fresh>>, <<Legacy>>}
\* A v1 record of a decision that the review may take again, and one of another run.
V1(m, id) == [version |-> "v1", id |-> <<m, id, "validated">>, decision |-> "validated",
              reviewer |-> "ann", link |-> {}]
MCFirstLedger == <<V1(Fresh, "f1"), V1(Decide(Fresh, 1, "validated", "ann"), "f2")>>
MCEnvelopes == {[id |-> "e1", target |-> "t1", findings |-> <<"g1">>],
                [id |-> "e2", target |-> "t2", findings |-> <<"g1">>]}
MCSarifs == {[id |-> "s1", results |-> <<"x", "x">>]}
Interchangeable == Permutations(RunPaths) \cup Permutations(CasePaths) \cup Permutations(Importers)
                     \cup Permutations(Agents)
ASSUME ReportImports(Report) /\ ManifestValid(Fresh) /\ ManifestValid(Legacy)
=============================================================================
