----------------------------- MODULE MCEvidence -----------------------------
(***************************************************************************)
(* A tree of five files, of which one is created later and others are      *)
(* edited; manifests of a scan and of a producer that digests a tree as    *)
(* the inventory does; one of each other document; and the catalog rows of *)
(* one package, with every event list of length two and every well-formed  *)
(* one of length four.                                                     *)
(***************************************************************************)
EXTENDS EvidenceDesk

Content(shape, path, exports, mentions) ==
  [shape |-> shape, path |-> path, exports |-> exports, mentions |-> mentions]
Said(key, origin, line) == [key |-> key, origin |-> origin, line |-> line]
Endpoint(route) == Key("http-endpoint", route, NoOperation)
Unresolved(at) == Key("unresolved-client-call", NoRoute, at)

MCFiles == <<"api", "client", "dotted", "openapi", "page">>
MCHolds ==
  \* The second version calls a path that a blank and a slash end.
  [api |-> <<Content("app-route", "/a", {"GET"}, <<>>),
             Content("app-route", "/a", {}, <<Said(Endpoint("/b "), "client-call", 2)>>)>>,
   \* The second version mentions the endpoint of the first file at one place too many, the
   \* third makes a call at a line that has one digit too many.
   client |-> <<Content("other", NoRoute, {}, <<Said(Endpoint("/a"), "client-call", 1),
                                               Said(Unresolved("client:2"), "client-call", 2)>>),
                Content("use-server", NoRoute, {}, <<Said(Endpoint("/a"), "client-call", 1),
                                               Said(Endpoint("/a"), "client-call", 2)>>),
                Content("other", NoRoute, {}, <<Said(Unresolved("client:10"), "client-call", 10)>>)>>,
   dotted |-> <<Content("other", NoRoute, {}, <<>>), Content("app-route", "/..b", {"GET"}, <<>>)>>,
   openapi |-> <<Content("other", NoRoute, {}, <<Said(Endpoint("/b"), "open-api", 2)>>)>>,
   page |-> <<Content("app-page", "/{p}", {}, <<>>),
              Content("app-page", "/{p}", {}, <<Said(Endpoint("/p"), "client-call", 1)>>)>>]

\* The client's path is as long as a call at a line of one digit may make it; a name and a token
\* fill the limitation of an observation to the last byte, a name and an owner are one too many.
MCBytes ==
  [api |-> 300, client |-> 298, dotted |-> 20, openapi |-> 20, page |-> MaxFileReference]
  @@ ("client:2" :> 300) @@ ("client:10" :> 301)
  @@ ("/a" :> 2) @@ ("/b" :> 2) @@ ("/b " :> 3) @@ ("/..b" :> 4) @@ ("/{p}" :> 2000) @@ ("/p" :> 2)
  @@ [name |-> 300, token |-> 155, owner |-> 156, id |-> 2, p |-> 300]
MCPathOf ==
  LET Path(dots, parameters, normal) ==
        [dots |-> dots, parameters |-> parameters, normal |-> normal]
  IN ("/a" :> Path(FALSE, <<>>, "/a")) @@ ("/b" :> Path(FALSE, <<>>, "/b"))
     @@ ("/b " :> Path(FALSE, <<>>, "/b")) @@ ("/p" :> Path(FALSE, <<>>, "/p"))
     @@ ("/..b" :> Path(TRUE, <<>>, "/..b")) @@ ("/{p}" :> Path(FALSE, <<"p">>, "/{p}"))

Entry(id, line) ==
  [fingerprint |-> id, at |-> [start |-> line, end |-> {line}], rank |-> 1, path |-> "steps",
   verification |-> "semantic-path", evidence |-> {}, disposition |-> "security-path",
   reason |-> FALSE]
Report(entries) ==
  [id |-> "report", graph |-> {}, findings |-> entries, abstentions |-> <<>>]
First == <<1, 1, 1, 1, 1>>
ApiEdited == <<2, 1, 1, 1, 1>>
PageEdited == <<1, 1, 1, 1, 2>>
Scanned == ScanManifest("r1", TargetHash(First), Report(<<Entry("f1", 1)>>))
Foreign == [Scanned EXCEPT !.target = TreeHash(First)]
Decided ==
  LET found == [Foreign.findings[1] EXCEPT !.review = [decision |-> "rejected", reviewer |-> "ann"],
                                           !.ai.status = "queued", !.ai.request = {"q"}]
  IN RefreshSummary([Foreign EXCEPT !.findings = <<found>>, !.validation = "completed"])
Interrupted == [Foreign EXCEPT !.status = "failed", !.deterministic = "failed"]
MCManifests == {Scanned, Foreign, Decided, Interrupted,
                [ScanManifest("r2", TreeHash(ApiEdited), Report(<<>>)) EXCEPT
                   !.status = "failed", !.deterministic = "failed", !.prioritization = "skipped"]}

MCDrafts == {{}, {TreeHash(First), TreeHash(ApiEdited), TreeHash(PageEdited)}}

Row(required, seen, fields, references) ==
  [route |-> "/a", intent |-> "privileged", implemented |-> TRUE, documented |-> TRUE,
   observed |-> TRUE, required |-> required, seen |-> [c \in Controls |-> seen],
   declared |-> TRUE, allowed |-> {"id"}, fields |-> fields, references |-> references]
Undocumented ==
  [Row({"sanitized-errors"}, "unknown", {"name"}, {"log"}) EXCEPT
     !.intent = "public", !.documented = FALSE, !.route = "/b", !.declared = FALSE]
Signed == {"authentication", "authorization"}
\* In order: two candidates to validate; the longest list of excess fields, of an observation
\* with the reproduction among its references, and an observation with as many references as it
\* may have; a list that is one byte longer; and two tables that are refused.
MCCoverage ==
  {{[Row({"restricted-cors"}, "inconsistent", {"id"}, {"log"}) EXCEPT
       !.intent = "public", !.implemented = FALSE]},
   {Row(Signed, "present", {"name", "token", "id"}, {"log", "replay"}),
    [Undocumented EXCEPT !.seen["sanitized-errors"] = "missing", !.references = {"log", "trace"}]},
   {Row(Signed, "present", {"name", "owner"}, {"log"}), Undocumented},
   {Row(Signed, "missing", {}, {"log"}), Row(Signed, "present", {}, {"log"})},
   {Row({"authorization"}, "missing", {}, {"log"})}}
MCReproductions == {"replay"}

MCCases == {{[kind |-> "api-route", route |-> "/a", methods |-> {"GET"}],
             [kind |-> "page-route", route |-> "/q", methods |-> {"GET"}]}}
MCCorpora ==
  {{[kind |-> "route-present", route |-> [kind |-> "api-route", route |-> "/a", methods |-> {"GET"}]],
    [kind |-> "candidate-present", key |-> Endpoint("/a"), disposition |-> "correlated-local",
     origin |-> {"client-call"}],
    [kind |-> "route-absent", path |-> "/b"], [kind |-> "semantic"]}}

SkillReview(mode, findings) ==
  [mode |-> mode, authorization |-> "none", remediation |-> TRUE, threatModel |-> TRUE,
   findings |-> findings]
From(name, head) == [name |-> name, head |-> head]
MCPayloads == {[source |-> From("secure-skill", {"v1"}), revision |-> "v1", review |-> r] :
                 r \in {SkillReview("audit", <<"x">>), SkillReview("fix", <<>>),
                        SkillReview("audit", <<"x", "x">>)}}
              \cup {[source |-> From("secure-skill", {"v2"}), revision |-> "v1",
                     review |-> SkillReview("audit", <<>>)]}
BenchResult(manifest, recall, basisPoints) ==
  [source |-> From("secure-bench", {}), revision |-> "v1", runManifest |-> manifest,
   givenManifest |-> manifest, suite |-> "s", givenSuite |-> "s",
   recall |-> [numerator |-> recall, denominator |-> 2, basisPoints |-> {basisPoints}],
   counts |-> [detected |-> recall, eligible |-> 2]]
BenchRun == [kind |-> "secure-bench-run"]
MCResults == {BenchResult(BenchRun, 1, 5000), BenchResult(Decided, 2, 10000),
              BenchResult(BenchRun, 1, 4999)}

MCRequests == {[given |-> FALSE, version |-> NotSemver]}
              \cup {[given |-> TRUE, version |-> v] : v \in {NotSemver} \cup 1..4}

On(field, v) == [field |-> field, value |-> v]
Events == [field : {"introduced", "fixed", "last_affected", "limit"}, value : NoLimit..3]
Ascending == {abc \in (0..2) \X (1..3) \X (2..3) : abc[1] < abc[2] /\ abc[2] < abc[3]}
TwoIntervals ==
  {<<On("introduced", v[1]), On(field, v[2]), On("introduced", v[3])>> :
     v \in Ascending, field \in {"fixed", "last_affected"}}
Limited(events) == {Append(events, On("limit", v)) : v \in {NoLimit, 2, 3}}
Lists == {<<>>} \cup {<<e>> : e \in Events} \cup {<<d, e>> : d, e \in Events}
         \cup TwoIntervals \cup UNION {Limited(events) : events \in TwoIntervals}
         \cup {<<On("introduced", 0), On(f, 1), On("introduced", 2), On(g, 3)>> :
                 f, g \in {"fixed", "last_affected"}}
Held(versions, ranges) ==
  [versionsParse |-> TRUE, versions |-> versions, rangesParse |-> TRUE, ranges |-> ranges]
Semver(events) == [kind |-> "semver", events |-> events]
Other(kind) == [kind |-> kind, events |-> <<>>]
UpTo(field, v) == <<On("introduced", FromStart), On(field, v)>>
MCFirstRows ==
  {<<Held({}, <<Semver(events)>>)>> : events \in Lists}
  \cup {<<>>, <<Held({}, <<>>)>>, <<Held({2}, <<>>)>>,
        <<Held({}, <<Other("unparsable")>>), Held({2}, <<Semver(UpTo("fixed", 2))>>)>>,
        <<Held({3}, <<Other("other")>>)>>,
        <<[Held({}, <<>>) EXCEPT !.versionsParse = FALSE, !.rangesParse = FALSE]>>}
MCNextRows == {<<>>, <<Held({1}, <<>>)>>}

MCMaxOfKind ==
  [scope |-> 1, inventory |-> 2, inference |-> 1, assessment |-> 3, review |-> 1, benchmark |-> 1,
   correlation |-> 1] @@ [k \in {"lab-result", "corpus-result"} |-> 1]
=============================================================================
