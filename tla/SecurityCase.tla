---------------------------- MODULE SecurityCase ----------------------------
(***************************************************************************)
(* The security case (secureflow-case) and the documents it is made of.    *)
(* Identifiers derived from digests are the values they are derived from.  *)
(***************************************************************************)
EXTENDS RunManifest

ClassOf == [engine |-> "engine-candidate", skill |-> "contextual-candidate",
            sarif |-> "external-tool-candidate"]

\* SecurityCase::validate: references resolve, a candidate has the class of its source,
\* and a candidate has at most one decision.
CaseValid(c) ==
  /\ UniqueIds(c.sources) /\ UniqueIds(c.evidence) /\ UniqueIds(c.candidates)
  /\ \A i \in DOMAIN c.evidence : \E s \in ToSet(c.sources) : s.id = c.evidence[i].source
  /\ \A i \in DOMAIN c.candidates :
       /\ \E s \in ToSet(c.sources) :
            s.id = c.candidates[i].source /\ c.candidates[i].class = ClassOf[s.kind]
       /\ \E e \in ToSet(c.evidence) : e.id = c.candidates[i].evidence
  /\ \A d \in ToSet(c.stages) \cup ToSet(c.decisions) :
       \E k \in ToSet(c.candidates) : k.id = d.candidate
  /\ \A i, j \in DOMAIN c.decisions :
       c.decisions[i].candidate = c.decisions[j].candidate => i = j

\* One more source, its retained document and its candidates.
WithSource(c, kind, source, document, names) ==
  [c EXCEPT !.sources = Append(@, [id |-> source, kind |-> kind]),
            !.evidence = Append(@, [id |-> document, source |-> source]),
            !.candidates = @ \o [i \in DOMAIN names |->
              [id |-> <<source, names[i]>>, source |-> source, evidence |-> document,
               class |-> ClassOf[kind]]]]

\* case_from_run: the run's own decisions and AI answers do not come along.
CaseFromRun(m) ==
  WithSource([target |-> m.target, sources |-> <<>>, evidence |-> <<>>,
              candidates |-> <<>>, stages |-> <<>>, decisions |-> <<>>],
             "engine", <<"engine", m.report>>, <<"run", m>>,
             [i \in DOMAIN m.findings |-> m.findings[i].id])

\* import_secure_review_into_case, of an envelope for the same target.
WithReview(c, envelope) ==
  WithSource(c, "skill", <<"skill", envelope.id>>, <<"skill", envelope.id>>, envelope.findings)

\* import_sarif: a result is known by its number and its text.
WithSarif(c, sarif) ==
  WithSource(c, "sarif", <<"sarif", sarif.id>>, <<"sarif", sarif.id>>,
             [i \in DOMAIN sarif.results |-> <<i - 1, sarif.results[i]>>])

HasCandidate(c, id) == \E k \in ToSet(c.candidates) : k.id = id

\* add_human_decision: refused for a decided candidate.
MayDecide(c, id) == \A d \in ToSet(c.decisions) : d.candidate # id
WithDecision(c, id, decision, reviewer) ==
  [c EXCEPT !.decisions =
     Append(@, [candidate |-> id, decision |-> decision, reviewer |-> reviewer])]

\* stage_case_recommendation, without its write.
WithStage(c, id, recommendation) ==
  [c EXCEPT !.stages = Append(@, [candidate |-> id, recommendation |-> recommendation])]
=============================================================================
