----------------------------- MODULE WebEvidence -----------------------------
(***************************************************************************)
(* The documents of secureflow-web: an authorized scope, the inventory of  *)
(* the routes in a source tree, the API candidates inferred from it, the   *)
(* assessment of a coverage table with its human validations, and the      *)
(* evaluations of an inventory (lab) and of an inference (corpus).         *)
(*                                                                         *)
(* A document is a record and stands for its own digest.  A file of the    *)
(* tree holds one of a few contents, given by Holds[file][version], already *)
(* taken apart by the parsers: the convention it follows and the calls,    *)
(* procedures and operations it mentions, line by line, in canonical form; *)
(* a file that is not there holds nothing.  Of a text only its length      *)
(* counts, of the path of a route what the checks look at.                 *)
(***************************************************************************)
EXTENDS Integers, SequencesExt, FiniteSetsExt

CONSTANTS
  Files,          \* the files of the tree, in the order of their paths
  Holds,          \* Holds[f][v] is what file f holds in its version v
  MaxRoutes,      \* max_routes of every scope
  MaxReferences,  \* how many references one entry of a document may have (100 in the code)
  Bytes,          \* Bytes[t] is the length of text t, 0 if it is blank
  PathOf          \* PathOf[p] is what is in the path p of a route: its parameters, whether it
                  \* has two dots in a row, and what normalize_local_route makes of it

ASSUME WebLimits == MaxRoutes \in Nat \ {0} /\ MaxReferences \in Nat \ {0}

NoRoute == "no route"
NoOperation == "no operation"

\* The limits of the texts a document derives, in bytes, and valid_text.
MaxFileReference == 500
MaxRoutePath == 2000
MaxParameter == 300
MaxOperation == 300
MaxField == 300
MaxLimitation == 500
ValidText(text, limit) == Bytes[text] \in 1..limit

\* hash_repository_tree and the adapter's sha256_target are different digests of a tree.
TreeHash(tree) == [scheme |-> "tree", of |-> tree]
TargetHash(tree) == [scheme |-> "target", of |-> tree]

(***************************************************************************)
(* Scope.                                                                  *)
(***************************************************************************)

\* WebScope::validate_structure: an authorization that ends after the scope was created,
\* over at least one repository.
ScopeValid(s) == s.until > s.made /\ s.roots # {}
\* validate_at, as every command that uses a scope checks it.
ScopeValidAt(s, now) == ScopeValid(s) /\ s.until > now
AuthorizesRepository(s, root) == root \in s.roots
SealScope(roots, until, now) == [kind |-> "scope", roots |-> roots, until |-> until, made |-> now]

(***************************************************************************)
(* Inventory: one record or none per file, by the convention it follows.   *)
(***************************************************************************)

\* classify_next_file
ClassifyNextFile(f, c) ==
  LET Route(kind, route, methods, evidence) ==
        {[kind |-> kind, route |-> route, methods |-> methods, evidence |-> evidence, at |-> f]}
  IN CASE c.shape = "app-route" ->
            Route("api-route", c.path, c.exports,
                  IF c.exports = {} THEN "unknown" ELSE "declared-export")
       [] c.shape \in {"app-page", "pages-page"} ->
            Route("page-route", c.path, {"GET"}, "framework-default")
       [] c.shape = "pages-api" -> Route("api-route", c.path, {}, "unknown")
       [] c.shape = "middleware" -> Route("middleware", NoRoute, {}, "not-applicable")
       [] c.shape = "use-server" -> Route("server-action", NoRoute, {"POST"}, "framework-default")
       [] OTHER -> {}

\* validate_route: the methods and the path go with the kind of the route.
RouteShaped(r) ==
  /\ r.kind \in {"api-route", "page-route"} <=> r.route # NoRoute
  /\ CASE r.evidence = "declared-export" -> r.kind = "api-route" /\ r.methods # {}
       [] r.evidence = "unknown" -> r.kind = "api-route" /\ r.methods = {}
       [] r.evidence = "not-applicable" -> r.kind = "middleware" /\ r.methods = {}
       [] OTHER -> \/ r.kind = "page-route" /\ r.methods = {"GET"}
                   \/ r.kind = "server-action" /\ r.methods = {"POST"}
\* Its text limits, which classify_next_file does not look at.
PathFits(p) ==
  /\ Bytes[p] <= MaxRoutePath /\ ~PathOf[p].dots
  /\ IsInjective(PathOf[p].parameters)
  /\ \A i \in DOMAIN PathOf[p].parameters : ValidText(PathOf[p].parameters[i], MaxParameter)
RouteFits(r) ==
  ValidText(r.at, MaxFileReference) /\ (r.route # NoRoute => PathFits(r.route))
RouteValid(r) == RouteShaped(r) /\ RouteFits(r)

NothingFound == [routes |-> {}, truncated |-> FALSE]

\* discover_nextjs reads one more file; the list is full as soon as it has MaxRoutes entries.
ReadForInventory(found, f, content) ==
  LET new == ClassifyNextFile(f, content)
      routes == found.routes \cup new
  IN IF found.truncated THEN found
     ELSE [routes |-> routes, truncated |-> new # {} /\ Cardinality(routes) >= MaxRoutes]

Inventory(scope, root, found) ==
  [kind |-> "inventory", scope |-> scope, root |-> root,
   routes |-> found.routes, truncated |-> found.truncated]
InventoryValid(i) == \A r \in i.routes : RouteValid(r)

(***************************************************************************)
(* Inference: what the code mentions, gathered by what it is a mention of. *)
(***************************************************************************)

Key(kind, route, operation) == [kind |-> kind, route |-> route, operation |-> operation]
Mention(key, origin, f, line) == [key |-> key, is |-> [origin |-> origin, at |-> f, line |-> line]]

\* add_candidate: a new entry is refused when the list is full, a known one still grows.
AddCandidate(gathered, mention) ==
  LET known == DOMAIN gathered.entries
      grown(key) == (IF key \in known THEN gathered.entries[key] ELSE {})
                    \cup (IF key = mention.key THEN {mention.is} ELSE {})
  IN IF mention.key \notin known /\ Cardinality(known) >= MaxRoutes
     THEN [gathered EXCEPT !.full = TRUE]
     ELSE [gathered EXCEPT !.entries = [key \in known \cup {mention.key} |-> grown(key)]]

\* One mention after the other.
AddAll(gathered, mentions) ==
  LET taken[n \in 0..Len(mentions)] ==
        IF n = 0 THEN gathered ELSE AddCandidate(taken[n - 1], mentions[n])
  IN taken[Len(mentions)]

\* infer_local_apis starts with the routes of the inventory.
Implemented(inventory) ==
  {Mention(IF r.kind = "server-action" THEN Key("server-action", NoRoute, r.at)
                                       ELSE Key("http-endpoint", r.route, NoOperation),
           "implemented-route", r.at, 1) :
     r \in {i \in inventory.routes : i.kind \in {"api-route", "server-action"}}}
Gathering(inventory) ==
  AddAll([entries |-> <<>>, full |-> FALSE, truncated |-> FALSE], SetToSeq(Implemented(inventory)))

MentionsIn(f, content) ==
  [i \in DOMAIN content.mentions |->
     LET m == content.mentions[i] IN Mention(m.key, m.origin, f, m.line)]

\* One more file: all it mentions is offered, and a list found full ends the walk.
ReadForInference(gathered, f, content) ==
  LET read == AddAll(gathered, MentionsIn(f, content))
  IN IF gathered.truncated THEN gathered ELSE [read EXCEPT !.truncated = read.full]

\* confidence_for, as the basis points of its score; the first case that holds.
Confidence(kind, origins) ==
  LET implemented == "implemented-route" \in origins
  IN IF kind = "unresolved-client-call" THEN 2500
     ELSE IF implemented /\ Cardinality(origins) > 1 THEN 9500
     ELSE IF implemented THEN 9000
     ELSE IF "build-manifest" \in origins THEN 8500
     ELSE IF Cardinality(origins) >= 2 THEN 8000
     ELSE IF "open-api" \in origins THEN 7000
     ELSE IF "client-call" \in origins THEN 6500 ELSE 4500

\* finalize_candidate
FinalizeCandidate(key, references) ==
  LET origins == {r.origin : r \in references}
      implemented == "implemented-route" \in origins
  IN [key |-> key, references |-> references, confidence |-> Confidence(key.kind, origins),
      implemented |-> implemented, documented |-> "open-api" \in origins,
      inferred |-> Cardinality(origins) > (IF implemented THEN 1 ELSE 0),
      disposition |-> IF implemented THEN "correlated-local"
                      ELSE IF key.route = NoRoute THEN "abstained" ELSE "needs-human-review"]

\* What must be known of a candidate, by its kind.
KeyValid(key) ==
  /\ key.route # NoRoute \/ key.operation # NoOperation
  /\ CASE key.kind = "http-endpoint" -> key.route # NoRoute
       [] key.kind = "trpc-procedure" -> key.route # NoRoute /\ key.operation # NoOperation
       [] key.kind = "unresolved-client-call" ->
            key.route = NoRoute /\ key.operation # NoOperation
       [] OTHER -> key.operation # NoOperation

\* An operation is a name in the code, the path of a file, or such a path and a line; and a
\* route must be one that normalize_local_route would leave as it is.
OperationFits(key) == key.operation # NoOperation => ValidText(key.operation, MaxOperation)
RouteIsNormal(key) == key.route # NoRoute => PathOf[key.route].normal = key.route

\* validate_candidate: the derivation is repeated from the references.
CandidateValid(c) ==
  /\ KeyValid(c.key) /\ OperationFits(c.key) /\ RouteIsNormal(c.key)
  /\ c.references # {} /\ Cardinality(c.references) <= MaxReferences
  /\ c = FinalizeCandidate(c.key, c.references)

Inference(scope, root, inventory, gathered) ==
  LET candidates == {FinalizeCandidate(k, gathered.entries[k]) : k \in DOMAIN gathered.entries}
      With(d) == Cardinality({c \in candidates : c.disposition = d})
  IN [kind |-> "inference", scope |-> scope, root |-> root, inventories |-> {inventory},
      candidates |-> candidates, truncated |-> gathered.truncated,
      stats |-> [correlated |-> With("correlated-local"), review |-> With("needs-human-review"),
                 abstentions |-> With("abstained")]]

\* WebInference::validate adds the counts up; it does not count each of them again.
InferenceValid(i) ==
  /\ i.stats.correlated + i.stats.review + i.stats.abstentions = Cardinality(i.candidates)
  /\ \A c \in i.candidates : CandidateValid(c)

(***************************************************************************)
(* Assessment of a coverage table, and its human validations.  A row of    *)
(* the table says of one route what it is for, which controls it needs and *)
(* how each was seen, which fields its responses may have and had, and has *)
(* some references.                                                        *)
(***************************************************************************)
Controls == {"authentication", "authorization", "owner-scope", "tenant-scope",
             "restricted-cors", "private-cache", "sanitized-errors"}

\* validate_coverage_route
CoverageValid(r) ==
  /\ r.references # {} /\ Cardinality(r.references) <= MaxReferences
  /\ \A field \in r.allowed \cup r.fields : ValidText(field, MaxField)
  /\ ~r.observed => r.fields = {}
  /\ r.intent = "public" => r.required \cap {"authentication", "authorization"} = {}
  /\ r.intent \in {"authenticated", "privileged"} => "authentication" \in r.required
  /\ r.intent = "privileged" => "authorization" \in r.required
  /\ r.required \cap {"owner-scope", "tenant-scope"} # {} =>
       {"authentication", "authorization"} \subseteq r.required
\* A table with two rows of one route is refused.
TableValid(rows) ==
  /\ \A r \in rows : CoverageValid(r)
  /\ \A q, r \in rows : q.route = r.route => q = r

\* The fields outside the declared allowlist, and the limitation that lists them: 43 bytes
\* and the fields, with a comma and a space between two.
Excess(r) == IF r.declared THEN r.fields \ r.allowed ELSE {}
LimitationBytes(fields) ==
  43 + MapThenSumSet(LAMBDA field : Bytes[field], fields) + 2 * (Cardinality(fields) - 1)

\* assess_routes, for one row: SFWEB001 and 002, a rule for each control, and SFWEB010, whose
\* limitation names the excess fields; those of the other rules are fixed texts.
Observed(r) ==
  LET Noted(rule, class, listed) ==
        [route |-> r.route, rule |-> rule, class |-> class, listed |-> listed,
         references |-> r.references, reproduction |-> {}]
      rules == {d \in r.required : r.seen[d] \in {"missing", "inconsistent"}}
               \cup (IF r.observed /\ ~r.implemented THEN {"unimplemented"} ELSE {})
  IN {Noted(rule, "candidate", {}) : rule \in rules}
     \cup (IF Excess(r) # {} THEN {Noted("excess-fields", "candidate", Excess(r))} ELSE {})
     \cup (IF r.implemented /\ ~r.documented THEN {Noted("undocumented", "hardening", {})} ELSE {})
Abstentions(r) == Cardinality({c \in r.required : r.seen[c] \in {"unknown", "not-applicable"}})

\* summarize
Summarize(observations, abstentions) ==
  LET Of(class) == Cardinality({o \in observations : o.class = class})
  IN [candidates |-> Of("candidate"), hardening |-> Of("hardening"),
      validated |-> Of("human-validated"), abstentions |-> abstentions]

AssessRoutes(scope, inventory, rows) ==
  LET observations == UNION {Observed(r) : r \in rows}
  IN [kind |-> "assessment", parent |-> {}, scope |-> scope, inventories |-> {inventory},
      observations |-> observations,
      summary |-> Summarize(observations, MapThenSumSet(Abstentions, rows))]

\* record_human_validation: the candidate gets its reproduction as a reference, once.
Validated(o, reproduction) ==
  [o EXCEPT !.references = @ \cup {reproduction}, !.class = "human-validated",
            !.reproduction = {reproduction}]
\* Mutant: the summary of the parent is kept.
KeepsSummary(a, observations) == a.summary
Recounted(a, observations) == Summarize(observations, a.summary.abstentions)
MayValidate(o) == o.class = "candidate" /\ o.reproduction = {}
RecordHumanValidation(a, o, reproduction) ==
  LET observations == (a.observations \ {o}) \cup {Validated(o, reproduction)}
  IN [a EXCEPT !.parent = {a}, !.observations = observations,
               !.summary = Recounted(a, observations)]

\* validate_observation
LimitationFits(o) == o.listed # {} => LimitationBytes(o.listed) <= MaxLimitation
ObservationValid(o) ==
  /\ o.references # {} /\ Cardinality(o.references) <= MaxReferences
  /\ LimitationFits(o)
  /\ (o.class = "human-validated") <=> (o.reproduction # {})
  /\ o.reproduction \subseteq o.references

\* WebAssessment::validate
AssessmentValid(a) ==
  LET reproduced == {o \in a.observations : o.reproduction # {}}
  IN /\ \A o \in a.observations : ObservationValid(o)
     /\ a.summary = Summarize(a.observations, a.summary.abstentions)
     /\ (a.parent = {}) <=> (reproduced = {})

(***************************************************************************)
(* Evaluations: an inventory against the routes a case expects, an         *)
(* inventory and an inference against the expectations of a corpus.        *)
(***************************************************************************)

Ratio(n, d) == [numerator |-> n, denominator |-> d,
                basisPoints |-> IF d = 0 THEN {} ELSE {(n * 10000) \div d}]
RatioValid(r) == r.numerator <= r.denominator /\ r = Ratio(r.numerator, r.denominator)

\* What a case knows of a route; entries that agree in it are one.
Expected(r) == [kind |-> r.kind, route |-> r.route, methods |-> r.methods]

\* compare_inventory
CompareInventory(inventory, case) ==
  LET actual == {Expected(r) : r \in inventory.routes}
      matched == Cardinality(case \cap actual)
      missing == Cardinality(case) - matched
      unexpected == Cardinality(actual) - matched
  IN [kind |-> "lab-result", case |-> case, inventory |-> inventory,
      expected |-> Cardinality(case), reported |-> Cardinality(actual), matched |-> matched,
      missing |-> missing, unexpected |-> unexpected,
      mismatches |-> {<<"missing", r>> : r \in case \ actual}
                     \cup {<<"unexpected", r>> : r \in actual \ case},
      precision |-> Ratio(matched, Cardinality(actual)),
      recall |-> Ratio(matched, Cardinality(case)),
      f1 |-> Ratio(2 * matched, 2 * matched + missing + unexpected)]

\* WebLabResult::validate
LabValid(l) ==
  LET Marked(m) == Cardinality({x \in l.mismatches : x[1] = m})
  IN /\ l.matched + l.missing = l.expected /\ l.matched + l.unexpected = l.reported
     /\ Marked("missing") = l.missing /\ Marked("unexpected") = l.unexpected
     /\ RatioValid(l.precision) /\ l.precision = Ratio(l.matched, l.reported)
     /\ RatioValid(l.recall) /\ l.recall = Ratio(l.matched, l.expected)
     /\ RatioValid(l.f1)
     /\ l.f1 = Ratio(2 * l.matched, 2 * l.matched + l.missing + l.unexpected)

\* expectation_satisfied; the semantic invariants hold of every document that is valid.
Satisfied(e, inventory, inference) ==
  CASE e.kind = "route-present" -> e.route \in {Expected(r) : r \in inventory.routes}
    [] e.kind = "candidate-present" ->
         \E c \in inference.candidates :
           /\ c.key = e.key /\ c.disposition = e.disposition
           /\ \A o \in e.origin : \E r \in c.references : r.origin = o
    [] e.kind = "route-absent" -> \A c \in inference.candidates : c.key.route # e.path
    [] OTHER -> TRUE

\* evaluate_corpus takes an inventory and an inference made from it.
CorpusLinked(inventory, inference) ==
  /\ inference.scope = inventory.scope /\ inference.root = inventory.root
  /\ inventory \in inference.inventories
EvaluateCorpus(inventory, inference, corpus) ==
  LET passed == {e \in corpus : Satisfied(e, inventory, inference)}
  IN [kind |-> "corpus-result", corpus |-> corpus, inventory |-> inventory,
      inference |-> inference, cases |-> [e \in corpus |-> e \in passed],
      passed |-> Cardinality(passed), failed |-> Cardinality(corpus \ passed)]

\* WebCorpusResult::validate
CorpusResultValid(r) ==
  /\ r.passed + r.failed = Cardinality(r.corpus)
  /\ Cardinality({e \in r.corpus : r.cases[e]}) = r.passed
=============================================================================
