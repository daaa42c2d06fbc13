---------------------------- MODULE VersionRanges ----------------------------
(***************************************************************************)
(* Whether a package version is affected by an advisory                    *)
(* (secureflow-knowledge, evaluate_package_version): the answer is read    *)
(* from what the catalog stored of each affected package, a list of        *)
(* versions and a list of ranges, each a list of events.  Versions are     *)
(* numbers in order of precedence; a range or a list that cannot be parsed *)
(* is left as the name of what is wrong with it.                           *)
(***************************************************************************)
EXTENDS Integers, SequencesExt, FiniteSetsExt

\* Values of an event: FromStart is the "0" of an introduced event, NoLimit the "*" of a
\* limit, NotSemver any text that is no semantic version.
FromStart == 0
NoLimit == -1
NotSemver == -2
IsVersion(v) == v > FromStart

\* What the walk over the events of one range knows between two of them; a range closes
\* its intervals by fixed or by last_affected events, never by both.
Unread == [issue |-> FALSE, introduced |-> FALSE, open |-> FALSE, affected |-> FALSE,
           last |-> FromStart, closedBy |-> "nothing"]

\* A boundary is a version above the one before it; only the first event may start at zero.
BoundaryFollows(w, e, i) ==
  \/ e.field = "introduced" /\ e.value = FromStart /\ i = 1
  \/ IsVersion(e.value) /\ e.value > w.last

\* A limit is the last event and, unless it is no limit, above the boundaries before it.
LimitFollows(w, e, isLast) ==
  /\ isLast
  /\ \/ e.value = NoLimit
     \/ IsVersion(e.value) /\ e.value > w.last

\* Mutant: the last affected version is taken for the first fixed one.
WithinExclusively(query, e) == query < e.value
\* The versions a closing event leaves in its interval.
Within(query, e) == IF e.field = "fixed" THEN query < e.value ELSE query <= e.value

\* How one event moves the walk, the query being a version.
ReadEvent(query, w, e, i, isLast) ==
  LET refused == [w EXCEPT !.issue = TRUE]
      bounded == [w EXCEPT !.last = e.value]
  IN IF w.issue THEN w
     ELSE CASE e.field = "limit" ->
                 IF ~LimitFollows(w, e, isLast) THEN refused
                 ELSE [w EXCEPT !.affected = @ /\ (e.value = NoLimit \/ query < e.value)]
            [] e.field = "introduced" ->
                 IF ~BoundaryFollows(w, e, i) \/ w.open THEN refused
                 ELSE [bounded EXCEPT !.introduced = TRUE, !.open = TRUE,
                                      !.affected = @ \/ query >= e.value]
            [] e.field \in {"fixed", "last_affected"} ->
                 IF ~BoundaryFollows(w, e, i) \/ ~w.open \/ w.closedBy \notin {"nothing", e.field}
                 THEN refused
                 ELSE [bounded EXCEPT !.closedBy = e.field, !.open = FALSE,
                                      !.affected = @ /\ Within(query, e)]
            [] OTHER -> refused

\* What is known after each number of the events.
RangeWalk(query, events) ==
  LET walk[n \in 0..Len(events)] ==
        IF n = 0 THEN Unread
        ELSE ReadEvent(query, walk[n - 1], events[n], n, n = Len(events))
  IN walk

\* evaluate_semver_range
EvaluateSemverRange(query, events) ==
  LET w == RangeWalk(query, events)[Len(events)]
  IN IF w.issue \/ ~w.introduced THEN "invalid-semver-events"
     ELSE IF w.affected THEN "affected" ELSE "excluded"

\* What one stored range says of the query.
RangeVerdict(query, range) ==
  CASE range.kind = "unparsable" -> "invalid-stored-json"
    [] range.kind = "other" -> "unsupported-range-type"
    [] OTHER -> IF ~IsVersion(query) THEN "invalid-query-semver"
                ELSE EvaluateSemverRange(query, range.events)

\* What the rows leave unanswered.
RowIssues(query, row) ==
  {v \in {RangeVerdict(query, row.ranges[i]) : i \in DOMAIN row.ranges} :
     v \notin {"affected", "excluded"}}
  \cup {v \in {"invalid-stored-json"} : ~row.versionsParse \/ ~row.rangesParse}
  \cup {v \in {"missing-version-data"} :
          row.rangesParse /\ row.versions = {} /\ row.ranges = <<>>}

RowSupported(row) == row.versions # {} \/ \E i \in DOMAIN row.ranges : row.ranges[i].kind = "semver"
RowAffects(query, row) ==
  \/ query \in row.versions
  \/ \E i \in DOMAIN row.ranges : RangeVerdict(query, row.ranges[i]) = "affected"

\* evaluate_package_version: one row that affects the version is enough, whatever the
\* others leave open; to exclude it, all of them must be understood.
EvaluatePackageVersion(requested, rows) ==
  LET Says(status, issues) == [status |-> status, issues |-> issues, data |-> ToSet(rows)]
      issues == UNION {RowIssues(requested.version, rows[i]) : i \in DOMAIN rows}
      supported == \E i \in DOMAIN rows : RowSupported(rows[i])
  IN IF ~requested.given THEN Says("not-evaluated", {})
     ELSE IF \E i \in DOMAIN rows : RowAffects(requested.version, rows[i]) THEN Says("affected", {})
     ELSE IF supported /\ issues = {} THEN Says("not-affected", {})
     ELSE Says("unknown", IF issues = {} THEN {"missing-version-data"} ELSE issues)

\* valid_version_assessment
AssessmentFits(a, requested) ==
  /\ a.data # {}
  /\ (a.status = "not-evaluated") <=> ~requested.given
  /\ (a.status = "unknown") <=> (a.issues # {})

(***************************************************************************)
(* The reference: what the events of a range mean in the OSV schema.  A    *)
(* range is a list of intervals, each from an introduced version to the    *)
(* event after it, cut off at the limits.                                  *)
(***************************************************************************)
WellFormed(events) ==
  LET Bounds == {i \in DOMAIN events : events[i].field # "limit"}
  IN /\ events # <<>> /\ Bounds # {}
     /\ \A i \in DOMAIN events :
          \/ events[i].field \in {"introduced", "fixed", "last_affected"} /\ IsVersion(events[i].value)
          \/ events[i].field = "limit" /\ (IsVersion(events[i].value) \/ events[i].value = NoLimit)
          \/ events[i] = [field |-> "introduced", value |-> FromStart] /\ i = 1
     /\ \A i, j \in DOMAIN events :
          i < j /\ events[j].value # NoLimit => events[i].value < events[j].value
     /\ \A i \in DOMAIN events : events[i].field = "limit" => i = Len(events)
     /\ \A i \in Bounds : (events[i].field = "introduced") <=> (i % 2 = 1)
     /\ Cardinality({events[i].field : i \in Bounds} \ {"introduced"}) <= 1

InInterval(query, events, i) ==
  /\ events[i].field = "introduced" /\ query >= events[i].value
  /\ i < Len(events) =>
       CASE events[i + 1].field = "fixed" -> query < events[i + 1].value
         [] events[i + 1].field = "last_affected" -> query <= events[i + 1].value
         [] OTHER -> TRUE

InRange(query, events) ==
  /\ \E i \in DOMAIN events : InInterval(query, events, i)
  /\ \A i \in DOMAIN events :
       events[i].field = "limit" /\ events[i].value # NoLimit => query < events[i].value

\* The answer the stored rows call for: affected by a listed version or a well-formed
\* range, not affected when all of them are understood and some are there, else unknown.
ReferenceStatus(query, rows) ==
  LET Semver == {r.events : r \in {s \in UNION {ToSet(row.ranges) : row \in ToSet(rows)} :
                                    s.kind = "semver"}}
      Understood(row) ==
        /\ row.versionsParse /\ row.rangesParse
        /\ row.versions # {} \/ row.ranges # <<>>
        /\ \A i \in DOMAIN row.ranges :
             row.ranges[i].kind = "semver" /\ IsVersion(query) /\ WellFormed(row.ranges[i].events)
  IN IF \/ \E row \in ToSet(rows) : query \in row.versions
        \/ IsVersion(query) /\ \E events \in Semver : WellFormed(events) /\ InRange(query, events)
     THEN "affected"
     ELSE IF rows # <<>> /\ \A row \in ToSet(rows) : Understood(row) THEN "not-affected"
     ELSE "unknown"
=============================================================================
