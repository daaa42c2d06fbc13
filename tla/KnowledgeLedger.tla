-------------------------- MODULE KnowledgeLedger --------------------------
(***************************************************************************)
(* The ledger of reviewed findings (secureflow-knowledge, lib.rs): a       *)
(* sequence of records, one per line.  A value stands for its digest: a    *)
(* record is identified by the manifest, the finding and the decision, an  *)
(* observation by what the engine saw, whatever the decision.              *)
(***************************************************************************)
EXTENDS RunManifest

\* The reviewed findings of the manifest.
Reviewed(m) == {f \in ToSet(m.findings) : f.review.decision # "pending"}

\* record_id and observation_fingerprint.
RecordId(m, f) == <<m, f.id, f.review.decision>>
Observation(m, f) == [target |-> m.target, finding |-> f.id, at |-> f.at]

\* record_from_finding.
Record(m, f) ==
  [version |-> "v2", id |-> RecordId(m, f), observed |-> Observation(m, f),
   decision |-> f.review.decision, reviewer |-> f.review.reviewer, link |-> {}]

Ids(ledger) == {ledger[i].id : i \in DOMAIN ledger}

\* The record an observation is known by: its first one; v1 records have no observation.
Canonical(ledger, observed) ==
  {ledger[i].id : i \in {j \in DOMAIN ledger :
     ledger[j].version = "v2" /\ ledger[j].link = {} /\ ledger[j].observed = observed}}

\* validate_record, for both versions.
RecordValid(r) ==
  /\ r.decision \in Decisions /\ r.reviewer # Nobody
  /\ r.version = "v2" => r.id \notin r.link /\ PlaceValid(r.observed.at)

\* parse_existing_records: one malformed line, repeated identifier or wrong link and
\* the whole ledger is refused.
LedgerParses(ledger) ==
  /\ \A i \in DOMAIN ledger : RecordValid(ledger[i])
  /\ UniqueIds(ledger)
  /\ \A i \in DOMAIN ledger :
       ledger[i].version = "v2" =>
         ledger[i].link = Canonical(SubSeq(ledger, 1, i - 1), ledger[i].observed)

\* A record is linked to the one its observation is known by.
Linked(ledger, r) == [r EXCEPT !.link = Canonical(ledger, r.observed)]

\* Mutant: an observation already known is skipped, whatever was decided of it.
SkipsObservation(ledger, r) == r.id \in Ids(ledger) \/ Canonical(ledger, r.observed) # {}

\* A record is skipped when the ledger that was read has its identifier.
Skips(ledger, r) == r.id \in Ids(ledger)

\* One finding on top of what was appended so far; pending ones are left out.
Extended(ledger, out, m, f) ==
  IF f.review.decision = "pending" \/ Skips(ledger, Record(m, f)) THEN out
  ELSE Append(out, Linked(out, Record(m, f)))

\* import_manifest_to_ledger, without its write: the ledger as it will be replaced,
\* finding by finding.
Imported(ledger, m) ==
  LET out[n \in 0..Len(m.findings)] ==
        IF n = 0 THEN ledger ELSE Extended(ledger, out[n - 1], m, m.findings[n])
  IN out[Len(m.findings)]
=============================================================================
