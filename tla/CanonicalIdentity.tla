------------------------- MODULE CanonicalIdentity -------------------------
(***************************************************************************)
(* Which advisories the catalog treats as one vulnerability.  Each record  *)
(* has a primary identifier and aliases; the catalog keeps a canonical id  *)
(* for every record and every identifier, merges canonical ids as records  *)
(* arrive (import_osv_record_tx, merge_canonical) and recomputes them from *)
(* the active records on demand (rebuild_canonicalization).                *)
(*                                                                         *)
(* One record imported is one step: the transaction of a batch is the      *)
(* sequence of its records, and a batch may hold a single one.  That no    *)
(* delta is being prepared is left to AdvisoryCatalog.                     *)
(***************************************************************************)
EXTENDS Integers, FiniteSetsExt

CONSTANTS
  PrimaryOf,  \* record -> its primary identifier
  VersionsOf, \* record -> the versions its source may publish
  Candidate   \* record -> the canonical id hashed from its source and identifier

Records == DOMAIN PrimaryOf
Canonicals == {Candidate[k] : k \in Records}

\* A version carries a set of aliases; canonical ids are compared as their text is.
ASSUME IdentityAssumption ==
  /\ DOMAIN VersionsOf = Records /\ DOMAIN Candidate = Records
  /\ \A k \in Records : Candidate[k] \in Nat
  /\ \A j, k \in Records : Candidate[j] = Candidate[k] => j = k

VARIABLES
  held,      \* stored record -> its current version
  canon,     \* stored record -> canonical id
  active,    \* records that count as present
  names,     \* identifier -> canonical id
  redirects, \* former canonical id -> canonical id
  live,      \* canonical ids that exist
  orphaned,  \* history: records left out of the last rebuild and not changed since
  past,      \* history: record -> canonical ids held since the last rebuild
  torn,      \* history: has a record left out of the last rebuild changed since?
  said       \* history: record -> identifiers carried since a rebuild took in every record

tables == <<held, canon, active, names, redirects, live>>
vars == <<tables, orphaned, past, torn, said>>

\* Mutant: related identifiers count as aliases.
IdentifiersAndRelated(k, v) == {PrimaryOf[k]} \cup v.aliases \cup v.related

Identifiers(k, v) == {PrimaryOf[k]} \cup v.aliases

Current(k) == Identifiers(k, held[k])

Init ==
  /\ held = [k \in {} |-> 0] /\ canon = [k \in {} |-> 0] /\ active = {}
  /\ names = [i \in {} |-> 0] /\ redirects = [c \in {} |-> 0] /\ live = {}
  /\ orphaned = {} /\ past = [k \in Records |-> {}] /\ torn = FALSE
  /\ said = [k \in Records |-> {}]

\* A record that did not change is only marked as present.
ImportUnchanged(k) ==
  /\ k \in DOMAIN held
  /\ active' = active \cup {k}
  /\ UNCHANGED <<held, canon, names, redirects, live, orphaned, past, torn, said>>

\* The canonical ids a new version brings together.
Found(k, v) ==
  {Candidate[k]} \cup {canon[j] : j \in {k} \cap DOMAIN canon}
    \cup {names[i] : i \in Identifiers(k, v) \cap DOMAIN names}

\* Mutant: redirects that led to a merged id are left behind.
MergeInto(found, selected) ==
  LET merged == found \ {selected} IN
  redirects' = [c \in DOMAIN redirects \cup merged |->
                  IF c \in merged THEN selected ELSE redirects[c]]

\* Redirects to a merged id now lead to the selected one, as it does itself.
Redirect(found, selected) ==
  LET merged == found \ {selected} IN
  redirects' = [c \in DOMAIN redirects \cup merged |->
                  IF c \in merged \/ redirects[c] \in merged THEN selected ELSE redirects[c]]

\* Mutant: names of the merged ids stay where they were.
NamesKept(ids, found, selected) ==
  names' = [i \in DOMAIN names \cup ids |-> IF i \in ids THEN selected ELSE names[i]]

\* The record's own names and those of the merged ids lead to the selected one.
Rename(ids, found, selected) ==
  names' = [i \in DOMAIN names \cup ids |->
              IF i \in ids \/ names[i] \in found THEN selected ELSE names[i]]

\* A new or changed record: everything it connects is merged into the least id.
ImportChanged(k, v) ==
  LET found == Found(k, v)
      selected == Min(found)
  IN
  /\ k \in DOMAIN held => held[k] # v
  /\ held' = [j \in DOMAIN held \cup {k} |-> IF j = k THEN v ELSE held[j]]
  /\ canon' = [j \in DOMAIN canon \cup {k} |->
                 IF j = k \/ canon[j] \in found THEN selected ELSE canon[j]]
  /\ active' = active \cup {k}
  /\ Rename(Identifiers(k, v), found, selected)
  /\ Redirect(found, selected)
  /\ live' = (live \cup {Candidate[k]}) \ (found \ {selected})
  /\ orphaned' = orphaned \ {k}
  /\ torn' = (torn \/ k \in orphaned)
  /\ past' = [j \in Records |-> past[j] \cup {canon'[i] : i \in {j} \cap DOMAIN canon'}]
  /\ said' = [said EXCEPT ![k] = @ \cup {PrimaryOf[k]} \cup v.aliases]

\* A completed snapshot of the source does not list the record.
Deactivate(k) ==
  /\ k \in active
  /\ active' = active \ {k}
  /\ UNCHANGED <<held, canon, names, redirects, live, orphaned, past, torn, said>>

(***************************************************************************)
(* rebuild_canonicalization.                                               *)
(***************************************************************************)

\* Mutant: related records are joined as aliases are.
Adjoining(j, k) == Current(j) \cap Current(k) # {} \/ held[j].related \cap Current(k) # {}

\* Two records name a common identifier.
Adjacent(j, k) == Current(j) \cap Current(k) # {}

\* The least set of active records that holds k and all that adjoins it.
Component(k) ==
  {j \in active : \A S \in SUBSET active :
     k \in S /\ (\A a \in S, b \in active : Adjacent(a, b) => b \in S) => j \in S}

Selected(k) == Min({Candidate[j] : j \in Component(k)})

\* Where the active records of an old canonical id went.
Targets(c) == {Selected(k) : k \in {k \in active : canon[k] = c}}

\* Redirects are kept where they are not ambiguous, former ones through their target.
Redirected ==
  {r \in Canonicals \X Canonicals :
     /\ r[1] # r[2]
     /\ \/ Targets(r[1]) = {r[2]}
        \/ r[1] \in DOMAIN redirects /\ Targets(redirects[r[1]]) = {r[2]}}

\* Every former id has one row of canonical_redirects.
OneTargetEach == \A p, q \in Redirected : p[1] = q[1] => p = q

\* Inactive records keep the canonical id they had; only the identifiers of active
\* records are written again.  A second row for an old id fails the transaction.
Rebuild ==
  LET rows == UNION {Current(k) : k \in active} IN
  /\ OneTargetEach
  /\ canon' = [k \in DOMAIN canon |-> IF k \in active THEN Selected(k) ELSE canon[k]]
  /\ names' = [i \in rows |-> Selected(CHOOSE k \in active : i \in Current(k))]
  /\ redirects' = [c \in {p[1] : p \in Redirected} |->
                     CHOOSE t \in Canonicals : <<c, t>> \in Redirected]
  /\ live' = {canon'[k] : k \in DOMAIN canon'}
  /\ orphaned' = DOMAIN held \ active
  /\ torn' = FALSE
  /\ past' = [k \in Records |-> {canon'[j] : j \in {k} \cap DOMAIN canon'}]
  /\ said' = [k \in Records |-> IF k \in DOMAIN held /\ active = DOMAIN held THEN Current(k) ELSE said[k]]
  /\ UNCHANGED <<held, active>>

Next ==
  \/ \E k \in Records : ImportUnchanged(k) \/ Deactivate(k)
  \/ \E k \in Records : \E v \in VersionsOf[k] : ImportChanged(k, v)
  \/ Rebuild

Spec == Init /\ [][Next]_vars

(***************************************************************************)
(* Properties.                                                             *)
(***************************************************************************)

\* Looking up a name of an active record finds the record.
Findable(k) == \A i \in Current(k) : i \in DOMAIN names /\ names[i] = canon[k]

\* Every active record is found under its identifier and its aliases, so alias chains
\* are closed, as long as no rebuild has passed it by (import_osv_record_tx).
MembersAreFindable == \A k \in active \ orphaned : Findable(k)

\* Every active record is found under its identifier and its aliases (the contract's
\* equivalence edges and symmetric, transitive closure, without exception).
AllAreFindable == \A k \in active : Findable(k)

\* Records share a canonical id only if a chain of identifiers that records carried
\* connects them: neither text nor related links merge (import_osv_record_tx).
OnlyNamesMerge ==
  \A j, k \in DOMAIN canon : canon[j] = canon[k] =>
    \A S \in SUBSET DOMAIN canon :
      j \in S /\ (\A a \in S, b \in DOMAIN canon : said[a] \cap said[b] # {} => b \in S) => k \in S

\* Importing record by record and rebuilding from scratch agree: when every stored
\* record is active and none lost an identifier since a rebuild took in all, rebuilding
\* changes no canonical id and no name (rebuild_canonicalization).
Faithful == active = DOMAIN held /\ orphaned = {} /\ \A k \in active : said[k] = Current(k)
RebuildAgrees ==
  [][Rebuild /\ Faithful => UNCHANGED <<canon, names, live>>]_vars

\* A canonical id a record has had since the last rebuild still leads to it in one
\* step, however many merges came after (canonical_redirects).  A record that was left
\* out keeps an id that others may have left; once it changes, two may have left one id
\* for different ones, and its redirect follows the last of them.
FormerIdsLead ==
  ~torn => \A k \in DOMAIN canon : \A c \in past[k] \ {canon[k]} :
             c \in DOMAIN redirects /\ redirects[c] = canon[k]

\* catalog-rebuild-canonicalization can be run whatever was imported before.
RebuildSucceeds == OneTargetEach
=============================================================================
