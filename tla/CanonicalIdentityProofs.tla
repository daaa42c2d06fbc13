----------------------- MODULE CanonicalIdentityProofs -----------------------
(***************************************************************************)
(* Theorems about canonical identity, for any records, versions and hashes *)
(* of canonical ids: whom a lookup finds, whom a merge may bring together, *)
(* where former ids lead, and that importing and rebuilding agree.         *)
(*                                                                         *)
(* A component is a least closed set.  No induction over chains of names   *)
(* is needed: what holds for every closed set is shown for one, and a set  *)
(* is closed under names exactly if its complement is.                     *)
(***************************************************************************)
EXTENDS CanonicalIdentity, WellFoundedInduction, TLAPS

Typed ==
  /\ DOMAIN held \subseteq Records /\ DOMAIN canon = DOMAIN held
  /\ held = [k \in DOMAIN held |-> held[k]] /\ canon \in [DOMAIN held -> Canonicals]
  /\ active \subseteq DOMAIN held /\ orphaned \subseteq DOMAIN held
  /\ names = [i \in DOMAIN names |-> names[i]]
  /\ past \in [Records -> SUBSET Canonicals] /\ torn \in BOOLEAN
  /\ said = [k \in Records |-> said[k]]

\* A stored record has carried the identifiers it carries now.
Carried == \A k \in DOMAIN held : Current(k) \subseteq said[k]

\* Records found under their names, present or not.
Filed == \A k \in DOMAIN held \ orphaned : Findable(k)

\* A name leads to the canonical id of a record that carried it and was not left out.
Named ==
  \A i \in DOMAIN names :
    \E b \in DOMAIN held \ orphaned : canon[b] = names[i] /\ i \in said[b]

\* Identifiers do not lead out of a set of the records D, where record a has said s[a].
Closed(D, s, S) == \A a \in S, b \in D : s[a] \cap s[b] # {} => b \in S

\* A chain of identifiers leads from j to k: no closed set parts them.
Joined(D, s, j, k) == \A S \in SUBSET D : Closed(D, s, S) /\ j \in S => k \in S
Connected(j, k) == Joined(DOMAIN canon, said, j, k)

\* A canonical id is the candidate of a stored record that names connect to its holders,
\* and no greater than the candidate of any of them.
Rooted ==
  \A k \in DOMAIN canon :
    /\ canon[k] <= Candidate[k]
    /\ \E b \in DOMAIN canon : canon[k] = Candidate[b] /\ Connected(k, b)

\* As long as no record that was left out has changed, the record an id is the candidate
\* of goes where the others go that had the id.
Home ==
  ~torn =>
    \A m \in DOMAIN canon, k \in Records :
      Candidate[k] \in past[m] /\ (m \in orphaned => Candidate[k] # canon[m]) =>
        k \in DOMAIN canon /\ canon[k] = canon[m]

\* The present id is one the record has had; a record that is not stored has had none.
Lived ==
  /\ \A k \in DOMAIN canon : canon[k] \in past[k]
  /\ \A k \in Records \ DOMAIN canon : past[k] = {}

\* The canonical ids that exist are those that records have.
LiveAreHeld == live = {canon[k] : k \in DOMAIN canon}

IdentityInv ==
  /\ Typed /\ Carried /\ Filed /\ Named /\ Rooted
  /\ Lived /\ Home /\ FormerIdsLead /\ LiveAreHeld

(***************************************************************************)
(* Least candidates.                                                       *)
(***************************************************************************)

\* A set of canonical ids that is not empty has a least one.
LEMMA LeastExists ==
  ASSUME NEW S \in SUBSET Nat, S # {}
  PROVE  Min(S) \in S /\ \A y \in S : Min(S) <= y
<1> DEFINE R == {ss \in Nat \X Nat : ss[1] < ss[2]}
<1>1. IsWellFoundedOn(R, Nat)
  BY NatLessThanWellFounded DEF OpToRel
<1>2. PICK x \in S : \A y \in S : ~(<<y, x>> \in R)
  BY <1>1, WFMin, Zenon
<1>3. ASSUME NEW y \in S PROVE x <= y
  <2>1. <<y, x>> \in Nat \X Nat /\ ~(<<y, x>> \in R)
    BY <1>2
  <2>2. ~(y < x) /\ x \in Nat /\ y \in Nat
    BY <2>1
  <2> QED
    BY <2>2
<1> QED
  BY <1>3 DEF Min

\* Canonical ids are numbers, one for each record.
LEMMA CandidatesAreNumbers == Canonicals \subseteq Nat /\ \A k \in Records : Candidate[k] \in Canonicals
BY IdentityAssumption DEF Canonicals

(***************************************************************************)
(* Closed sets.                                                            *)
(***************************************************************************)

\* Whoever is reached by names reaches back: the complement of a closed set is closed.
LEMMA JoinedBack ==
  ASSUME NEW D, NEW s, NEW j \in D, NEW k \in D, Joined(D, s, j, k)
  PROVE  Joined(D, s, k, j)
<1> SUFFICES ASSUME NEW S \in SUBSET D, Closed(D, s, S), k \in S, j \notin S
             PROVE  FALSE
  BY DEF Joined
<1> DEFINE T == D \ S
<1>1. Closed(D, s, T)
  <2> SUFFICES ASSUME NEW a \in T, NEW b \in D, s[a] \cap s[b] # {}, b \in S
               PROVE  FALSE
    BY DEF Closed
  <2>1. s[b] \cap s[a] # {}
    OBVIOUS
  <2> QED
    BY <2>1 DEF Closed
<1> QED
  BY <1>1 DEF Joined

\* Two that are connected with a third are connected with each other.
LEMMA JoinedThrough ==
  ASSUME NEW D, NEW s, NEW i \in D, NEW j \in D, NEW k \in D,
         Joined(D, s, i, k), Joined(D, s, j, k)
  PROVE  Joined(D, s, i, j)
BY JoinedBack DEF Joined

\* Two records that carried one identifier are connected.
LEMMA SharedJoins ==
  ASSUME NEW D, NEW s, NEW j \in D, NEW k \in D, NEW i, i \in s[j], i \in s[k]
  PROVE  Joined(D, s, j, k)
BY DEF Joined, Closed

\* With more records that have said more, what was connected stays so.
LEMMA JoinedStay ==
  ASSUME NEW D, NEW s, NEW E, NEW t, NEW j \in D, NEW k \in D, Joined(D, s, j, k),
         D \subseteq E, \A a \in D : s[a] \subseteq t[a]
  PROVE  Joined(E, t, j, k)
<1> SUFFICES ASSUME NEW S \in SUBSET E, Closed(E, t, S), j \in S PROVE k \in S
  BY DEF Joined
<1> DEFINE T == S \cap D
<1>1. Closed(D, s, T)
  <2> SUFFICES ASSUME NEW a \in T, NEW b \in D, s[a] \cap s[b] # {} PROVE b \in S
    BY DEF Closed
  <2>1. s[a] \subseteq t[a] /\ s[b] \subseteq t[b]
    OBVIOUS
  <2> QED
    BY <2>1 DEF Closed
<1> QED
  BY <1>1 DEF Joined

(***************************************************************************)
(* Components.                                                             *)
(***************************************************************************)

\* A set of active records that no common identifier leads out of.
Shut(S) == \A a \in S, b \in active : Adjacent(a, b) => b \in S

\* A component holds its record and active ones only.
LEMMA ComponentHolds ==
  ASSUME NEW k \in active
  PROVE  k \in Component(k) /\ Component(k) \subseteq active
BY DEF Component

\* Adjoining records have one component.
LEMMA ComponentsMeet ==
  ASSUME NEW j \in active, NEW k \in active, Adjacent(j, k)
  PROVE  Component(j) = Component(k)
<1>1. \A S \in SUBSET active : Shut(S) => (j \in S <=> k \in S)
  BY DEF Shut, Adjacent
<1>2. \A x \in {j, k} : Component(x) = {i \in active : \A S \in SUBSET active : x \in S /\ Shut(S) => i \in S}
  BY DEF Component, Shut
<1> QED
  BY <1>1, <1>2

\* The selected id is the least candidate of the component.
LEMMA SelectedIsLeast ==
  ASSUME Typed, NEW k \in active
  PROVE  /\ \E b \in Component(k) : Selected(k) = Candidate[b]
         /\ \A j \in Component(k) : Selected(k) <= Candidate[j]
<1> DEFINE S == {Candidate[j] : j \in Component(k)}
<1>1. S \subseteq Nat
  BY ComponentHolds, CandidatesAreNumbers DEF Typed
<1>2. S # {}
  BY ComponentHolds
<1>3. Min(S) \in S /\ \A y \in S : Min(S) <= y
  BY <1>1, <1>2, LeastExists
<1> QED
  BY <1>3 DEF Selected

\* Rebuilt ids of adjoining records are equal.
LEMMA SelectedMeet ==
  ASSUME NEW j \in active, NEW k \in active, Adjacent(j, k)
  PROVE  Selected(j) = Selected(k)
BY ComponentsMeet DEF Selected

(***************************************************************************)
(* The import of a changed record.                                         *)
(***************************************************************************)

\* What an import brings together are canonical ids, the least of which is selected.
LEMMA FoundAreCanonical ==
  ASSUME Typed, Named, NEW k \in Records, NEW v
  PROVE  /\ Found(k, v) \subseteq Canonicals
         /\ Min(Found(k, v)) \in Found(k, v)
         /\ \A c \in Found(k, v) : Min(Found(k, v)) <= c
<1>1. \A i \in DOMAIN names : names[i] \in Canonicals
  BY DEF Named, Typed
<1>2. \A j \in DOMAIN canon : canon[j] \in Canonicals
  BY DEF Typed
<1>3. Found(k, v) \subseteq Canonicals /\ Found(k, v) # {}
  BY <1>1, <1>2, CandidatesAreNumbers DEF Found
<1> QED
  BY <1>3, CandidatesAreNumbers, LeastExists

\* What an import makes of the tables, by record and by name.
LEMMA ImportMakes ==
  ASSUME Typed, Named, NEW k \in Records, NEW v \in VersionsOf[k], ImportChanged(k, v)
  PROVE  /\ Typed'
         /\ DOMAIN canon' = DOMAIN canon \cup {k}
         /\ \A j \in DOMAIN canon' :
              canon'[j] = IF j = k \/ canon[j] \in Found(k, v) THEN Min(Found(k, v)) ELSE canon[j]
         /\ \A j \in DOMAIN held \ {k} : Current(j)' = Current(j)
         /\ Current(k)' = Identifiers(k, v)
         /\ DOMAIN names' = DOMAIN names \cup Identifiers(k, v)
         /\ \A i \in DOMAIN names' :
              names'[i] = IF i \in Identifiers(k, v) \/ names[i] \in Found(k, v)
                          THEN Min(Found(k, v)) ELSE names[i]
         /\ orphaned' = orphaned \ {k}
         /\ \A j \in Records \ {k} : said'[j] = said[j]
         /\ said'[k] = said[k] \cup Identifiers(k, v)
         /\ \A j \in DOMAIN canon' : past'[j] = past[j] \cup {canon'[j]}
         /\ \A j \in Records \ DOMAIN canon' : past'[j] = past[j]
<1> DEFINE ids == Identifiers(k, v)
           found == Found(k, v)
           selected == Min(found)
<1>1. selected \in Canonicals
  BY FoundAreCanonical
<1>2. /\ DOMAIN held' = DOMAIN held \cup {k} /\ held' = [j \in DOMAIN held' |-> held'[j]]
      /\ held'[k] = v /\ \A j \in DOMAIN held \ {k} : held'[j] = held[j]
  BY DEF ImportChanged
<1>3. /\ DOMAIN canon' = DOMAIN canon \cup {k}
      /\ canon' = [j \in DOMAIN canon \cup {k} |->
                     IF j = k \/ canon[j] \in found THEN selected ELSE canon[j]]
  BY DEF ImportChanged
<1>4. canon' \in [DOMAIN held' -> Canonicals]
  BY <1>1, <1>2, <1>3 DEF Typed
<1>5. names' = [i \in DOMAIN names \cup ids |->
                  IF i \in ids \/ names[i] \in found THEN selected ELSE names[i]]
  BY DEF ImportChanged, Rename
<1>6. said' = [said EXCEPT ![k] = said[k] \cup {PrimaryOf[k]} \cup v.aliases]
  BY DEF ImportChanged
<1>7. said'[k] = said[k] \cup ids
  BY <1>6 DEF Identifiers, Typed
<1>8. past' = [j \in Records |-> past[j] \cup {canon'[i] : i \in {j} \cap DOMAIN canon'}]
  BY DEF ImportChanged
<1>9. ASSUME NEW j \in DOMAIN canon' PROVE past'[j] = past[j] \cup {canon'[j]}
  <2>1. j \in Records
    BY <1>3 DEF Typed
  <2>2. {canon'[i] : i \in {j} \cap DOMAIN canon'} = {canon'[j]}
    OBVIOUS
  <2> QED
    BY <1>8, <2>1, <2>2
<1>10. \A j \in Records \ DOMAIN canon' : past'[j] = past[j]
  BY <1>8
<1>11. past' \in [Records -> SUBSET Canonicals]
  <2>1. DOMAIN canon' = DOMAIN held'
    BY <1>4
  <2> SUFFICES ASSUME NEW j \in Records PROVE past'[j] \subseteq Canonicals
    BY <1>8
  <2>2. past[j] \subseteq Canonicals
    BY DEF Typed
  <2>3. CASE j \in DOMAIN canon'
    <3>1. canon'[j] \in Canonicals
      BY <1>4, <2>1, <2>3
    <3> QED
      BY <1>9, <2>2, <2>3, <3>1
  <2>4. CASE j \notin DOMAIN canon'
    BY <1>10, <2>2, <2>4
  <2> QED
    BY <2>3, <2>4
<1>12. active' \subseteq DOMAIN held' /\ orphaned' \subseteq DOMAIN held' /\ torn' \in BOOLEAN
  BY <1>2 DEF ImportChanged, Typed
<1>13. said' = [j \in Records |-> said'[j]] /\ \A j \in Records \ {k} : said'[j] = said[j]
  BY <1>6 DEF Typed
<1>14. names' = [i \in DOMAIN names' |-> names'[i]]
  BY <1>5
<1>15. Typed'
  BY <1>2, <1>3, <1>4, <1>11, <1>12, <1>13, <1>14 DEF Typed
<1>16. /\ \A j \in DOMAIN held \ {k} : Current(j)' = Current(j)
       /\ Current(k)' = ids
  BY <1>2 DEF Current, Identifiers
<1> QED
  BY <1>3, <1>5, <1>7, <1>9, <1>10, <1>13, <1>15, <1>16 DEF ImportChanged

\* Names still lead to records that carried them, and records are found under theirs.
LEMMA ImportNames ==
  ASSUME IdentityInv, NEW k \in Records, NEW v \in VersionsOf[k], ImportChanged(k, v)
  PROVE  Carried' /\ Filed' /\ Named'
<1> DEFINE found == Found(k, v)
           selected == Min(found)
           ids == Identifiers(k, v)
<1> USE DEF IdentityInv
<1>1. /\ Typed'
      /\ DOMAIN canon' = DOMAIN canon \cup {k}
      /\ \A j \in DOMAIN canon' :
           canon'[j] = IF j = k \/ canon[j] \in found THEN selected ELSE canon[j]
      /\ \A j \in DOMAIN held \ {k} : Current(j)' = Current(j)
      /\ Current(k)' = ids
      /\ DOMAIN names' = DOMAIN names \cup ids
      /\ \A i \in DOMAIN names' :
           names'[i] = IF i \in ids \/ names[i] \in found THEN selected ELSE names[i]
      /\ orphaned' = orphaned \ {k}
      /\ \A j \in Records \ {k} : said'[j] = said[j]
      /\ said'[k] = said[k] \cup ids
  BY ImportMakes
<1>2. DOMAIN held' = DOMAIN held \cup {k} /\ DOMAIN held = DOMAIN canon /\ DOMAIN held \subseteq Records
  BY <1>1 DEF Typed
<1>3. Carried'
  <2> SUFFICES ASSUME NEW j \in DOMAIN held' PROVE Current(j)' \subseteq said'[j]
    BY DEF Carried
  <2> QED
    BY <1>1, <1>2 DEF Carried
<1>4. Filed'
  <2> SUFFICES ASSUME NEW j \in DOMAIN held' \ orphaned', NEW i \in Current(j)'
               PROVE  i \in DOMAIN names' /\ names'[i] = canon'[j]
    BY DEF Filed, Findable
  <2>1. CASE j = k
    BY <1>1, <1>2, <2>1
  <2>2. CASE j # k
    <3>1. i \in Current(j) /\ i \in DOMAIN names /\ names[i] = canon[j]
      BY <1>1, <1>2, <2>2 DEF Filed, Findable
    <3>2. i \in ids => names[i] \in found
      BY <3>1 DEF Found
    <3> QED
      BY <1>1, <1>2, <2>2, <3>1, <3>2
  <2> QED
    BY <2>1, <2>2
<1>5. Named'
  <2> SUFFICES ASSUME NEW i \in DOMAIN names'
               PROVE  \E b \in DOMAIN held' \ orphaned' : canon'[b] = names'[i] /\ i \in said'[b]
    BY DEF Named
  <2>1. CASE i \in ids
    BY <1>1, <1>2, <2>1
  <2>2. CASE i \notin ids
    <3>1. PICK b \in DOMAIN held \ orphaned : canon[b] = names[i] /\ i \in said[b]
      BY <1>1, <2>2 DEF Named
    <3>2. b = k => canon[b] \in found
      BY <1>2, <3>1 DEF Found
    <3>3. canon'[b] = names'[i]
      BY <1>1, <1>2, <2>2, <3>1, <3>2
    <3>4. i \in said'[b]
      BY <1>1, <1>2, <3>1
    <3> QED
      BY <1>1, <1>2, <3>1, <3>3, <3>4
  <2> QED
    BY <2>1, <2>2
<1> QED
  BY <1>3, <1>4, <1>5

\* Each id an import brings together is the candidate of a record that is then
\* connected with the imported one.
LEMMA FoundAreConnected ==
  ASSUME IdentityInv, NEW k \in Records, NEW v \in VersionsOf[k], ImportChanged(k, v),
         NEW c \in Found(k, v)
  PROVE  \E b \in DOMAIN canon' : c = Candidate[b] /\ Connected(k, b)'
<1> DEFINE found == Found(k, v)
           selected == Min(found)
<1> USE DEF IdentityInv
<1>1. /\ DOMAIN canon' = DOMAIN canon \cup {k}
      /\ \A j \in DOMAIN canon' :
           canon'[j] = IF j = k \/ canon[j] \in found THEN selected ELSE canon[j]
      /\ \A j \in Records \ {k} : said'[j] = said[j]
      /\ said'[k] = said[k] \cup Identifiers(k, v)
  BY ImportMakes
<1>2. \A a \in DOMAIN canon : said[a] \subseteq said'[a]
  BY <1>1 DEF Typed
<1>3. ASSUME NEW a \in DOMAIN canon, NEW b \in DOMAIN canon, Connected(a, b)
      PROVE  Connected(a, b)'
  BY <1>1, <1>2, <1>3, JoinedStay DEF Connected
<1>4. CASE c = Candidate[k]
  BY <1>1, <1>4 DEF Connected, Joined
<1>5. CASE k \in DOMAIN canon /\ c = canon[k]
  BY <1>1, <1>3, <1>5 DEF Rooted
<1>6. ASSUME NEW i \in Identifiers(k, v) \cap DOMAIN names, c = names[i]
      PROVE  \E b \in DOMAIN canon' : c = Candidate[b] /\ Connected(k, b)'
  <2>1. PICK n \in DOMAIN canon : canon[n] = c /\ i \in said[n]
    BY <1>6 DEF Named, Typed
  <2>2. PICK b \in DOMAIN canon : c = Candidate[b] /\ Connected(n, b)
    BY <2>1 DEF Rooted
  <2>3. Joined(DOMAIN canon', said', k, n)
    BY <1>1, <1>2, <2>1, SharedJoins
  <2>4. Joined(DOMAIN canon', said', n, b)
    BY <1>3, <2>2 DEF Connected
  <2> QED
    BY <1>1, <2>2, <2>3, <2>4 DEF Connected, Joined
<1> QED
  BY <1>4, <1>5, <1>6 DEF Found

\* Canonical ids stay the least candidates of connected records.
LEMMA ImportRoots ==
  ASSUME IdentityInv, NEW k \in Records, NEW v \in VersionsOf[k], ImportChanged(k, v)
  PROVE  Rooted'
<1> DEFINE found == Found(k, v)
           selected == Min(found)
<1> USE DEF IdentityInv
<1>1. /\ Typed'
      /\ DOMAIN canon' = DOMAIN canon \cup {k}
      /\ \A j \in DOMAIN canon' :
           canon'[j] = IF j = k \/ canon[j] \in found THEN selected ELSE canon[j]
      /\ \A j \in Records \ {k} : said'[j] = said[j]
      /\ said'[k] = said[k] \cup Identifiers(k, v)
  BY ImportMakes
<1>2. DOMAIN canon' \subseteq Records
  BY <1>1 DEF Typed
<1>3. \A a \in DOMAIN canon : said[a] \subseteq said'[a]
  BY <1>1, <1>2
<1>4. ASSUME NEW a \in DOMAIN canon, NEW b \in DOMAIN canon, Connected(a, b)
      PROVE  Joined(DOMAIN canon', said', a, b)
  BY <1>1, <1>3, <1>4, JoinedStay DEF Connected
<1>5. found \subseteq Canonicals /\ selected \in found /\ \A c \in found : selected <= c
  BY FoundAreCanonical
<1>6. ASSUME NEW c \in found
      PROVE  \E b \in DOMAIN canon' : c = Candidate[b] /\ Joined(DOMAIN canon', said', k, b)
  BY FoundAreConnected DEF Connected
<1> SUFFICES ASSUME NEW j \in DOMAIN canon'
             PROVE  /\ canon'[j] <= Candidate[j]
                    /\ \E b \in DOMAIN canon' :
                         canon'[j] = Candidate[b] /\ Joined(DOMAIN canon', said', j, b)
  BY DEF Rooted, Connected
<1>7. PICK r \in DOMAIN canon' : selected = Candidate[r] /\ Joined(DOMAIN canon', said', k, r)
  BY <1>5, <1>6
<1>8. CASE j = k
  <2>1. Candidate[k] \in found
    BY DEF Found
  <2> QED
    BY <1>1, <1>5, <1>7, <1>8, <2>1
<1>9. CASE j # k /\ canon[j] \notin found
  <2>1. PICK b \in DOMAIN canon : canon[j] = Candidate[b] /\ Connected(j, b)
    BY <1>1, <1>9 DEF Rooted
  <2> QED
    BY <1>1, <1>4, <1>9, <2>1 DEF Rooted
<1>10. CASE j # k /\ canon[j] \in found
  <2>1. PICK b \in DOMAIN canon : canon[j] = Candidate[b] /\ Connected(j, b)
    BY <1>1, <1>10 DEF Rooted
  <2>2. PICK n \in DOMAIN canon' : canon[j] = Candidate[n] /\ Joined(DOMAIN canon', said', k, n)
    BY <1>6, <1>10
  <2>3. n = b
    BY <1>1, <1>2, <2>1, <2>2, IdentityAssumption
  <2>4. Joined(DOMAIN canon', said', j, n)
    BY <1>1, <1>4, <1>10, <2>1, <2>3
  <2>5. Joined(DOMAIN canon', said', j, k)
    BY <1>1, <2>2, <2>4, JoinedThrough
  <2>6. Joined(DOMAIN canon', said', j, r)
    BY <1>7, <2>5 DEF Joined
  <2>7. selected <= canon[j] /\ canon[j] <= Candidate[j]
    BY <1>1, <1>5, <1>10 DEF Rooted
  <2>8. selected \in Nat /\ canon[j] \in Nat /\ Candidate[j] \in Nat
    BY <1>2, <1>5, <1>10, CandidatesAreNumbers
  <2> QED
    BY <1>1, <1>7, <1>10, <2>6, <2>7, <2>8
<1> QED
  BY <1>8, <1>9, <1>10

\* If nothing that was left out has changed, the record an id found is the candidate
\* of is merged too.
LEMMA FoundGoTogether ==
  ASSUME IdentityInv, NEW k \in Records, NEW v \in VersionsOf[k], ImportChanged(k, v),
         ~torn', NEW x \in Records, Candidate[x] \in Found(k, v)
  PROVE  x \in DOMAIN canon' /\ (x = k \/ canon[x] \in Found(k, v))
<1> USE DEF IdentityInv
<1>1. ~torn /\ k \notin orphaned
  BY DEF ImportChanged
<1>2. DOMAIN canon' = DOMAIN canon \cup {k}
  BY DEF ImportChanged
<1>3. CASE Candidate[x] = Candidate[k]
  BY <1>2, <1>3, IdentityAssumption
<1>4. CASE k \in DOMAIN canon /\ Candidate[x] = canon[k]
  BY <1>1, <1>2, <1>4 DEF Home, Lived
<1>5. ASSUME NEW i \in Identifiers(k, v) \cap DOMAIN names, Candidate[x] = names[i]
      PROVE  x \in DOMAIN canon' /\ canon[x] \in Found(k, v)
  <2>1. PICK b \in DOMAIN canon : b \notin orphaned /\ canon[b] = names[i]
    BY <1>5 DEF Named, Typed
  <2>2. x \in DOMAIN canon /\ canon[x] = canon[b]
    BY <1>1, <1>5, <2>1 DEF Home, Lived
  <2>3. names[i] \in Found(k, v)
    BY <1>5 DEF Found
  <2> QED
    BY <1>2, <2>1, <2>2, <2>3
<1> QED
  BY <1>2, <1>3, <1>4, <1>5 DEF Found

\* Present ids are remembered, and the ids that exist are those records have.
LEMMA ImportLives ==
  ASSUME IdentityInv, NEW k \in Records, NEW v \in VersionsOf[k], ImportChanged(k, v)
  PROVE  Lived' /\ LiveAreHeld'
<1> DEFINE found == Found(k, v)
           selected == Min(found)
<1> USE DEF IdentityInv
<1>1. /\ Typed'
      /\ DOMAIN canon' = DOMAIN canon \cup {k}
      /\ \A j \in DOMAIN canon' :
           canon'[j] = IF j = k \/ canon[j] \in Found(k, v) THEN Min(Found(k, v)) ELSE canon[j]
      /\ \A j \in DOMAIN canon' : past'[j] = past[j] \cup {canon'[j]}
      /\ \A j \in Records \ DOMAIN canon' : past'[j] = past[j]
  BY ImportMakes
<1>2. Lived'
  BY <1>1 DEF Lived
<1>3. live' = (live \cup {Candidate[k]}) \ (found \ {selected})
  BY DEF ImportChanged
<1>4. live = {canon[j] : j \in DOMAIN canon}
  BY DEF LiveAreHeld
<1>5. Candidate[k] \in found /\ selected \in found
  BY FoundAreCanonical DEF Found
<1>6. \A c \in found : c = Candidate[k] \/ c \in live
  <2> SUFFICES ASSUME NEW c \in found, c # Candidate[k] PROVE c \in live
    OBVIOUS
  <2>1. CASE k \in DOMAIN canon /\ c = canon[k]
    BY <1>4, <2>1
  <2>2. ASSUME NEW i \in Identifiers(k, v) \cap DOMAIN names, c = names[i] PROVE c \in live
    BY <1>4, <2>2 DEF Named, Typed
  <2> QED
    BY <2>1, <2>2 DEF Found
<1>7. ASSUME NEW c \in live' PROVE \E j \in DOMAIN canon' : c = canon'[j]
  <2>1. CASE c = selected
    BY <1>1, <2>1
  <2>2. CASE c # selected
    <3>1. c \notin found /\ c \in live
      BY <1>3, <1>5, <1>7, <2>2
    <3>2. PICK j \in DOMAIN canon : c = canon[j]
      BY <1>4, <3>1
    <3>3. j # k
      BY <3>1, <3>2 DEF Found
    <3> QED
      BY <1>1, <3>1, <3>2, <3>3
  <2> QED
    BY <2>1, <2>2
<1>8. ASSUME NEW j \in DOMAIN canon' PROVE canon'[j] \in live'
  <2>1. CASE j = k \/ canon[j] \in found
    BY <1>1, <1>3, <1>5, <1>6, <2>1
  <2>2. CASE j # k /\ canon[j] \notin found
    BY <1>1, <1>3, <1>4, <2>2
  <2> QED
    BY <2>1, <2>2
<1>9. live' = {canon'[j] : j \in DOMAIN canon'}
  BY <1>7, <1>8
<1> QED
  BY <1>2, <1>9 DEF LiveAreHeld

\* The record a former id is the candidate of still goes where those go that had the id.
LEMMA ImportHomes ==
  ASSUME IdentityInv, NEW k \in Records, NEW v \in VersionsOf[k], ImportChanged(k, v)
  PROVE  Home'
<1> DEFINE found == Found(k, v)
           selected == Min(found)
<1> USE DEF IdentityInv
<1> SUFFICES ASSUME ~torn', NEW m \in DOMAIN canon', NEW x \in Records,
                    Candidate[x] \in past'[m], m \in orphaned' => Candidate[x] # canon'[m]
             PROVE  x \in DOMAIN canon' /\ canon'[x] = canon'[m]
  BY DEF Home
<1>1. /\ Typed'
      /\ DOMAIN canon' = DOMAIN canon \cup {k}
      /\ \A j \in DOMAIN canon' :
           canon'[j] = IF j = k \/ canon[j] \in Found(k, v) THEN Min(Found(k, v)) ELSE canon[j]
      /\ orphaned' = orphaned \ {k}
      /\ \A j \in DOMAIN canon' : past'[j] = past[j] \cup {canon'[j]}
  BY ImportMakes
<1>2. ~torn /\ k \notin orphaned /\ orphaned' = orphaned
  <2>1. torn' = (torn \/ k \in orphaned)
    BY DEF ImportChanged
  <2>2. ~torn /\ k \notin orphaned
    BY <2>1
  <2> QED
    BY <1>1, <2>2
<1>3. k \in DOMAIN canon => canon[k] \in found
  BY DEF Found
<1>4. selected \in found
  BY FoundAreCanonical
<1>5. Candidate[x] \in found => x \in DOMAIN canon' /\ canon'[x] = selected
  BY <1>1, FoundGoTogether
<1>6. m \in Records
  BY <1>1 DEF Typed
<1>7. CASE m \notin DOMAIN canon
  <2>1. m = k /\ past[m] = {}
    BY <1>1, <1>6, <1>7 DEF Lived
  <2> QED
    BY <1>1, <1>4, <1>5, <2>1
<1>8. CASE m \in DOMAIN canon /\ canon[m] \in found
  <2>1. canon'[m] = selected
    BY <1>1, <1>8
  <2>2. CASE Candidate[x] \in found
    BY <1>5, <2>1, <2>2
  <2>3. CASE Candidate[x] \notin found
    <3>1. Candidate[x] \in past[m] /\ Candidate[x] # canon[m]
      BY <1>1, <1>4, <1>8, <2>1, <2>3
    <3>2. x \in DOMAIN canon /\ canon[x] = canon[m]
      BY <1>2, <1>8, <3>1 DEF Home
    <3> QED
      BY <1>1, <1>8, <2>1, <3>2
  <2> QED
    BY <2>2, <2>3
<1>9. CASE m \in DOMAIN canon /\ canon[m] \notin found
  <2>1. m # k /\ canon'[m] = canon[m]
    BY <1>1, <1>3, <1>9
  <2>2. Candidate[x] \in past[m] /\ (m \in orphaned => Candidate[x] # canon[m])
    BY <1>1, <1>2, <1>9, <2>1 DEF Lived
  <2>3. x \in DOMAIN canon /\ canon[x] = canon[m]
    BY <1>2, <1>9, <2>2 DEF Home
  <2> QED
    BY <1>1, <1>3, <1>9, <2>1, <2>3
<1> QED
  BY <1>7, <1>8, <1>9

\* Former ids lead where their holders went.
LEMMA ImportLeads ==
  ASSUME IdentityInv, NEW k \in Records, NEW v \in VersionsOf[k], ImportChanged(k, v)
  PROVE  FormerIdsLead'
<1> DEFINE found == Found(k, v)
           selected == Min(found)
           merged == found \ {selected}
<1> USE DEF IdentityInv
<1> SUFFICES ASSUME ~torn', NEW m \in DOMAIN canon', NEW c \in past'[m], c # canon'[m]
             PROVE  c \in DOMAIN redirects' /\ redirects'[c] = canon'[m]
  BY DEF FormerIdsLead
<1>1. /\ Typed'
      /\ DOMAIN canon' = DOMAIN canon \cup {k}
      /\ \A j \in DOMAIN canon' :
           canon'[j] = IF j = k \/ canon[j] \in Found(k, v) THEN Min(Found(k, v)) ELSE canon[j]
      /\ \A j \in DOMAIN canon' : past'[j] = past[j] \cup {canon'[j]}
  BY ImportMakes
<1>2. ~torn
  BY DEF ImportChanged
<1>3. redirects' = [d \in DOMAIN redirects \cup merged |->
                      IF d \in merged \/ redirects[d] \in merged THEN selected ELSE redirects[d]]
  BY DEF ImportChanged, Redirect
<1>4. k \in DOMAIN canon => canon[k] \in found
  BY DEF Found
<1>5. selected \in found
  BY FoundAreCanonical
<1>6. c \in past[m] /\ m \in Records
  BY <1>1 DEF Typed
<1>7. m \in DOMAIN canon
  BY <1>1, <1>6 DEF Lived
<1>8. c # canon[m] => c \in DOMAIN redirects /\ redirects[c] = canon[m]
  BY <1>2, <1>6, <1>7 DEF FormerIdsLead
<1>9. CASE canon[m] \in found
  <2>1. canon'[m] = selected
    BY <1>1, <1>9
  <2> QED
    BY <1>3, <1>8, <1>9, <2>1
<1>10. CASE canon[m] \notin found
  <2>1. canon'[m] = canon[m]
    BY <1>1, <1>4, <1>7, <1>10
  <2>2. c \notin found
    <3> SUFFICES ASSUME c \in found PROVE FALSE
      OBVIOUS
    <3>1. PICK x \in Records : c = Candidate[x]
      BY <1>6 DEF Typed, Canonicals
    <3>2. x \in DOMAIN canon /\ canon[x] = canon[m]
      BY <1>2, <1>6, <1>7, <2>1, <3>1 DEF Home
    <3>3. x = k \/ canon[x] \in found
      BY <3>1, FoundGoTogether
    <3> QED
      BY <1>4, <1>10, <3>2, <3>3
  <2> QED
    BY <1>3, <1>8, <1>10, <2>1, <2>2
<1> QED
  BY <1>9, <1>10

\* The invariant is kept by the import of a record.
LEMMA ImportKeepsIdentity ==
  ASSUME IdentityInv, NEW k \in Records, NEW v \in VersionsOf[k], ImportChanged(k, v)
  PROVE  IdentityInv'
<1>1. Typed'
  BY ImportMakes DEF IdentityInv
<1> QED
  BY <1>1, ImportNames, ImportRoots, ImportLives, ImportHomes, ImportLeads DEF IdentityInv

(***************************************************************************)
(* The rebuild.                                                            *)
(***************************************************************************)

\* What a rebuild makes of the tables, by record and by name.
LEMMA RebuildMakes ==
  ASSUME Typed, Rebuild
  PROVE  /\ Typed'
         /\ held' = held /\ active' = active /\ DOMAIN canon' = DOMAIN canon
         /\ \A k \in DOMAIN canon : canon'[k] = IF k \in active THEN Selected(k) ELSE canon[k]
         /\ \A k \in DOMAIN held : Current(k)' = Current(k)
         /\ \A i : i \in DOMAIN names' <=> \E k \in active : i \in Current(k)
         /\ \A i \in DOMAIN names' : \E b \in active : i \in Current(b) /\ names'[i] = Selected(b)
         /\ orphaned' = DOMAIN held \ active
         /\ \A k \in Records : said'[k] = IF k \in DOMAIN held /\ active = DOMAIN held
                                          THEN Current(k) ELSE said[k]
         /\ \A k \in DOMAIN canon : past'[k] = {canon'[k]}
         /\ \A k \in Records \ DOMAIN canon : past'[k] = {}
<1> DEFINE rows == UNION {Current(k) : k \in active}
<1>1. /\ held' = held /\ active' = active /\ orphaned' = DOMAIN held \ active /\ torn' = FALSE
      /\ canon' = [k \in DOMAIN canon |-> IF k \in active THEN Selected(k) ELSE canon[k]]
  BY DEF Rebuild
<1>2. names' = [i \in rows |-> Selected(CHOOSE k \in active : i \in Current(k))]
  BY DEF Rebuild
<1>3. past' = [k \in Records |-> {canon'[j] : j \in {k} \cap DOMAIN canon'}]
  BY DEF Rebuild
<1>4. said' = [k \in Records |-> IF k \in DOMAIN held /\ active = DOMAIN held THEN Current(k) ELSE said[k]]
  BY DEF Rebuild
<1>5. \A k \in active : Selected(k) \in Canonicals
  <2> SUFFICES ASSUME NEW k \in active PROVE Selected(k) \in Canonicals
    OBVIOUS
  <2>1. PICK b \in Component(k) : Selected(k) = Candidate[b]
    BY SelectedIsLeast
  <2> QED
    BY <2>1, ComponentHolds, CandidatesAreNumbers DEF Typed
<1>6. canon' \in [DOMAIN held -> Canonicals]
  BY <1>1, <1>5 DEF Typed
<1>7. \A k \in DOMAIN canon : past'[k] = {canon'[k]}
  <2> SUFFICES ASSUME NEW k \in DOMAIN canon PROVE past'[k] = {canon'[k]}
    OBVIOUS
  <2>1. k \in Records /\ {k} \cap DOMAIN canon' = {k}
    BY <1>1 DEF Typed
  <2>2. {canon'[j] : j \in {k}} = {canon'[k]}
    OBVIOUS
  <2> QED
    BY <1>3, <2>1, <2>2
<1>8. \A k \in Records \ DOMAIN canon : past'[k] = {}
  BY <1>1, <1>3
<1>9. past' \in [Records -> SUBSET Canonicals]
  <2> SUFFICES ASSUME NEW k \in Records PROVE past'[k] \subseteq Canonicals
    BY <1>3
  <2> QED
    BY <1>6, <1>7, <1>8 DEF Typed
<1>10. Typed'
  <2>1. /\ DOMAIN held' \subseteq Records /\ DOMAIN canon' = DOMAIN held'
        /\ held' = [k \in DOMAIN held' |-> held'[k]] /\ canon' \in [DOMAIN held' -> Canonicals]
        /\ active' \subseteq DOMAIN held' /\ orphaned' \subseteq DOMAIN held'
    BY <1>1, <1>6 DEF Typed
  <2>2. names' = [i \in DOMAIN names' |-> names'[i]]
    BY <1>2
  <2>3. said' = [k \in Records |-> said'[k]]
    BY <1>4
  <2>4. torn' \in BOOLEAN
    BY <1>1
  <2> QED
    BY <1>9, <2>1, <2>2, <2>3, <2>4 DEF Typed
<1>11. \A i : i \in DOMAIN names' <=> \E k \in active : i \in Current(k)
  BY <1>2
<1>12. ASSUME NEW i \in DOMAIN names'
       PROVE  \E b \in active : i \in Current(b) /\ names'[i] = Selected(b)
  BY <1>2, <1>11
<1>13. \A k \in DOMAIN held : Current(k)' = Current(k)
  BY <1>1 DEF Current, Identifiers
<1>14. \A k \in Records : said'[k] = IF k \in DOMAIN held /\ active = DOMAIN held
                                     THEN Current(k) ELSE said[k]
  BY <1>4
<1>15. DOMAIN canon' = DOMAIN canon
       /\ \A k \in DOMAIN canon : canon'[k] = IF k \in active THEN Selected(k) ELSE canon[k]
  BY <1>1
<1> QED
  BY <1>1, <1>7, <1>8, <1>10, <1>11, <1>12, <1>13, <1>14, <1>15

\* A component is rebuilt to one id.
LEMMA SelectedAgree ==
  ASSUME NEW k \in active, NEW b \in Component(k)
  PROVE  b \in active /\ Selected(b) = Selected(k)
<1> DEFINE S == {j \in active : Selected(j) = Selected(k)}
<1>1. Shut(S)
  BY SelectedMeet DEF Shut
<1> QED
  BY <1>1 DEF Component, Shut

\* The invariant is kept by a rebuild.
LEMMA RebuildKeepsIdentity ==
  ASSUME IdentityInv, Rebuild
  PROVE  IdentityInv'
<1> USE DEF IdentityInv
<1>1. /\ Typed'
      /\ held' = held /\ active' = active /\ DOMAIN canon' = DOMAIN canon
      /\ \A k \in DOMAIN canon : canon'[k] = IF k \in active THEN Selected(k) ELSE canon[k]
      /\ \A k \in DOMAIN held : Current(k)' = Current(k)
      /\ \A i : i \in DOMAIN names' <=> \E k \in active : i \in Current(k)
      /\ \A i \in DOMAIN names' : \E b \in active : i \in Current(b) /\ names'[i] = Selected(b)
      /\ orphaned' = DOMAIN held \ active
      /\ \A k \in Records : said'[k] = IF k \in DOMAIN held /\ active = DOMAIN held
                                       THEN Current(k) ELSE said[k]
      /\ \A k \in DOMAIN canon : past'[k] = {canon'[k]}
      /\ \A k \in Records \ DOMAIN canon : past'[k] = {}
  BY RebuildMakes
<1>2. DOMAIN canon = DOMAIN held /\ DOMAIN held \subseteq Records /\ active \subseteq DOMAIN held
  BY DEF Typed
<1>3. Carried'
  BY <1>1, <1>2 DEF Carried
<1>4. Filed'
  <2> SUFFICES ASSUME NEW k \in active, NEW i \in Current(k)
               PROVE  i \in DOMAIN names' /\ names'[i] = canon'[k]
    BY <1>1, <1>2 DEF Filed, Findable
  <2>1. PICK b \in active : i \in Current(b) /\ names'[i] = Selected(b)
    BY <1>1
  <2>2. Adjacent(b, k)
    BY <2>1 DEF Adjacent
  <2> QED
    BY <1>1, <1>2, <2>1, <2>2, SelectedMeet
<1>5. Named'
  <2> SUFFICES ASSUME NEW i \in DOMAIN names'
               PROVE  \E b \in DOMAIN held' \ orphaned' : canon'[b] = names'[i] /\ i \in said'[b]
    BY DEF Named
  <2>1. PICK b \in active : i \in Current(b) /\ names'[i] = Selected(b)
    BY <1>1
  <2>2. i \in said'[b]
    BY <1>1, <1>2, <1>3, <2>1 DEF Carried
  <2> QED
    BY <1>1, <1>2, <2>1, <2>2
<1>6. ASSUME NEW k \in active, NEW b \in Component(k)
      PROVE  Joined(DOMAIN canon', said', k, b)
  <2> SUFFICES ASSUME NEW S \in SUBSET DOMAIN canon', Closed(DOMAIN canon', said', S), k \in S
               PROVE  b \in S
    BY DEF Joined
  <2> DEFINE T == S \cap active
  <2>1. Shut(T)
    <3> SUFFICES ASSUME NEW x \in T, NEW y \in active, Adjacent(x, y) PROVE y \in S
      BY DEF Shut
    <3>1. PICK i : i \in Current(x) /\ i \in Current(y)
      BY DEF Adjacent
    <3>2. i \in said'[x] /\ i \in said'[y]
      BY <1>1, <1>2, <1>3, <3>1 DEF Carried
    <3> QED
      BY <1>1, <1>2, <3>2 DEF Closed
  <2> QED
    BY <2>1 DEF Component, Shut
<1>7. Rooted'
  <2> SUFFICES ASSUME NEW k \in DOMAIN canon
               PROVE  /\ canon'[k] <= Candidate[k]
                      /\ \E b \in DOMAIN canon' :
                           canon'[k] = Candidate[b] /\ Joined(DOMAIN canon', said', k, b)
    BY <1>1 DEF Rooted, Connected
  <2>1. CASE k \in active
    <3>1. PICK b \in Component(k) : Selected(k) = Candidate[b]
      BY <2>1, SelectedIsLeast
    <3>2. Selected(k) <= Candidate[k]
      BY <2>1, SelectedIsLeast, ComponentHolds
    <3>3. b \in active
      BY <2>1, ComponentHolds
    <3> QED
      BY <1>1, <1>2, <1>6, <2>1, <3>1, <3>2, <3>3
  <2>2. CASE k \notin active
    <3>1. active # DOMAIN held
      BY <1>2, <2>2
    <3>2. \A a \in DOMAIN canon : said[a] \subseteq said'[a]
      BY <1>1, <1>2, <3>1
    <3>3. PICK b \in DOMAIN canon : canon[k] = Candidate[b] /\ Connected(k, b)
      BY DEF Rooted
    <3>4. Joined(DOMAIN canon', said', k, b)
      BY <1>1, <3>2, <3>3, JoinedStay DEF Connected
    <3> QED
      BY <1>1, <2>2, <3>3, <3>4 DEF Rooted
  <2> QED
    BY <2>1, <2>2
<1>8. Lived'
  BY <1>1 DEF Lived
<1>9. Home'
  <2> SUFFICES ASSUME NEW m \in DOMAIN canon', NEW x \in Records,
                      Candidate[x] \in past'[m], m \in orphaned' => Candidate[x] # canon'[m]
               PROVE  x \in DOMAIN canon' /\ canon'[x] = canon'[m]
    BY DEF Home
  <2>1. Candidate[x] = canon'[m] /\ m \in active
    BY <1>1, <1>2
  <2>2. PICK b \in Component(m) : Selected(m) = Candidate[b]
    BY <2>1, SelectedIsLeast
  <2>3. b \in active /\ Selected(b) = Selected(m)
    BY <2>1, <2>2, SelectedAgree
  <2>4. x = b
    BY <1>1, <1>2, <2>1, <2>2, <2>3, IdentityAssumption
  <2> QED
    BY <1>1, <1>2, <2>1, <2>3, <2>4
<1>10. FormerIdsLead'
  BY <1>1 DEF FormerIdsLead
<1>11. LiveAreHeld'
  BY DEF Rebuild, LiveAreHeld
<1> QED
  BY <1>1, <1>3, <1>4, <1>5, <1>7, <1>8, <1>9, <1>10, <1>11

(***************************************************************************)
(* The invariant and what follows from it.                                 *)
(***************************************************************************)

\* Marking records as present or absent moves no id and no name.
LEMMA PresenceKeepsIdentity ==
  ASSUME IdentityInv, active' \subseteq DOMAIN held,
         UNCHANGED <<held, canon, names, redirects, live, orphaned, past, torn, said>>
  PROVE  IdentityInv'
<1> USE DEF IdentityInv
<1>1. Typed'
  BY DEF Typed
<1>2. Carried' /\ Filed'
  BY DEF Carried, Filed, Findable, Current, Identifiers
<1>3. Named' /\ Rooted' /\ Lived' /\ LiveAreHeld'
  BY DEF Named, Rooted, Lived, LiveAreHeld, Connected
<1>4. Home' /\ FormerIdsLead'
  BY DEF Home, FormerIdsLead
<1> QED
  BY <1>1, <1>2, <1>3, <1>4

\* In every state names lead to records that carried them, canonical ids are least
\* candidates of what names connect, and former ids lead on (CanonicalizationTables of
\* import_osv_record_tx and rebuild_canonicalization).
THEOREM IdentityInvHolds == Spec => []IdentityInv
<1>1. Init => IdentityInv
  <2> SUFFICES ASSUME Init PROVE IdentityInv
    OBVIOUS
  <2>1. /\ DOMAIN held = {} /\ DOMAIN canon = {} /\ DOMAIN names = {}
        /\ held = [k \in DOMAIN held |-> held[k]] /\ names = [i \in DOMAIN names |-> names[i]]
        /\ canon \in [DOMAIN held -> Canonicals]
        /\ active = {} /\ orphaned = {} /\ live = {} /\ torn = FALSE
        /\ past = [k \in Records |-> {}] /\ said = [k \in Records |-> {}]
    BY DEF Init
  <2>2. Typed
    BY <2>1 DEF Typed
  <2>3. Carried /\ Filed /\ Named /\ Rooted
    BY <2>1 DEF Carried, Filed, Named, Rooted
  <2>4. Lived /\ Home /\ FormerIdsLead /\ LiveAreHeld
    BY <2>1 DEF Lived, Home, FormerIdsLead, LiveAreHeld
  <2> QED
    BY <2>2, <2>3, <2>4 DEF IdentityInv
<1>2. IdentityInv /\ [Next]_vars => IdentityInv'
  <2> SUFFICES ASSUME IdentityInv, [Next]_vars PROVE IdentityInv'
    OBVIOUS
  <2>1. active \subseteq DOMAIN held
    BY DEF IdentityInv, Typed
  <2>2. ASSUME NEW k \in Records, ImportUnchanged(k) PROVE IdentityInv'
    BY <2>1, <2>2, PresenceKeepsIdentity DEF ImportUnchanged
  <2>3. ASSUME NEW k \in Records, Deactivate(k) PROVE IdentityInv'
    BY <2>1, <2>3, PresenceKeepsIdentity DEF Deactivate
  <2>4. ASSUME NEW k \in Records, NEW v \in VersionsOf[k], ImportChanged(k, v) PROVE IdentityInv'
    BY <2>4, ImportKeepsIdentity
  <2>5. CASE Rebuild
    BY <2>5, RebuildKeepsIdentity
  <2>6. CASE UNCHANGED vars
    BY <2>1, <2>6, PresenceKeepsIdentity DEF vars, tables
  <2> QED
    BY <2>2, <2>3, <2>4, <2>5, <2>6 DEF Next
<1> QED
  BY <1>1, <1>2, PTL DEF Spec

\* Every active record that no rebuild has passed by is found under its identifier and
\* each of its aliases: alias chains are closed (import_osv_record_tx).
THEOREM NamesFind == Spec => []MembersAreFindable
<1>1. IdentityInv => MembersAreFindable
  BY DEF IdentityInv, Typed, Filed, MembersAreFindable
<1> QED
  BY <1>1, IdentityInvHolds, PTL

\* Two records have one canonical id only if identifiers that records carried connect
\* them: neither text nor related links merge (merge_canonical).
THEOREM MergesAreNamed == Spec => []OnlyNamesMerge
<1>1. IdentityInv => OnlyNamesMerge
  <2> SUFFICES ASSUME IdentityInv, NEW j \in DOMAIN canon, NEW k \in DOMAIN canon,
                      canon[j] = canon[k]
               PROVE  Joined(DOMAIN canon, said, j, k)
    BY DEF OnlyNamesMerge, Joined, Closed
  <2>1. PICK a \in DOMAIN canon : canon[j] = Candidate[a] /\ Connected(j, a)
    BY DEF IdentityInv, Rooted
  <2>2. PICK b \in DOMAIN canon : canon[k] = Candidate[b] /\ Connected(k, b)
    BY DEF IdentityInv, Rooted
  <2>3. a = b
    BY <2>1, <2>2, IdentityAssumption DEF IdentityInv, Typed
  <2> QED
    BY <2>1, <2>2, <2>3, JoinedThrough DEF Connected
<1> QED
  BY <1>1, IdentityInvHolds, PTL

\* A former id leads in one step to where its record is, until a record that the last
\* rebuild left out has changed (canonical_redirects).
THEOREM RedirectsLead == Spec => []FormerIdsLead
BY IdentityInvHolds, PTL DEF IdentityInv

\* When every record is active and none has lost an identifier, the rebuilt id of a
\* record is the one that importing gave it.
LEMMA SelectedIsKept ==
  ASSUME IdentityInv, Faithful, NEW k \in active
  PROVE  Selected(k) = canon[k]
<1> USE DEF IdentityInv
<1>1. active = DOMAIN canon /\ DOMAIN canon = DOMAIN held /\ DOMAIN canon \subseteq Records
  BY DEF Faithful, Typed
<1>2. \A j \in active : said[j] = Current(j)
  BY DEF Faithful
<1>3. \A j \in active : Findable(j)
  BY <1>1 DEF Filed, Faithful
<1>4. PICK b \in DOMAIN canon : canon[k] = Candidate[b] /\ Connected(k, b)
  BY <1>1 DEF Rooted
<1>5. b \in Component(k)
  <2> SUFFICES ASSUME NEW S \in SUBSET active, k \in S,
                      \A x \in S, y \in active : Adjacent(x, y) => y \in S
               PROVE  b \in S
    BY <1>1, <1>4 DEF Component
  <2>1. Closed(DOMAIN canon, said, S)
    BY <1>1, <1>2 DEF Closed, Adjacent
  <2> QED
    BY <1>1, <1>4, <2>1 DEF Connected, Joined
<1>6. PICK n \in Component(k) : Selected(k) = Candidate[n]
  BY SelectedIsLeast
<1>7. n \in active /\ canon[n] = canon[k]
  <2> DEFINE S == {j \in active : canon[j] = canon[k]}
  <2>1. ASSUME NEW x \in S, NEW y \in active, Adjacent(x, y) PROVE y \in S
    <3>1. PICK i : i \in Current(x) /\ i \in Current(y)
      BY <2>1 DEF Adjacent
    <3> QED
      BY <1>3, <3>1 DEF Findable
  <2> QED
    BY <1>6, <2>1 DEF Component
<1>8. canon[n] <= Candidate[n]
  BY <1>1, <1>7 DEF Rooted
<1>9. Selected(k) <= Candidate[b]
  BY <1>5, SelectedIsLeast
<1>10. Candidate[b] \in Nat /\ Candidate[n] \in Nat
  BY <1>1, <1>4, <1>7, IdentityAssumption
<1> QED
  BY <1>4, <1>6, <1>7, <1>8, <1>9, <1>10

\* Importing record by record and rebuilding from scratch give the same ids and names
\* (import_osv_record_tx and rebuild_canonicalization).
THEOREM ImportsAgreeWithRebuild == Spec => RebuildAgrees
<1>1. ASSUME IdentityInv, Rebuild, Faithful
      PROVE  UNCHANGED <<canon, names, live>>
  <2> USE <1>1 DEF IdentityInv
  <2>1. active = DOMAIN canon /\ DOMAIN canon = DOMAIN held
    BY DEF Faithful, Typed
  <2>2. \A k \in active : said[k] = Current(k) /\ Findable(k) /\ Selected(k) = canon[k]
    BY <2>1, SelectedIsKept DEF Faithful, Filed
  <2>3. /\ \A i : i \in DOMAIN names' <=> \E k \in active : i \in Current(k)
        /\ \A i \in DOMAIN names' : \E b \in active : i \in Current(b) /\ names'[i] = Selected(b)
    BY RebuildMakes
  <2>4. canon' = canon
    <3>1. canon' = [k \in DOMAIN canon |-> IF k \in active THEN Selected(k) ELSE canon[k]]
      BY DEF Rebuild
    <3>2. canon = [k \in DOMAIN canon |-> canon[k]]
      BY DEF Typed
    <3> QED
      BY <2>1, <2>2, <3>1, <3>2
  <2>5. DOMAIN names' = DOMAIN names
    <3>1. ASSUME NEW i \in DOMAIN names PROVE i \in DOMAIN names'
      <4>1. PICK b \in DOMAIN held : i \in said[b]
        BY <3>1 DEF Named
      <4> QED
        BY <2>1, <2>2, <2>3, <4>1
    <3>2. ASSUME NEW i \in DOMAIN names' PROVE i \in DOMAIN names
      BY <2>2, <2>3, <3>2 DEF Findable
    <3> QED
      BY <3>1, <3>2
  <2>6. \A i \in DOMAIN names' : names'[i] = names[i]
    BY <2>2, <2>3 DEF Findable
  <2>7. names' = names
    <3>1. names = [i \in DOMAIN names |-> names[i]]
      BY DEF Typed
    <3>2. names' = [i \in DOMAIN names' |-> names'[i]]
      BY RebuildMakes DEF Typed
    <3> QED
      BY <2>5, <2>6, <3>1, <3>2
  <2>8. live' = live
    BY <2>4 DEF Rebuild, LiveAreHeld
  <2> QED
    BY <2>4, <2>7, <2>8
<1>2. IdentityInv /\ [Next]_vars => [Rebuild /\ Faithful => UNCHANGED <<canon, names, live>>]_vars
  BY <1>1
<1> QED
  BY <1>2, IdentityInvHolds, PTL DEF Spec, RebuildAgrees
=============================================================================
