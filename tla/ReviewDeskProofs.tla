-------------------------- MODULE ReviewDeskProofs --------------------------
(***************************************************************************)
(* Theorems about what happens to a run after its scan, for any manifests, *)
(* files, importers, agents and bounds: decisions and answers are never    *)
(* changed, what a command leaves the next one takes, the ledger keeps     *)
(* what was imported, and agents replace nothing.                          *)
(***************************************************************************)
EXTENDS ReviewDesk, SequenceTheorems, FiniteSetTheorems, WellFoundedInduction, TLAPS

\* Numbers that are not none have a least one: what fails nowhere first, never fails.
LEMMA LeastExists ==
  ASSUME NEW S \in SUBSET Nat, S # {}
  PROVE  \E least \in S : \A n \in S : least <= n
<1> DEFINE R == {ss \in Nat \X Nat : ss[1] < ss[2]}
<1>1. IsWellFoundedOn(R, Nat)
  BY NatLessThanWellFounded DEF OpToRel
<1>2. PICK least \in S : \A n \in S : ~(<<n, least>> \in R)
  BY <1>1, WFMin, Zenon
<1>3. ASSUME NEW n \in S PROVE least <= n
  <2>1. <<n, least>> \in Nat \X Nat /\ ~(<<n, least>> \in R)
    BY <1>2
  <2>2. ~(n < least) /\ least \in Nat /\ n \in Nat
    BY <2>1
  <2> QED
    BY <2>2
<1> QED
  BY <1>3

(***************************************************************************)
(* Lists.                                                                  *)
(***************************************************************************)

\* A list is a function on the numbers up to its length.
LEMMA ListHas ==
  ASSUME NEW s, IsList(s)
  PROVE  /\ Len(s) \in Nat /\ DOMAIN s = 1..Len(s)
         /\ s = [i \in 1..Len(s) |-> s[i]]
         /\ \A i \in 1..Len(s) : s[i] \in ToSet(s)
BY LenProperties, ElementOfSeq DEF IsList

\* What is defined on the numbers up to one is a list.
LEMMA ListOf ==
  ASSUME NEW n \in Nat, NEW s, s = [i \in 1..n |-> s[i]]
  PROVE  IsList(s) /\ Len(s) = n
<1>1. s \in [1..n -> ToSet(s)]
  BY DEF ToSet
<1> QED
  BY <1>1 DEF IsList

\* A list that repeats another up to its length has it as a prefix.
LEMMA PrefixWhenRepeated ==
  ASSUME NEW s, NEW t, IsList(s), IsList(t), Len(s) <= Len(t), \A i \in 1..Len(s) : t[i] = s[i]
  PROVE  IsPrefix(s, t) /\ SubSeq(t, 1, Len(s)) = s
<1>1. Len(s) \in Nat /\ Len(t) \in Nat /\ s \in Seq(ToSet(s))
  BY ListHas DEF IsList
<1>2. \A i \in 1..Len(s) : s[i] \in ToSet(s) /\ t[i] \in ToSet(s)
  BY ListHas
<1>3. SubSeq(s, 1, Len(s)) = s
  BY <1>1, SubSeqFull
<1>4. /\ SubSeq(t, 1, Len(s)) \in Seq(ToSet(s))
      /\ Len(SubSeq(t, 1, Len(s))) = IF 1 <= Len(s) THEN Len(s) - 1 + 1 ELSE 0
      /\ \A i \in 1..Len(s) - 1 + 1 : SubSeq(t, 1, Len(s))[i] = t[1 + i - 1]
  BY <1>1, <1>2, SubSeqProperties
<1>5. Len(SubSeq(t, 1, Len(s))) = Len(s)
  BY <1>1, <1>4
<1>6. \A i \in 1..Len(s) : SubSeq(t, 1, Len(s))[i] = s[i]
  BY <1>1, <1>4
<1>7. SubSeq(t, 1, Len(s)) = s
  BY <1>1, <1>4, <1>5, <1>6, SeqEqual
<1> QED
  BY <1>3, <1>7 DEF IsPrefix

\* Appending to a list keeps what was there.
LEMMA AppendHas ==
  ASSUME NEW s, IsList(s), NEW e
  PROVE  /\ IsList(Append(s, e))
         /\ Len(Append(s, e)) = Len(s) + 1
         /\ \A i \in 1..Len(s) : Append(s, e)[i] = s[i]
         /\ Append(s, e)[Len(s) + 1] = e
         /\ IsPrefix(s, Append(s, e))
<1> DEFINE T == ToSet(s) \cup {e}
           t == Append(s, e)
<1>1. s \in Seq(T) /\ e \in T
  BY SeqMonotonic DEF IsList
<1>2. /\ t \in Seq(T) /\ Len(t) = Len(s) + 1 /\ Len(s) \in Nat
      /\ \A i \in 1..Len(s) : t[i] = s[i]
      /\ t[Len(s) + 1] = e
  BY <1>1
<1>3. DOMAIN t = 1..Len(s) + 1
  BY <1>2
<1>4. T \subseteq ToSet(t)
  <2>1. e \in ToSet(t)
    BY <1>2, <1>3 DEF ToSet
  <2>2. ASSUME NEW x \in ToSet(s) PROVE x \in ToSet(t)
    <3>1. PICK i \in 1..Len(s) : x = s[i]
      BY <1>1 DEF ToSet
    <3>2. i \in DOMAIN t /\ t[i] = x
      BY <1>2, <1>3, <3>1
    <3> QED
      BY <3>2 DEF ToSet
  <2> QED
    BY <2>1, <2>2
<1>5. IsList(t)
  BY <1>2, <1>4, SeqMonotonic DEF IsList
<1>6. IsPrefix(s, t)
  <2>1. Len(s) <= Len(t)
    BY <1>2
  <2> HIDE DEF t
  <2> QED
    BY <1>2, <1>5, <2>1, PrefixWhenRepeated
<1> QED
  BY <1>2, <1>5, <1>6

(***************************************************************************)
(* The walk of an import over the findings of a manifest.                  *)
(***************************************************************************)

\* The ledger after each finding, up to the last.
IsWalk(out, known, m, last) ==
  out = [n \in 0..last |->
           IF n = 0 THEN known ELSE Extended(known, out[n - 1], m, m.findings[n])]

\* However many findings there are, there is a walk over them.
LEMMA WalkExists ==
  ASSUME NEW known, NEW m
  PROVE  \A last \in Nat : \E out : IsWalk(out, known, m, last)
<1> DEFINE Missing == {n \in Nat : ~ \E out : IsWalk(out, known, m, n)}
<1> SUFFICES ASSUME Missing # {} PROVE FALSE
  OBVIOUS
<1>1. PICK least \in Missing : \A n \in Missing : least <= n
  <2>1. Missing \subseteq Nat
    OBVIOUS
  <2> HIDE DEF Missing
  <2> QED
    BY <2>1, LeastExists
<1>2. least \in Nat /\ ~ \E out : IsWalk(out, known, m, least)
  OBVIOUS
<1>3. CASE least = 0
  <2>1. IsWalk([n \in 0..0 |-> known], known, m, 0)
    BY DEF IsWalk
  <2> QED
    BY <1>2, <1>3, <2>1
<1>4. CASE least # 0
  <2>1. least - 1 \in Nat /\ least - 1 < least
    BY <1>2, <1>4
  <2>2. least - 1 \notin Missing
    BY <1>1, <1>2, <2>1
  <2>3. PICK out : IsWalk(out, known, m, least - 1)
    BY <2>1, <2>2
  <2> DEFINE longer == [n \in 0..least |->
                         IF n < least THEN out[n]
                         ELSE Extended(known, out[least - 1], m, m.findings[least])]
  <2>4. ASSUME NEW n \in 0..least
        PROVE  longer[n] = IF n = 0 THEN known
                           ELSE Extended(known, longer[n - 1], m, m.findings[n])
    <3>1. CASE n = 0
      BY <1>2, <1>4, <2>3, <3>1 DEF IsWalk
    <3>2. CASE n # 0 /\ n < least
      <4>1. n \in 0..least - 1 /\ n - 1 \in 0..least /\ n - 1 < least
        BY <1>2, <3>2
      <4>2. out[n] = Extended(known, out[n - 1], m, m.findings[n])
        BY <2>3, <3>2, <4>1 DEF IsWalk
      <4> QED
        BY <3>2, <4>1, <4>2
    <3>3. CASE n = least
      <4>1. least - 1 \in 0..least
        BY <1>2, <1>4
      <4> QED
        BY <1>2, <1>4, <3>3, <4>1
    <3> QED
      BY <1>2, <3>1, <3>2, <3>3
  <2>5. IsWalk(longer, known, m, least)
    BY <2>4 DEF IsWalk
  <2> QED
    BY <1>2, <2>5
<1> QED
  BY <1>3, <1>4

\* What an import writes is where the walk over the findings ends.
LEMMA ImportedWalks ==
  ASSUME NEW known, NEW m, IsList(m.findings)
  PROVE  \E out : IsWalk(out, known, m, Len(m.findings)) /\ Imported(known, m) = out[Len(m.findings)]
<1>1. Len(m.findings) \in Nat
  BY ListHas
<1>2. \E out : IsWalk(out, known, m, Len(m.findings))
  BY <1>1, WalkExists
<1> QED
  BY <1>2 DEF Imported, IsWalk

(***************************************************************************)
(* The ledger.                                                             *)
(***************************************************************************)

\* What comes before a position is the same in a list and in what repeats it.
LEMMA BeginningsAgree ==
  ASSUME NEW s, NEW t, IsList(s), NEW n \in 0..Len(s), \A i \in 1..Len(s) : t[i] = s[i]
  PROVE  SubSeq(t, 1, n) = SubSeq(s, 1, n)
<1> DEFINE S == ToSet(s)
           a == SubSeq(s, 1, n)
           b == SubSeq(t, 1, n)
<1>1. Len(s) \in Nat /\ n \in Int /\ \A i \in 1..n : s[i] \in S /\ t[i] \in S /\ t[i] = s[i]
  BY ListHas
<1>2. /\ a \in Seq(S) /\ Len(a) = IF 1 <= n THEN n - 1 + 1 ELSE 0
      /\ \A i \in 1..n - 1 + 1 : a[i] = s[1 + i - 1]
  BY <1>1, SubSeqProperties
<1>3. /\ b \in Seq(S) /\ Len(b) = IF 1 <= n THEN n - 1 + 1 ELSE 0
      /\ \A i \in 1..n - 1 + 1 : b[i] = t[1 + i - 1]
  BY <1>1, SubSeqProperties
<1>4. Len(a) = Len(b) /\ \A i \in 1..Len(a) : a[i] = b[i]
  BY <1>1, <1>2, <1>3
<1> HIDE DEF a, b
<1>5. a = b
  BY <1>2, <1>3, <1>4, SeqEqual
<1> QED
  BY <1>5 DEF a, b

\* A record with a new identifier and the link the ledger asks for can be appended.
LEMMA AppendParses ==
  ASSUME NEW l, IsList(l), LedgerParses(l),
         NEW r, r.version = "v2", r.id \notin Ids(l), r.decision \in Decisions,
         r.reviewer # Nobody, PlaceValid(r.observed.at), r.link = Canonical(l, r.observed)
  PROVE  /\ IsList(Append(l, r)) /\ LedgerParses(Append(l, r))
         /\ Ids(Append(l, r)) = Ids(l) \cup {r.id}
<1> DEFINE t == Append(l, r)
<1>1. /\ IsList(t) /\ Len(t) = Len(l) + 1 /\ Len(l) \in Nat
      /\ DOMAIN l = 1..Len(l) /\ DOMAIN t = 1..Len(l) + 1
      /\ \A i \in 1..Len(l) : t[i] = l[i]
      /\ t[Len(l) + 1] = r
  <2>1. IsList(t) /\ Len(t) = Len(l) + 1 /\ \A i \in 1..Len(l) : t[i] = l[i]
    BY AppendHas
  <2>2. t[Len(l) + 1] = r
    BY AppendHas
  <2> HIDE DEF t
  <2> QED
    BY <2>1, <2>2, ListHas
<1> HIDE DEF t
<1>2. Canonical(l, r.observed) \subseteq Ids(l)
  BY DEF Canonical, Ids
<1>3. \A i \in DOMAIN t : RecordValid(t[i])
  <2>1. RecordValid(r)
    BY <1>2 DEF RecordValid
  <2>2. \A i \in DOMAIN l : RecordValid(l[i])
    BY DEF LedgerParses
  <2> QED
    BY <1>1, <2>1, <2>2
<1>4. UniqueIds(t)
  <2>1. \A i \in 1..Len(l) : l[i].id # r.id
    BY <1>1 DEF Ids
  <2>2. \A i, j \in 1..Len(l) : l[i].id = l[j].id => i = j
    BY <1>1 DEF LedgerParses, UniqueIds
  <2> SUFFICES ASSUME NEW i \in 1..Len(l) + 1, NEW j \in 1..Len(l) + 1, t[i].id = t[j].id
               PROVE  i = j
    BY <1>1 DEF UniqueIds
  <2>3. (i \in 1..Len(l) \/ i = Len(l) + 1) /\ (j \in 1..Len(l) \/ j = Len(l) + 1)
    BY <1>1
  <2> QED
    BY <1>1, <2>1, <2>2, <2>3
<1>5. ASSUME NEW i \in DOMAIN t, t[i].version = "v2"
      PROVE  t[i].link = Canonical(SubSeq(t, 1, i - 1), t[i].observed)
  <2>1. i - 1 \in 0..Len(l) /\ (i \in 1..Len(l) \/ i = Len(l) + 1)
    BY <1>1
  <2>2. SubSeq(t, 1, i - 1) = SubSeq(l, 1, i - 1)
    BY <1>1, <2>1, BeginningsAgree
  <2>3. CASE i \in 1..Len(l)
    BY <1>1, <1>5, <2>2, <2>3 DEF LedgerParses
  <2>4. CASE i = Len(l) + 1
    <3>1. i - 1 = Len(l)
      BY <1>1, <2>4
    <3>2. SubSeq(l, 1, Len(l)) = l
      BY SubSeqFull DEF IsList
    <3> QED
      BY <1>1, <2>2, <2>4, <3>1, <3>2
  <2> QED
    BY <2>1, <2>3, <2>4
<1>6. Ids(t) = Ids(l) \cup {r.id}
  <2>1. ASSUME NEW x \in Ids(t) PROVE x \in Ids(l) \cup {r.id}
    <3>1. PICK i \in DOMAIN t : x = t[i].id
      BY DEF Ids
    <3>2. i \in 1..Len(l) \/ i = Len(l) + 1
      BY <1>1
    <3> QED
      BY <1>1, <3>1, <3>2 DEF Ids
  <2>2. ASSUME NEW x \in Ids(l) PROVE x \in Ids(t)
    <3>1. PICK i \in DOMAIN l : x = l[i].id
      BY DEF Ids
    <3>2. i \in DOMAIN t /\ x = t[i].id
      BY <1>1, <3>1
    <3> QED
      BY <3>2 DEF Ids
  <2>3. r.id \in Ids(t)
    <3>1. Len(l) + 1 \in DOMAIN t
      BY <1>1
    <3> QED
      BY <1>1, <3>1 DEF Ids
  <2> QED
    BY <2>1, <2>2, <2>3
<1>7. LedgerParses(t)
  BY <1>3, <1>4, <1>5 DEF LedgerParses
<1> QED
  BY <1>1, <1>6, <1>7 DEF t

\* The identifiers of what was reviewed among the first n findings.
IdsUpTo(m, n) ==
  {RecordId(m, m.findings[j]) : j \in {i \in 1..n : m.findings[i].review.decision # "pending"}}

\* One finding more: the ledger parses and has its record, if it is reviewed.
LEMMA ExtendedParses ==
  ASSUME NEW m, ManifestTyped(m), ManifestValid(m), NEW n \in DOMAIN m.findings,
         NEW known, NEW l, IsList(l), LedgerParses(l), Ids(l) = Ids(known) \cup IdsUpTo(m, n - 1)
  PROVE  LET t == Extended(known, l, m, m.findings[n]) IN
         IsList(t) /\ LedgerParses(t) /\ Ids(t) = Ids(known) \cup IdsUpTo(m, n)
<1> DEFINE f == m.findings[n]
           r == Linked(l, Record(m, f))
           t == Extended(known, l, m, f)
<1>1. /\ Len(m.findings) \in Nat /\ DOMAIN m.findings = 1..Len(m.findings)
      /\ FindingTyped(f) /\ FindingValid(f) /\ UniqueIds(m.findings)
  BY ListHas DEF ManifestTyped, ManifestValid
<1>2. 1..n = 1..n - 1 \cup {n}
  BY <1>1
<1>3. CASE f.review.decision = "pending"
  <2>1. IdsUpTo(m, n) = IdsUpTo(m, n - 1)
    BY <1>2, <1>3 DEF IdsUpTo
  <2> QED
    BY <1>3, <2>1 DEF Extended
<1>4. CASE f.review.decision # "pending"
  <2>1. IdsUpTo(m, n) = IdsUpTo(m, n - 1) \cup {RecordId(m, f)}
    BY <1>2, <1>4 DEF IdsUpTo
  <2>2. /\ Record(m, f).id = RecordId(m, f)
        /\ r = [version |-> "v2", id |-> RecordId(m, f), observed |-> Observation(m, f),
                decision |-> f.review.decision, reviewer |-> f.review.reviewer,
                link |-> Canonical(l, Observation(m, f))]
    BY DEF Linked, Record
  <2>3. CASE RecordId(m, f) \in Ids(known)
    BY <1>4, <2>1, <2>2, <2>3 DEF Extended, Skips
  <2>4. CASE RecordId(m, f) \notin Ids(known)
    <3>1. RecordId(m, f) \notin IdsUpTo(m, n - 1)
      <4> SUFFICES ASSUME NEW j \in 1..n - 1, RecordId(m, f) = RecordId(m, m.findings[j])
                   PROVE  FALSE
        BY DEF IdsUpTo
      <4>1. m.findings[j].id = f.id
        BY DEF RecordId
      <4>2. j \in 1..Len(m.findings) /\ j # n
        BY <1>1
      <4> QED
        BY <1>1, <4>1, <4>2 DEF UniqueIds
    <3>2. f.review.decision \in Decisions /\ f.review.reviewer # Nobody /\ PlaceValid(f.at)
      BY <1>1, <1>4 DEF FindingTyped, FindingValid, ReviewValid
    <3>3. t = Append(l, r)
      BY <1>4, <2>2, <2>4 DEF Extended, Skips
    <3>4. /\ r.version = "v2" /\ r.id = RecordId(m, f) /\ r.decision = f.review.decision
          /\ r.reviewer = f.review.reviewer /\ r.observed = Observation(m, f)
          /\ r.link = Canonical(l, r.observed)
      BY <2>2
    <3>5. r.observed.at = f.at
      BY <3>4 DEF Observation
    <3> HIDE DEF r, t
    <3>6. IsList(Append(l, r)) /\ LedgerParses(Append(l, r)) /\ Ids(Append(l, r)) = Ids(l) \cup {r.id}
      BY <2>4, <3>1, <3>2, <3>4, <3>5, AppendParses
    <3>7. IsList(t) /\ LedgerParses(t) /\ Ids(t) = Ids(known) \cup IdsUpTo(m, n)
      BY <2>1, <3>3, <3>4, <3>6
    <3> QED
      BY <3>7 DEF t
  <2> QED
    BY <2>3, <2>4
<1> QED
  BY <1>3, <1>4

\* Whatever an import writes parses, and has what was there and all that was reviewed.
LEMMA ImportedParses ==
  ASSUME NEW m, ManifestTyped(m), ManifestValid(m), NEW known, IsList(known), LedgerParses(known)
  PROVE  /\ IsList(Imported(known, m)) /\ LedgerParses(Imported(known, m))
         /\ Ids(Imported(known, m)) = Ids(known) \cup {RecordId(m, f) : f \in Reviewed(m)}
<1> DEFINE total == Len(m.findings)
<1>1. IsList(m.findings) /\ total \in Nat /\ DOMAIN m.findings = 1..total
  BY ListHas DEF ManifestTyped
<1>2. PICK out : IsWalk(out, known, m, total) /\ Imported(known, m) = out[total]
  BY <1>1, ImportedWalks
<1> DEFINE Fine(n) == /\ IsList(out[n]) /\ LedgerParses(out[n])
                      /\ Ids(out[n]) = Ids(known) \cup IdsUpTo(m, n)
           Failing == {n \in 0..total : ~Fine(n)}
<1>3. Failing = {}
  <2> SUFFICES ASSUME Failing # {} PROVE FALSE
    OBVIOUS
  <2>1. PICK least \in Failing : \A n \in Failing : least <= n
    <3>1. Failing \subseteq Nat
      BY <1>1
    <3> HIDE DEF Failing
    <3> QED
      BY <3>1, LeastExists
  <2>2. least \in 0..total /\ ~Fine(least)
    OBVIOUS
  <2>3. CASE least = 0
    <3>1. out[0] = known
      BY <1>1, <1>2 DEF IsWalk
    <3>2. IdsUpTo(m, 0) = {}
      BY DEF IdsUpTo
    <3> QED
      BY <2>2, <2>3, <3>1, <3>2
  <2>4. CASE least # 0
    <3>1. least - 1 \in 0..total /\ least - 1 < least /\ least \in DOMAIN m.findings /\ least \in Nat
      BY <1>1, <2>2, <2>4
    <3>2. least - 1 \notin Failing
      BY <2>1, <3>1
    <3>3. Fine(least - 1)
      BY <3>1, <3>2
    <3>4. out[least] = Extended(known, out[least - 1], m, m.findings[least])
      BY <1>2, <2>2, <2>4 DEF IsWalk
    <3>5. Fine(least)
      BY <3>1, <3>3, <3>4, ExtendedParses
    <3> QED
      BY <2>2, <3>5
  <2> QED
    BY <2>3, <2>4
<1>4. Fine(total)
  BY <1>1, <1>3
<1>5. IdsUpTo(m, total) = {RecordId(m, f) : f \in Reviewed(m)}
  <2>1. Reviewed(m) = {m.findings[i] : i \in {i \in 1..total : m.findings[i].review.decision # "pending"}}
    BY <1>1 DEF Reviewed, ToSet
  <2> QED
    BY <2>1 DEF IdsUpTo
<1> QED
  BY <1>2, <1>4, <1>5

(***************************************************************************)
(* Decisions and answers on a manifest.                                    *)
(***************************************************************************)

\* A manifest that differs from one in the review or the answer of finding i, and in
\* what is derived from the findings.
Revised(new, m, i) ==
  /\ ManifestTyped(new)
  /\ \A x \in {"contract", "run", "target", "status", "ended", "report", "graph", "abstentions"} :
       new[x] = m[x]
  /\ DOMAIN new.findings = DOMAIN m.findings
  /\ \A j \in DOMAIN m.findings \ {i} : new.findings[j] = m.findings[j]
  /\ \A x \in {"id", "at", "path", "verification", "evidence", "disposition", "reason"} :
       new.findings[i][x] = m.findings[i][x]
  /\ new.summary = {Summary(new.findings, d) : d \in {s.duplicates : s \in new.summary}}

\* Replacing one finding and counting again makes a typed manifest.
LEMMA RecountRevises ==
  ASSUME NEW m, ManifestTyped(m), NEW i \in DOMAIN m.findings, NEW f, FindingTyped(f),
         \A x \in {"id", "at", "path", "verification", "evidence", "disposition", "reason"} :
           f[x] = m.findings[i][x]
  PROVE  LET new == Recounted([m EXCEPT !.findings = [m.findings EXCEPT ![i] = f]]) IN
         Revised(new, m, i) /\ new.findings[i] = f
<1> DEFINE findings == [m.findings EXCEPT ![i] = f]
           edited == [m EXCEPT !.findings = findings]
           duplicates == IF edited.summary = {} THEN 0 ELSE (CHOOSE s \in edited.summary : TRUE).duplicates
           counts == Summary(findings, duplicates)
           new == [edited EXCEPT !.summary = {counts}]
<1>1. /\ Len(m.findings) \in Nat /\ DOMAIN m.findings = 1..Len(m.findings)
      /\ m.findings = [j \in 1..Len(m.findings) |-> m.findings[j]]
      /\ \A j \in DOMAIN m.findings : FindingTyped(m.findings[j])
  BY ListHas DEF ManifestTyped
<1>2. /\ findings = [j \in 1..Len(m.findings) |-> findings[j]]
      /\ DOMAIN findings = DOMAIN m.findings
      /\ findings[i] = f /\ \A j \in DOMAIN m.findings \ {i} : findings[j] = m.findings[j]
  BY <1>1
<1> HIDE DEF findings
<1>3. IsList(findings)
  BY <1>1, <1>2, ListOf
<1>4. /\ m = [x \in DOMAIN m |-> m[x]] /\ "findings" \in DOMAIN m /\ "summary" \in DOMAIN m
      /\ {"contract", "run", "target", "status", "ended", "report", "graph",
          "findings", "validation", "abstentions", "summary"} \subseteq DOMAIN m
  BY DEF ManifestTyped, HasFields
<1>5. /\ edited.findings = findings /\ DOMAIN edited = DOMAIN m
      /\ edited = [x \in DOMAIN m |-> edited[x]]
      /\ \A x \in DOMAIN m \ {"findings"} : edited[x] = m[x]
  BY <1>4
<1>6. Recounted(edited) = new
  BY <1>5 DEF Recounted, RefreshSummary
<1> HIDE DEF edited
<1>7. counts.duplicates = duplicates
  BY DEF Summary
<1> HIDE DEF counts
<1>8. /\ DOMAIN new = DOMAIN m /\ new = [x \in DOMAIN m |-> new[x]]
      /\ new.summary = {counts} /\ new.findings = findings
      /\ \A x \in DOMAIN m \ {"findings", "summary"} : new[x] = m[x]
  BY <1>4, <1>5
<1> HIDE DEF new
<1>9. \A j \in DOMAIN findings : FindingTyped(findings[j])
  BY <1>1, <1>2
<1>10. ManifestTyped(new)
  BY <1>3, <1>4, <1>8, <1>9 DEF ManifestTyped, HasFields
<1>11. new.summary = {Summary(new.findings, d) : d \in {s.duplicates : s \in new.summary}}
  <2>1. {s.duplicates : s \in new.summary} = {duplicates}
    BY <1>7, <1>8, ZenonT(30)
  <2>2. {Summary(new.findings, d) : d \in {duplicates}} = {Summary(findings, duplicates)}
    BY <1>8
  <2> QED
    BY <1>8, <2>1, <2>2 DEF counts
<1>12. Revised(new, m, i)
  BY <1>2, <1>4, <1>8, <1>10, <1>11 DEF Revised
<1> QED
  BY <1>2, <1>6, <1>8, <1>12 DEF edited, findings

\* The validation phase follows from whether a finding is pending.
LEMMA RevisedPhase ==
  ASSUME NEW m, ManifestTyped(m), NEW i \in DOMAIN m.findings, NEW counted, Revised(counted, m, i),
         NEW v
  PROVE  LET new == [counted EXCEPT !.validation = v] IN
         Revised(new, m, i) /\ new.findings = counted.findings /\ new.validation = v
<1> DEFINE new == [counted EXCEPT !.validation = v]
<1>1. ManifestTyped(counted) /\ HasFields(counted, {"contract", "run", "target", "status", "ended",
        "report", "graph", "findings", "validation", "abstentions", "summary"})
  BY DEF Revised, ManifestTyped
<1>2. /\ DOMAIN new = DOMAIN counted /\ new = [x \in DOMAIN new |-> new[x]] /\ new.validation = v
      /\ \A x \in DOMAIN counted \ {"validation"} : new[x] = counted[x]
  BY <1>1 DEF HasFields
<1> HIDE DEF new
<1>3. /\ new.findings = counted.findings /\ new.summary = counted.summary
      /\ \A x \in {"contract", "run", "target", "status", "ended", "report", "graph", "abstentions"} :
           new[x] = counted[x]
  BY <1>1, <1>2 DEF HasFields
<1>4. ManifestTyped(new)
  BY <1>1, <1>2, <1>3 DEF ManifestTyped, HasFields
<1>5. Revised(new, m, i)
  BY <1>3, <1>4 DEF Revised
<1> QED
  BY <1>2, <1>3, <1>5 DEF new

\* A revised manifest is valid if its new review, answer and phase are.
LEMMA RevisedIsValid ==
  ASSUME NEW m, ManifestTyped(m), ManifestValid(m), NEW i \in DOMAIN m.findings,
         NEW new, Revised(new, m, i), ReviewValid(new.findings[i].review),
         AiValid(new.findings[i].ai), PhasesValid(new)
  PROVE  ManifestValid(new)
<1>1. /\ new.contract = m.contract /\ new.status = m.status /\ new.ended = m.ended
      /\ new.graph = m.graph /\ new.abstentions = m.abstentions
      /\ DOMAIN new.findings = DOMAIN m.findings
  BY DEF Revised
<1>2. ASSUME NEW j \in DOMAIN m.findings
      PROVE  LET f == m.findings[j] g == new.findings[j] IN
             /\ g.id = f.id /\ g.at = f.at /\ g.path = f.path /\ g.verification = f.verification
             /\ g.evidence = f.evidence /\ g.disposition = f.disposition /\ g.reason = f.reason
  BY DEF Revised
<1>3. LegacyShape(new)
  BY <1>1, <1>2 DEF LegacyShape, ManifestValid
<1>4. ASSUME NEW j \in DOMAIN m.findings PROVE FindingValid(new.findings[j])
  <2>1. FindingValid(m.findings[j])
    BY DEF ManifestValid
  <2>2. CASE j = i
    BY <1>2, <2>1, <2>2 DEF FindingValid, CalibrationValid
  <2>3. CASE j # i
    BY <2>1, <2>3 DEF Revised
  <2> QED
    BY <2>2, <2>3
<1>5. UniqueIds(new.findings)
  BY <1>1, <1>2 DEF ManifestValid, UniqueIds
<1>6. \A s \in new.summary : SummaryValid(s, new.findings)
  <2> SUFFICES ASSUME NEW s \in new.summary PROVE SummaryValid(s, new.findings)
    OBVIOUS
  <2>1. PICK d : s = Summary(new.findings, d)
    BY DEF Revised
  <2>2. s.duplicates = d
    BY <2>1 DEF Summary
  <2> QED
    BY <2>1, <2>2 DEF SummaryValid
<1> QED
  BY <1>1, <1>3, <1>4, <1>5, <1>6 DEF ManifestValid

\* Some of the first n numbers are at most n, none only if there are none, and n only if
\* they are all.
LEMMA SomeOf ==
  ASSUME NEW n \in Nat, NEW S \in SUBSET (1..n)
  PROVE  /\ Cardinality(S) \in Nat /\ Cardinality(S) <= n
         /\ (Cardinality(S) = 0) <=> (S = {})
         /\ Cardinality(S) = n => S = 1..n
<1>1. IsFiniteSet(1..n) /\ Cardinality(1..n) = n
  BY FS_Interval
<1>2. IsFiniteSet(S) /\ Cardinality(S) <= n /\ (Cardinality(S) = n => S = 1..n)
  BY <1>1, FS_Subset
<1>3. Cardinality(S) \in Nat
  BY <1>2, FS_CardinalityType
<1> QED
  BY <1>2, <1>3, FS_EmptySet

\* A decision is recorded in one finding, and the phase says what is left.
LEMMA DecideRevises ==
  ASSUME NEW m, ManifestTyped(m), NEW i \in DOMAIN m.findings, NEW d \in Decisions, NEW r
  PROVE  LET new == Decide(m, i, d, r) IN
         /\ Revised(new, m, i)
         /\ new.findings[i].review = [decision |-> d, reviewer |-> r]
         /\ new.findings[i].ai = m.findings[i].ai
         /\ new.validation = IF \E j \in DOMAIN new.findings : new.findings[j].review.decision = "pending"
                             THEN "partial" ELSE "completed"
<1> DEFINE review == [decision |-> d, reviewer |-> r]
           f == [m.findings[i] EXCEPT !.review = review]
           edited == [m EXCEPT !.findings = [m.findings EXCEPT ![i] = f]]
           counted == Recounted(edited)
           pending == \E j \in DOMAIN counted.findings : counted.findings[j].review.decision = "pending"
           v == IF pending THEN "partial" ELSE "completed"
           new == [counted EXCEPT !.validation = v]
<1>1. new = Decide(m, i, d, r)
  BY DEF Decide
<1>2. FindingTyped(m.findings[i])
  BY DEF ManifestTyped
<1>3. /\ f.review = review /\ f.ai = m.findings[i].ai
      /\ HasFields(f, {"id", "at", "path", "verification", "evidence", "disposition", "reason",
                       "review", "ai"})
      /\ \A x \in {"id", "at", "path", "verification", "evidence", "disposition", "reason"} :
           f[x] = m.findings[i][x]
  BY <1>2 DEF FindingTyped, HasFields
<1> HIDE DEF f
<1>4. FindingTyped(f)
  BY <1>2, <1>3 DEF FindingTyped
<1>5. Revised(counted, m, i) /\ counted.findings[i] = f
  BY <1>3, <1>4, RecountRevises
<1> HIDE DEF counted
<1>6. Revised(new, m, i) /\ new.findings = counted.findings /\ new.validation = v
  BY <1>5, RevisedPhase
<1> HIDE DEF new
<1>7. new.findings[i].review = review /\ new.findings[i].ai = m.findings[i].ai
  BY <1>3, <1>5, <1>6
<1>8. new.validation = IF \E j \in DOMAIN new.findings : new.findings[j].review.decision = "pending"
                       THEN "partial" ELSE "completed"
  BY <1>6
<1> QED
  BY <1>1, <1>6, <1>7, <1>8

\* A pending finding of a valid manifest can be decided, whatever the others are
\* (review-run: the phase it writes is one that Phases::validate takes).
LEMMA PendingCanBeDecided ==
  ASSUME NEW m, ManifestTyped(m), ManifestValid(m), NEW i \in DOMAIN m.findings,
         NEW d \in Decisions, NEW r, r # Nobody
  PROVE  ManifestValid(Decide(m, i, d, r))
<1> DEFINE new == Decide(m, i, d, r)
           open == {j \in DOMAIN new.findings : new.findings[j].review.decision = "pending"}
<1>1. /\ Revised(new, m, i)
      /\ new.findings[i].review = [decision |-> d, reviewer |-> r]
      /\ new.findings[i].ai = m.findings[i].ai
      /\ new.validation = IF \E j \in DOMAIN new.findings : new.findings[j].review.decision = "pending"
                          THEN "partial" ELSE "completed"
  BY DecideRevises
<1> HIDE DEF new
<1>2. d # "pending"
  BY DEF Decisions
<1>3. ReviewValid(new.findings[i].review)
  BY <1>1, <1>2 DEF ReviewValid
<1>4. AiValid(new.findings[i].ai)
  BY <1>1 DEF ManifestValid, FindingValid
<1>5. /\ Len(new.findings) \in Nat /\ DOMAIN new.findings = 1..Len(new.findings)
      /\ i \in 1..Len(new.findings)
  BY <1>1, ListHas DEF Revised, ManifestTyped
<1>6. open \subseteq 1..Len(new.findings) /\ i \notin open
  BY <1>1, <1>2, <1>5
<1>7. new.validation = IF open # {} THEN "partial" ELSE "completed"
  BY <1>1
<1>8. /\ Cardinality(open) \in Nat /\ Cardinality(open) # Len(new.findings)
      /\ (Cardinality(open) = 0) <=> (open = {})
  BY <1>5, <1>6, SomeOf
<1>9. Counting(new.findings, LAMBDA f : f.review.decision = "pending") = Cardinality(open)
  BY DEF Counting
<1>10. PhasesValid(new)
  BY <1>5, <1>7, <1>8, <1>9 DEF PhasesValid
<1>11. ManifestValid(new)
  BY <1>1, <1>3, <1>4, <1>10, RevisedIsValid
<1> QED
  BY <1>11 DEF new

\* An answer is recorded in one finding.
LEMMA AnsweredRevises ==
  ASSUME NEW m, ManifestTyped(m), NEW i \in DOMAIN m.findings, NEW request, NEW tokens
  PROVE  LET new == Answered(m, i, request, tokens) IN
         Revised(new, m, i) /\ new.findings[i].review = m.findings[i].review
<1> DEFINE answer == [status |-> "completed", request |-> {request}, tokens |-> tokens]
           f == [m.findings[i] EXCEPT !.ai = answer]
           new == Recounted([m EXCEPT !.findings = [m.findings EXCEPT ![i] = f]])
<1>1. new = Answered(m, i, request, tokens)
  BY DEF Answered
<1>2. FindingTyped(m.findings[i])
  BY DEF ManifestTyped
<1>3. /\ f.review = m.findings[i].review /\ f.ai = answer
      /\ HasFields(f, {"id", "at", "path", "verification", "evidence", "disposition", "reason",
                       "review", "ai"})
      /\ \A x \in {"id", "at", "path", "verification", "evidence", "disposition", "reason"} :
           f[x] = m.findings[i][x]
  BY <1>2 DEF FindingTyped, HasFields
<1> HIDE DEF f
<1>4. FindingTyped(f)
  BY <1>2, <1>3 DEF FindingTyped
<1>5. Revised(new, m, i) /\ new.findings[i] = f
  BY <1>3, <1>4, RecountRevises
<1> HIDE DEF new
<1> QED
  BY <1>1, <1>3, <1>5

\* A revised manifest tells the same findings.
LEMMA RevisedFollows ==
  ASSUME NEW m, ManifestTyped(m), NEW i \in DOMAIN m.findings, NEW new, Revised(new, m, i),
         \/ m.findings[i].review.decision = "pending" /\ new.findings[i].ai = m.findings[i].ai
         \/ m.findings[i].ai.status = "not_requested" /\ new.findings[i].review = m.findings[i].review
  PROVE  Follows(new, m)
<1>1. /\ new.run = m.run /\ new.target = m.target /\ DOMAIN new.findings = DOMAIN m.findings
      /\ \A j \in DOMAIN m.findings \ {i} : new.findings[j] = m.findings[j]
  BY DEF Revised
<1>2. \A j \in DOMAIN m.findings : new.findings[j].id = m.findings[j].id
  BY DEF Revised
<1>3. [j \in DOMAIN new.findings |-> new.findings[j].id] =
        [j \in DOMAIN m.findings |-> m.findings[j].id]
  BY <1>1, <1>2
<1> QED
  BY <1>1, <1>3 DEF Follows

(***************************************************************************)
(* Cases.                                                                  *)
(***************************************************************************)

CaseTyped(c) ==
  /\ HasFields(c, {"target", "sources", "evidence", "candidates", "stages", "decisions"})
  /\ IsList(c.sources) /\ IsList(c.evidence) /\ IsList(c.candidates)
  /\ IsList(c.stages) /\ IsList(c.decisions)

\* Every list is a prefix of itself and of what is put after it.
LEMMA PrefixOfConcat ==
  ASSUME NEW s, IsList(s), NEW t, IsList(t)
  PROVE  IsList(s \o t) /\ IsPrefix(s, s \o t) /\ IsPrefix(s, s)
<1> DEFINE T == ToSet(s) \cup ToSet(t)
           u == s \o t
<1>1. s \in Seq(T) /\ t \in Seq(T)
  BY SeqMonotonic DEF IsList
<1>2. /\ u \in Seq(T) /\ Len(u) = Len(s) + Len(t)
      /\ \A i \in 1..Len(s) + Len(t) : u[i] = IF i <= Len(s) THEN s[i] ELSE t[i - Len(s)]
  BY <1>1, ConcatProperties
<1> HIDE DEF u
<1>3. Len(s) \in Nat /\ Len(t) \in Nat
  BY ListHas
<1>4. u = [i \in 1..Len(u) |-> u[i]] /\ Len(u) \in Nat
  BY <1>2, LenProperties
<1>5. IsList(u)
  BY <1>4, ListOf
<1>6. \A i \in 1..Len(s) : u[i] = s[i]
  BY <1>2, <1>3
<1>7. Len(s) <= Len(u) /\ Len(s) <= Len(s)
  BY <1>2, <1>3
<1>8. IsPrefix(s, u) /\ IsPrefix(s, s)
  BY <1>5, <1>6, <1>7, PrefixWhenRepeated
<1> QED
  BY <1>5, <1>8 DEF u

\* A source adds itself, its document and its candidates to a case.
LEMMA WithSourceFollows ==
  ASSUME NEW c, CaseTyped(c), NEW kind, NEW source, NEW document, NEW names, IsList(names)
  PROVE  LET new == WithSource(c, kind, source, document, names) IN
         /\ CaseTyped(new) /\ CaseFollows(new, c)
         /\ new.decisions = c.decisions /\ new.stages = c.stages
         /\ Len(new.sources) = Len(c.sources) + 1
<1> DEFINE sources == Append(c.sources, [id |-> source, kind |-> kind])
           evidence == Append(c.evidence, [id |-> document, source |-> source])
           added == [i \in DOMAIN names |-> [id |-> <<source, names[i]>>, source |-> source,
                                             evidence |-> document, class |-> ClassOf[kind]]]
           candidates == c.candidates \o added
           new == WithSource(c, kind, source, document, names)
<1>1. /\ DOMAIN new = DOMAIN c /\ new = [x \in DOMAIN new |-> new[x]]
      /\ new.sources = sources /\ new.evidence = evidence /\ new.candidates = candidates
      /\ \A x \in DOMAIN c \ {"sources", "evidence", "candidates"} : new[x] = c[x]
  BY DEF WithSource, CaseTyped, HasFields
<1> HIDE DEF new
<1>2. IsList(added)
  <2>1. Len(names) \in Nat /\ DOMAIN names = 1..Len(names)
    BY ListHas
  <2> QED
    BY <2>1, ListOf
<1> HIDE DEF added
<1>3. /\ IsList(sources) /\ IsPrefix(c.sources, sources) /\ Len(sources) = Len(c.sources) + 1
      /\ IsList(evidence)
  BY AppendHas DEF CaseTyped
<1>4. IsList(candidates) /\ IsPrefix(c.candidates, candidates)
  BY <1>2, PrefixOfConcat DEF CaseTyped
<1> HIDE DEF sources, evidence, candidates
<1>5. IsPrefix(c.stages, c.stages) /\ IsPrefix(c.decisions, c.decisions)
  BY PrefixOfConcat DEF CaseTyped
<1>6. new.stages = c.stages /\ new.decisions = c.decisions /\ new.target = c.target
  BY <1>1 DEF CaseTyped, HasFields
<1>7. CaseTyped(new)
  BY <1>1, <1>3, <1>4, <1>6 DEF CaseTyped, HasFields
<1>8. Len(c.sources) \in Nat /\ Len(c.stages) \in Nat /\ Len(c.decisions) \in Nat
  BY ListHas DEF CaseTyped
<1>9. CaseFollows(new, c)
  BY <1>1, <1>3, <1>4, <1>5, <1>6, <1>8 DEF CaseFollows
<1> QED
  BY <1>1, <1>3, <1>6, <1>7, <1>9 DEF new

\* A decision adds itself to a case.
LEMMA WithDecisionFollows ==
  ASSUME NEW c, CaseTyped(c), NEW id, NEW decision, NEW reviewer
  PROVE  LET new == WithDecision(c, id, decision, reviewer) IN CaseTyped(new) /\ CaseFollows(new, c)
<1> DEFINE decisions == Append(c.decisions, [candidate |-> id, decision |-> decision, reviewer |-> reviewer])
           new == WithDecision(c, id, decision, reviewer)
<1>1. /\ DOMAIN new = DOMAIN c /\ new = [x \in DOMAIN new |-> new[x]] /\ new.decisions = decisions
      /\ \A x \in DOMAIN c \ {"decisions"} : new[x] = c[x]
  BY DEF WithDecision, CaseTyped, HasFields
<1> HIDE DEF new
<1>2. IsList(decisions) /\ IsPrefix(c.decisions, decisions) /\ Len(decisions) = Len(c.decisions) + 1
  BY AppendHas DEF CaseTyped
<1> HIDE DEF decisions
<1>3. new.sources = c.sources /\ new.evidence = c.evidence /\ new.candidates = c.candidates
      /\ new.stages = c.stages
  BY <1>1 DEF CaseTyped, HasFields
<1>4. CaseTyped(new)
  BY <1>1, <1>2, <1>3 DEF CaseTyped, HasFields
<1>5. IsPrefix(c.sources, c.sources) /\ IsPrefix(c.candidates, c.candidates) /\ IsPrefix(c.stages, c.stages)
  BY PrefixOfConcat DEF CaseTyped
<1>6. Len(c.sources) \in Nat /\ Len(c.stages) \in Nat /\ Len(c.decisions) \in Nat
  BY ListHas DEF CaseTyped
<1>7. CaseFollows(new, c)
  BY <1>1, <1>2, <1>3, <1>5, <1>6 DEF CaseFollows
<1> QED
  BY <1>4, <1>7 DEF new

\* A recommendation adds itself to a case and leaves its decisions alone.
LEMMA WithStageFollows ==
  ASSUME NEW c, CaseTyped(c), NEW id, NEW recommendation
  PROVE  LET new == WithStage(c, id, recommendation) IN
         CaseTyped(new) /\ CaseFollows(new, c) /\ new.decisions = c.decisions
<1> DEFINE stages == Append(c.stages, [candidate |-> id, recommendation |-> recommendation])
           new == WithStage(c, id, recommendation)
<1>1. /\ DOMAIN new = DOMAIN c /\ new = [x \in DOMAIN new |-> new[x]] /\ new.stages = stages
      /\ \A x \in DOMAIN c \ {"stages"} : new[x] = c[x]
  BY DEF WithStage, CaseTyped, HasFields
<1> HIDE DEF new
<1>2. IsList(stages) /\ IsPrefix(c.stages, stages) /\ Len(stages) = Len(c.stages) + 1
  BY AppendHas DEF CaseTyped
<1> HIDE DEF stages
<1>3. new.sources = c.sources /\ new.evidence = c.evidence /\ new.candidates = c.candidates
      /\ new.decisions = c.decisions
  BY <1>1 DEF CaseTyped, HasFields
<1>4. CaseTyped(new)
  BY <1>1, <1>2, <1>3 DEF CaseTyped, HasFields
<1>5. IsPrefix(c.sources, c.sources) /\ IsPrefix(c.candidates, c.candidates)
      /\ IsPrefix(c.decisions, c.decisions)
  BY PrefixOfConcat DEF CaseTyped
<1>6. Len(c.sources) \in Nat /\ Len(c.stages) \in Nat /\ Len(c.decisions) \in Nat
  BY ListHas DEF CaseTyped
<1>7. CaseFollows(new, c)
  BY <1>1, <1>2, <1>3, <1>5, <1>6 DEF CaseFollows
<1> QED
  BY <1>3, <1>4, <1>7 DEF new

\* A case made of a run has one source, no decision and no recommendation.
LEMMA CaseFromRunTyped ==
  ASSUME NEW m, ManifestTyped(m)
  PROVE  LET new == CaseFromRun(m) IN
         CaseTyped(new) /\ new.decisions = <<>> /\ new.stages = <<>> /\ Len(new.sources) = 1
<1> DEFINE base == [target |-> m.target, sources |-> <<>>, evidence |-> <<>>,
                    candidates |-> <<>>, stages |-> <<>>, decisions |-> <<>>]
           names == [i \in DOMAIN m.findings |-> m.findings[i].id]
<1>1. IsList(<<>>) /\ Len(<<>>) = 0
  BY EmptySeq DEF IsList
<1>2. CaseTyped(base) /\ base.sources = <<>> /\ base.decisions = <<>> /\ base.stages = <<>>
  BY <1>1 DEF CaseTyped, HasFields
<1>3. IsList(names)
  <2>1. Len(m.findings) \in Nat /\ DOMAIN m.findings = 1..Len(m.findings)
    BY ListHas DEF ManifestTyped
  <2> QED
    BY <2>1, ListOf
<1>4. CaseFromRun(m) = WithSource(base, "engine", <<"engine", m.report>>, <<"run", m>>, names)
  BY DEF CaseFromRun
<1> HIDE DEF base, names
<1> DEFINE new == WithSource(base, "engine", <<"engine", m.report>>, <<"run", m>>, names)
<1>5. /\ CaseTyped(new) /\ CaseFollows(new, base)
      /\ new.decisions = base.decisions /\ new.stages = base.stages
      /\ Len(new.sources) = Len(base.sources) + 1
  <2>1. CaseTyped(base)
    BY <1>2
  <2> QED
    BY <1>3, <2>1, WithSourceFollows
<1> HIDE DEF new
<1>6. CaseTyped(new) /\ new.decisions = <<>> /\ new.stages = <<>> /\ Len(new.sources) = 1
  BY <1>1, <1>2, <1>5
<1> QED
  BY <1>4, <1>6 DEF new

(***************************************************************************)
(* The inductive invariant.                                                *)
(***************************************************************************)

\* Paths, importers and agents have a value each.
Assigned ==
  /\ runs = [p \in RunPaths |-> runs[p]] /\ cases = [p \in CasePaths |-> cases[p]]
  /\ importer = [i \in Importers |-> importer[i]]
  /\ agent = [a \in Agents |-> agent[a]]

RunsUsable == \A p \in RunPaths : \A m \in runs[p] : ManifestTyped(m) /\ ManifestValid(m)
CasesUsable == \A p \in CasePaths : \A c \in cases[p] : CaseTyped(c) /\ CaseValid(c)

\* A ledger that parses and has what was reviewed in the manifests.
Keeps(l, manifests) ==
  /\ IsList(l) /\ LedgerParses(l)
  /\ \A m \in manifests : \A f \in Reviewed(m) : RecordId(m, f) \in Ids(l)

\* What an importer will write keeps what was imported when it read, and its own.
ImportersKeep ==
  \A i \in Importers : importer[i].at = "read" => Keeps(importer[i].output, importer[i].kept)

\* A server holds a case that commands take; what it is about to link adds one stage.
AgentFollows(g) ==
  /\ g = [memory |-> g.memory, staged |-> g.staged, output |-> g.output]
  /\ \A c \in g.memory : CaseTyped(c) /\ CaseValid(c)
  /\ \A s \in g.staged :
       /\ CaseTyped(s.document) /\ CaseValid(s.document)
       /\ CaseFollows(s.document, s.of) /\ s.document.decisions = s.of.decisions

DeskInv ==
  Assigned /\ RunsUsable /\ CasesUsable /\ Keeps(ledger, settled) /\ ImportersKeep
  /\ \A a \in Agents : AgentFollows(agent[a])

\* The invariant at the start: the manifests and the ledger are as assumed.
LEMMA DeskInit == Init => DeskInv
<1> SUFFICES ASSUME Init PROVE DeskInv
  OBVIOUS
<1>1. PICK scans \in Scans : runs \in [RunPaths -> {{}} \cup {{m} : m \in ToSet(scans)}]
  BY DEF Init
<1>2. /\ cases = [c \in CasePaths |-> {}] /\ ledger = FirstLedger /\ settled = {}
      /\ importer = [i \in Importers |-> NoJob]
      /\ agent = [a \in Agents |-> [memory |-> {}, staged |-> {}, output |-> {}]]
  BY DEF Init
<1>3. RunsUsable
  <2> SUFFICES ASSUME NEW p \in RunPaths, NEW m \in runs[p] PROVE m \in ToSet(scans)
    BY ReviewAssumption DEF RunsUsable
  <2> QED
    BY <1>1
<1>4. Assigned
  BY <1>1, <1>2 DEF Assigned
<1>5. CasesUsable /\ \A a \in Agents : AgentFollows(agent[a])
  BY <1>2 DEF CasesUsable, AgentFollows
<1>6. Keeps(ledger, settled)
  BY <1>2, ReviewAssumption DEF Keeps
<1>7. ImportersKeep
  BY <1>2 DEF ImportersKeep, NoJob
<1> QED
  BY <1>3, <1>4, <1>5, <1>6, <1>7 DEF DeskInv

\* A run that a command writes follows one that was there.
LEMMA PeopleFollow ==
  ASSUME DeskInv, People
  PROVE  \/ runs' = runs
         \/ \E from, to \in RunPaths : \E old \in runs[from] : \E new :
              /\ runs' = [runs EXCEPT ![to] = {new}]
              /\ ManifestTyped(new) /\ ManifestValid(new) /\ Follows(new, old)
<1>1. PICK from \in RunPaths, to \in RunPaths : \E m \in runs[from] : \E i \in DOMAIN m.findings :
        \/ \E d \in Verdicts, r \in Reviewers : ReviewRun(from, to, m, i, d, r)
        \/ AiPrepare(from, m, i)
        \/ \E q \in requests, t \in Tokens : AiApplyResponse(from, to, m, i, q, t)
  BY DEF People
<1>2. PICK m \in runs[from] : \E i \in DOMAIN m.findings :
        \/ \E d \in Verdicts, r \in Reviewers : ReviewRun(from, to, m, i, d, r)
        \/ AiPrepare(from, m, i)
        \/ \E q \in requests, t \in Tokens : AiApplyResponse(from, to, m, i, q, t)
  BY <1>1
<1>3. PICK i \in DOMAIN m.findings :
        \/ \E d \in Verdicts, r \in Reviewers : ReviewRun(from, to, m, i, d, r)
        \/ AiPrepare(from, m, i)
        \/ \E q \in requests, t \in Tokens : AiApplyResponse(from, to, m, i, q, t)
  BY <1>2
<1>4. ManifestTyped(m) /\ ManifestValid(m)
  BY DEF DeskInv, RunsUsable
<1>5. ASSUME NEW d \in Verdicts, NEW r \in Reviewers, ReviewRun(from, to, m, i, d, r)
      PROVE  \E new : /\ runs' = [runs EXCEPT ![to] = {new}]
                      /\ ManifestTyped(new) /\ ManifestValid(new) /\ Follows(new, m)
  <2> DEFINE new == Decide(m, i, d, r)
  <2>1. d \in Decisions
    BY ReviewAssumption
  <2>2. m.findings[i].review.decision = "pending" /\ ManifestValid(new)
        /\ runs' = [runs EXCEPT ![to] = {new}]
    BY <1>5 DEF ReviewRun, MayReview, WriteRun
  <2>3. /\ Revised(new, m, i)
        /\ new.findings[i].review = [decision |-> d, reviewer |-> r]
        /\ new.findings[i].ai = m.findings[i].ai
        /\ new.validation = IF \E j \in DOMAIN new.findings : new.findings[j].review.decision = "pending"
                            THEN "partial" ELSE "completed"
    BY <1>4, <2>1, DecideRevises
  <2> HIDE DEF new
  <2>4. Follows(new, m)
    BY <1>4, <2>2, <2>3, RevisedFollows
  <2> QED
    BY <2>2, <2>3, <2>4 DEF Revised
<1>6. ASSUME NEW q \in requests, NEW t \in Tokens, AiApplyResponse(from, to, m, i, q, t)
      PROVE  \E new : /\ runs' = [runs EXCEPT ![to] = {new}]
                      /\ ManifestTyped(new) /\ ManifestValid(new) /\ Follows(new, m)
  <2> DEFINE new == Answered(m, i, q, t)
  <2>1. m.findings[i].ai.status = "not_requested" /\ ManifestValid(new)
        /\ runs' = [runs EXCEPT ![to] = {new}]
    BY <1>6 DEF AiApplyResponse, WriteRun
  <2>2. Revised(new, m, i) /\ new.findings[i].review = m.findings[i].review
    BY <1>4, AnsweredRevises
  <2> HIDE DEF new
  <2>3. Follows(new, m)
    BY <1>4, <2>1, <2>2, RevisedFollows
  <2> QED
    BY <2>1, <2>2, <2>3 DEF Revised
<1>7. CASE AiPrepare(from, m, i)
  BY <1>7 DEF AiPrepare
<1> QED
  BY <1>3, <1>5, <1>6, <1>7

\* A case that a person writes starts from a run or follows one that was there.
LEMMA CaseWorkFollows ==
  ASSUME DeskInv, CaseWork
  PROVE  \E to \in CasePaths : \E new :
           /\ cases' = [cases EXCEPT ![to] = {new}]
           /\ CaseTyped(new) /\ CaseValid(new)
           /\ \/ new.decisions = <<>> /\ new.stages = <<>> /\ Len(new.sources) = 1
              \/ \E q \in CasePaths : \E old \in cases[q] : CaseFollows(new, old)
<1>1. ASSUME NEW from \in RunPaths, NEW to \in CasePaths, NEW m \in runs[from], CaseCreate(from, m, to)
      PROVE  \E new : /\ cases' = [cases EXCEPT ![to] = {new}]
                      /\ CaseTyped(new) /\ CaseValid(new)
                      /\ new.decisions = <<>> /\ new.stages = <<>> /\ Len(new.sources) = 1
  <2> DEFINE new == CaseFromRun(m)
  <2>1. cases' = [cases EXCEPT ![to] = {new}] /\ CaseValid(new)
    BY <1>1 DEF CaseCreate, WriteCase
  <2>2. ManifestTyped(m)
    BY DEF DeskInv, RunsUsable
  <2>3. CaseTyped(new) /\ new.decisions = <<>> /\ new.stages = <<>> /\ Len(new.sources) = 1
    BY <2>2, CaseFromRunTyped
  <2> HIDE DEF new
  <2> QED
    BY <2>1, <2>3
<1>2. ASSUME NEW from \in CasePaths, NEW to \in CasePaths, NEW c \in cases[from],
             NEW new, DeriveCase(from, to, new), CaseTyped(new), CaseFollows(new, c)
      PROVE  \E d : /\ cases' = [cases EXCEPT ![to] = {d}]
                    /\ CaseTyped(d) /\ CaseValid(d) /\ CaseFollows(d, c)
  BY <1>2 DEF DeriveCase, WriteCase
<1>3. ASSUME NEW c, CaseTyped(c), NEW e \in Envelopes
      PROVE  CaseTyped(WithReview(c, e)) /\ CaseFollows(WithReview(c, e), c)
  <2>1. IsList(e.findings)
    BY ReviewAssumption
  <2> DEFINE new == WithSource(c, "skill", <<"skill", e.id>>, <<"skill", e.id>>, e.findings)
  <2>2. /\ CaseTyped(new) /\ CaseFollows(new, c)
        /\ new.decisions = c.decisions /\ new.stages = c.stages
        /\ Len(new.sources) = Len(c.sources) + 1
    BY <1>3, <2>1, WithSourceFollows
  <2> QED
    BY <2>2 DEF WithReview
<1>4. ASSUME NEW c, CaseTyped(c), NEW s \in Sarifs
      PROVE  CaseTyped(WithSarif(c, s)) /\ CaseFollows(WithSarif(c, s), c)
  <2> DEFINE names == [i \in DOMAIN s.results |-> <<i - 1, s.results[i]>>]
             new == WithSource(c, "sarif", <<"sarif", s.id>>, <<"sarif", s.id>>, names)
  <2>1. Len(s.results) \in Nat /\ DOMAIN s.results = 1..Len(s.results)
    BY ListHas, ReviewAssumption
  <2>2. IsList(names)
    BY <2>1, ListOf
  <2> HIDE DEF names
  <2>3. /\ CaseTyped(new) /\ CaseFollows(new, c)
        /\ new.decisions = c.decisions /\ new.stages = c.stages
        /\ Len(new.sources) = Len(c.sources) + 1
    BY <1>4, <2>2, WithSourceFollows
  <2> QED
    BY <2>3 DEF WithSarif, names
<1>5. ASSUME NEW from \in CasePaths, NEW to \in CasePaths, NEW c \in cases[from],
             \/ \E e \in Envelopes : CaseImportSecureReview(from, to, c, e)
             \/ \E s \in Sarifs : CaseImportSarif(from, to, c, s)
             \/ \E id \in Candidates(c), d \in Verdicts, r \in Reviewers :
                  CaseDecide(from, to, c, id, d, r)
      PROVE  \E d : /\ cases' = [cases EXCEPT ![to] = {d}]
                    /\ CaseTyped(d) /\ CaseValid(d) /\ CaseFollows(d, c)
  <2>1. CaseTyped(c)
    BY DEF DeskInv, CasesUsable
  <2>2. ASSUME NEW e \in Envelopes, CaseImportSecureReview(from, to, c, e)
        PROVE  \E d : /\ cases' = [cases EXCEPT ![to] = {d}]
                      /\ CaseTyped(d) /\ CaseValid(d) /\ CaseFollows(d, c)
    <3>1. DeriveCase(from, to, WithReview(c, e))
      BY <2>2 DEF CaseImportSecureReview
    <3> QED
      BY <1>2, <1>3, <2>1, <3>1
  <2>3. ASSUME NEW s \in Sarifs, CaseImportSarif(from, to, c, s)
        PROVE  \E d : /\ cases' = [cases EXCEPT ![to] = {d}]
                      /\ CaseTyped(d) /\ CaseValid(d) /\ CaseFollows(d, c)
    <3>1. DeriveCase(from, to, WithSarif(c, s))
      BY <2>3 DEF CaseImportSarif
    <3> QED
      BY <1>2, <1>4, <2>1, <3>1
  <2>4. ASSUME NEW id \in Candidates(c), NEW v \in Verdicts, NEW r \in Reviewers,
               CaseDecide(from, to, c, id, v, r)
        PROVE  \E d : /\ cases' = [cases EXCEPT ![to] = {d}]
                      /\ CaseTyped(d) /\ CaseValid(d) /\ CaseFollows(d, c)
    <3> DEFINE new == WithDecision(c, id, v, r)
    <3>1. DeriveCase(from, to, new)
      BY <2>4 DEF CaseDecide
    <3>2. CaseTyped(new) /\ CaseFollows(new, c)
      BY <2>1, WithDecisionFollows
    <3> HIDE DEF new
    <3> QED
      BY <1>2, <3>1, <3>2
  <2> QED
    BY <1>5, <2>2, <2>3, <2>4
<1>6. CASE \E from \in RunPaths, to \in CasePaths : \E m \in runs[from] : CaseCreate(from, m, to)
  BY <1>1, <1>6
<1>7. CASE \E from, to \in CasePaths : \E c \in cases[from] :
             \/ \E e \in Envelopes : CaseImportSecureReview(from, to, c, e)
             \/ \E s \in Sarifs : CaseImportSarif(from, to, c, s)
             \/ \E id \in Candidates(c), d \in Verdicts, r \in Reviewers :
                  CaseDecide(from, to, c, id, d, r)
  BY <1>5, <1>7
<1> QED
  BY <1>6, <1>7 DEF CaseWork

\* What an agent stages or links follows the case it was staged from.
LEMMA AgentWorkFollows ==
  ASSUME DeskInv, AgentWork
  PROVE  /\ UNCHANGED <<runs, ledger, importer, settled>>
         /\ \E a \in Agents :
              /\ agent' = [b \in Agents |-> agent'[b]]
              /\ \A b \in Agents \ {a} : agent'[b] = agent[b]
              /\ AgentFollows(agent'[a])
              /\ \/ cases' = cases
                 \/ \E s \in agent[a].staged :
                      cases[s.output] = {} /\ cases' = [cases EXCEPT ![s.output] = {s.document}]
<1> DEFINE Done(a) ==
             /\ UNCHANGED <<runs, ledger, importer, settled>>
             /\ agent' = [b \in Agents |-> agent'[b]]
             /\ \A b \in Agents \ {a} : agent'[b] = agent[b]
             /\ AgentFollows(agent'[a])
             /\ \/ cases' = cases
                \/ \E s \in agent[a].staged :
                     cases[s.output] = {} /\ cases' = [cases EXCEPT ![s.output] = {s.document}]
<1>1. PICK a \in Agents :
        \/ \E from, to \in CasePaths : \E c \in cases[from] :
             \/ CaseMcp(a, from, c, to)
             \/ \E id \in Candidates(c), d \in Verdicts : StageOfCall(a, from, c, id, d, to)
        \/ \E c \in agent[a].memory, to \in agent[a].output :
             \E id \in Candidates(c), d \in Verdicts : StageOfSession(a, c, id, d, to)
        \/ StageLink(a)
        \/ AgentEnds(a)
  BY DEF AgentWork
<1>2. agent = [b \in Agents |-> agent[b]] /\ AgentFollows(agent[a])
  BY DEF DeskInv, Assigned
<1>3. ASSUME NEW from \in CasePaths, NEW to \in CasePaths, NEW c \in cases[from], CaseMcp(a, from, c, to)
      PROVE  Done(a)
  <2>1. /\ agent' = [agent EXCEPT ![a].memory = {c}, ![a].output = {to}]
        /\ UNCHANGED <<runs, cases, ledger, importer, settled>>
    BY <1>3 DEF CaseMcp
  <2>2. CaseTyped(c) /\ CaseValid(c)
    BY DEF DeskInv, CasesUsable
  <2>3. agent'[a] = [memory |-> {c}, staged |-> agent[a].staged, output |-> {to}]
    BY <1>2, <2>1 DEF AgentFollows
  <2>4. AgentFollows(agent'[a])
    BY <1>2, <2>2, <2>3 DEF AgentFollows
  <2> QED
    BY <1>2, <2>1, <2>4
<1>4. ASSUME NEW c, CaseTyped(c), NEW to, NEW id, NEW d, Stage(a, c, id, d, to)
      PROVE  Done(a)
  <2> DEFINE document == WithStage(c, id, d)
             staged == [of |-> c, document |-> document, output |-> to]
  <2>1. /\ agent' = [agent EXCEPT ![a].staged = {staged}] /\ CaseValid(document)
        /\ UNCHANGED <<runs, cases, ledger, importer, settled>>
    BY <1>4 DEF Stage
  <2>2. CaseTyped(document) /\ CaseFollows(document, c) /\ document.decisions = c.decisions
    BY <1>4, WithStageFollows
  <2>3. staged.of = c /\ staged.document = document
    OBVIOUS
  <2> HIDE DEF document, staged
  <2>4. agent'[a] = [memory |-> agent[a].memory, staged |-> {staged}, output |-> agent[a].output]
    BY <1>2, <2>1 DEF AgentFollows
  <2>5. \A k \in agent[a].memory : CaseTyped(k) /\ CaseValid(k)
    BY <1>2 DEF AgentFollows
  <2>6. AgentFollows(agent'[a])
    BY <2>1, <2>2, <2>3, <2>4, <2>5 DEF AgentFollows
  <2> QED
    BY <1>2, <2>1, <2>6
<1>5. ASSUME NEW from \in CasePaths, NEW to \in CasePaths, NEW c \in cases[from],
             NEW id \in Candidates(c), NEW d \in Verdicts, StageOfCall(a, from, c, id, d, to)
      PROVE  Done(a)
  <2>1. CaseTyped(c) /\ Stage(a, c, id, d, to)
    BY <1>5 DEF StageOfCall, DeskInv, CasesUsable
  <2> QED
    BY <1>4, <2>1
<1>6. ASSUME NEW c \in agent[a].memory, NEW to \in agent[a].output,
             NEW id \in Candidates(c), NEW d \in Verdicts, StageOfSession(a, c, id, d, to)
      PROVE  Done(a)
  <2>1. CaseTyped(c) /\ Stage(a, c, id, d, to)
    BY <1>2, <1>6 DEF StageOfSession, AgentFollows
  <2> QED
    BY <1>4, <2>1
<1>7. ASSUME StageLink(a) PROVE Done(a)
  <2>1. PICK s \in agent[a].staged :
          /\ cases' = IF Links(s.output) THEN [cases EXCEPT ![s.output] = {s.document}] ELSE cases
          /\ agent' = [agent EXCEPT ![a].staged = {},
                                    ![a].memory = IF @ # {} /\ Links(s.output) THEN {s.document} ELSE @]
          /\ UNCHANGED <<runs, ledger, importer, settled>>
    BY <1>7 DEF StageLink
  <2> DEFINE memory == IF agent[a].memory # {} /\ Links(s.output) THEN {s.document} ELSE agent[a].memory
  <2>2. agent'[a] = [memory |-> memory, staged |-> {}, output |-> agent[a].output]
    BY <1>2, <2>1 DEF AgentFollows
  <2>3. \A c \in memory : CaseTyped(c) /\ CaseValid(c)
    BY <1>2 DEF AgentFollows
  <2> HIDE DEF memory
  <2>4. AgentFollows(agent'[a])
    BY <2>2, <2>3 DEF AgentFollows
  <2>5. \/ cases' = cases
        \/ cases[s.output] = {} /\ cases' = [cases EXCEPT ![s.output] = {s.document}]
    BY <2>1 DEF Links
  <2> QED
    BY <1>2, <2>1, <2>4, <2>5
<1>8. ASSUME AgentEnds(a) PROVE Done(a)
  <2>1. /\ agent' = [agent EXCEPT ![a].memory = {}, ![a].output = {}]
        /\ UNCHANGED <<runs, cases, ledger, importer, settled>>
    BY <1>8 DEF AgentEnds
  <2>2. agent'[a] = [memory |-> {}, staged |-> agent[a].staged, output |-> {}]
    BY <1>2, <2>1 DEF AgentFollows
  <2>3. AgentFollows(agent'[a])
    BY <1>2, <2>2 DEF AgentFollows
  <2> QED
    BY <1>2, <2>1, <2>3
<1>9. Done(a)
  <2> HIDE DEF Done
  <2>1. CASE \E from, to \in CasePaths : \E c \in cases[from] :
               \/ CaseMcp(a, from, c, to)
               \/ \E id \in Candidates(c), d \in Verdicts : StageOfCall(a, from, c, id, d, to)
    <3>1. PICK from \in CasePaths, to \in CasePaths : \E c \in cases[from] :
             \/ CaseMcp(a, from, c, to)
             \/ \E id \in Candidates(c), d \in Verdicts : StageOfCall(a, from, c, id, d, to)
      BY <2>1
    <3>2. PICK c \in cases[from] :
             \/ CaseMcp(a, from, c, to)
             \/ \E id \in Candidates(c), d \in Verdicts : StageOfCall(a, from, c, id, d, to)
      BY <3>1
    <3> QED
      BY <1>3, <1>5, <3>2
  <2>2. CASE \E c \in agent[a].memory, to \in agent[a].output :
               \E id \in Candidates(c), d \in Verdicts : StageOfSession(a, c, id, d, to)
    BY <1>6, <2>2
  <2> QED
    BY <1>1, <1>7, <1>8, <2>1, <2>2
<1> QED
  BY <1>9

\* What the other kinds of commands leave alone.
LEMMA LeftAlone ==
  /\ People => UNCHANGED <<cases, ledger, importer, agent, settled>>
  /\ Ledgers => UNCHANGED <<runs, cases, agent>>
  /\ CaseWork => UNCHANGED <<runs, ledger, importer, agent, settled>>
<1>1. People => UNCHANGED <<cases, ledger, importer, agent, settled>>
  BY DEF People, ReviewRun, AiPrepare, AiApplyResponse
<1>2. Ledgers => UNCHANGED <<runs, cases, agent>>
  BY DEF Ledgers, ImportSkips, ImportRead, ImportReplace
<1>3. CaseWork => UNCHANGED <<runs, ledger, importer, agent, settled>>
  BY DEF CaseWork, CaseCreate, CaseImportSecureReview, CaseImportSarif, CaseDecide, DeriveCase
<1> QED
  BY <1>1, <1>2, <1>3

\* Whatever importer writes, the ledger keeps what is counted as imported.
LEMMA LedgersKeep ==
  ASSUME DeskInv, Ledgers
  PROVE  importer' = [i \in Importers |-> importer'[i]] /\ Keeps(ledger', settled') /\ ImportersKeep'
<1>1. importer = [i \in Importers |-> importer[i]] /\ Keeps(ledger, settled) /\ ImportersKeep
  BY DEF DeskInv, Assigned
<1>2. ASSUME NEW m, ManifestTyped(m), ManifestValid(m)
      PROVE  Keeps(Imported(ledger, m), settled \cup {m})
  <2>1. /\ IsList(Imported(ledger, m)) /\ LedgerParses(Imported(ledger, m))
        /\ Ids(Imported(ledger, m)) = Ids(ledger) \cup {RecordId(m, f) : f \in Reviewed(m)}
    BY <1>1, <1>2, ImportedParses DEF Keeps
  <2> QED
    BY <1>1, <2>1 DEF Keeps
<1>3. ASSUME NEW i \in Importers, NEW from \in RunPaths, NEW m \in runs[from], ImportSkips(i, from, m)
      PROVE  importer' = importer /\ Keeps(ledger', settled')
  <2>1. /\ Imported(ledger, m) = ledger /\ settled' = settled \cup {m}
        /\ UNCHANGED <<ledger, importer>>
    BY <1>3 DEF ImportSkips
  <2>2. ManifestTyped(m) /\ ManifestValid(m)
    BY DEF DeskInv, RunsUsable
  <2> QED
    BY <1>2, <2>1, <2>2
<1>4. ASSUME NEW i \in Importers, NEW from \in RunPaths, NEW m \in runs[from], ImportRead(i, from, m)
      PROVE  /\ UNCHANGED <<ledger, settled>>
             /\ \E job : importer' = [importer EXCEPT ![i] = job] /\ Keeps(job.output, job.kept)
  <2> DEFINE job == [at |-> "read", output |-> Imported(ledger, m), kept |-> settled \cup {m}]
  <2>1. importer' = [importer EXCEPT ![i] = job] /\ UNCHANGED <<ledger, settled>>
    BY <1>4 DEF ImportRead
  <2>2. ManifestTyped(m) /\ ManifestValid(m)
    BY DEF DeskInv, RunsUsable
  <2>3. job.output = Imported(ledger, m) /\ job.kept = settled \cup {m}
    OBVIOUS
  <2>4. Keeps(job.output, job.kept)
    BY <1>2, <2>2, <2>3
  <2> HIDE DEF job
  <2> QED
    BY <2>1, <2>4
<1>5. ASSUME NEW i \in Importers, ImportReplace(i)
      PROVE  Keeps(ledger', settled') /\ importer' = [importer EXCEPT ![i] = NoJob]
  BY <1>1, <1>5 DEF ImportReplace, ImportersKeep
<1>6. ASSUME NEW i \in Importers, NEW job, importer' = [importer EXCEPT ![i] = job],
             job.at = "read" => Keeps(job.output, job.kept)
      PROVE  importer' = [j \in Importers |-> importer'[j]] /\ ImportersKeep'
  BY <1>1, <1>6 DEF ImportersKeep
<1>7. NoJob.at # "read"
  BY DEF NoJob
<1>8. PICK i \in Importers :
        \/ \E from \in RunPaths : \E m \in runs[from] : ImportSkips(i, from, m) \/ ImportRead(i, from, m)
        \/ ImportReplace(i)
  BY DEF Ledgers
<1>9. CASE \E from \in RunPaths : \E m \in runs[from] : ImportSkips(i, from, m)
  BY <1>1, <1>3, <1>9 DEF ImportersKeep
<1>10. CASE \E from \in RunPaths : \E m \in runs[from] : ImportRead(i, from, m)
  BY <1>1, <1>4, <1>6, <1>10
<1>11. CASE ImportReplace(i)
  BY <1>5, <1>6, <1>7, <1>11
<1> QED
  BY <1>8, <1>9, <1>10, <1>11

\* The invariant survives what people do with runs.
LEMMA PeopleKeepInv == DeskInv /\ People => DeskInv'
<1> SUFFICES ASSUME DeskInv, People PROVE DeskInv'
  OBVIOUS
<1>1. UNCHANGED <<cases, ledger, importer, agent, settled>>
  BY LeftAlone
<1>2. Assigned /\ RunsUsable
  BY DEF DeskInv
<1>3. \/ runs' = runs
      \/ \E from, to \in RunPaths : \E old \in runs[from] : \E new :
           /\ runs' = [runs EXCEPT ![to] = {new}]
           /\ ManifestTyped(new) /\ ManifestValid(new) /\ Follows(new, old)
  BY PeopleFollow
<1>4. Assigned' /\ RunsUsable'
  <2>1. CASE runs' = runs
    BY <1>1, <1>2, <2>1 DEF Assigned, RunsUsable
  <2>2. ASSUME NEW to \in RunPaths, NEW new, runs' = [runs EXCEPT ![to] = {new}],
               ManifestTyped(new), ManifestValid(new)
        PROVE  Assigned' /\ RunsUsable'
    BY <1>1, <1>2, <2>2 DEF Assigned, RunsUsable
  <2> QED
    BY <1>3, <2>1, <2>2
<1>5. CasesUsable' /\ Keeps(ledger', settled') /\ ImportersKeep' /\ \A a \in Agents : AgentFollows(agent'[a])
  BY <1>1 DEF DeskInv, CasesUsable, ImportersKeep
<1> QED
  BY <1>4, <1>5 DEF DeskInv

\* The invariant survives the imports.
LEMMA LedgersKeepInv == DeskInv /\ Ledgers => DeskInv'
<1> SUFFICES ASSUME DeskInv, Ledgers PROVE DeskInv'
  OBVIOUS
<1>1. UNCHANGED <<runs, cases, agent>>
  BY LeftAlone
<1>2. importer' = [i \in Importers |-> importer'[i]] /\ Keeps(ledger', settled') /\ ImportersKeep'
  BY LedgersKeep
<1>3. Assigned' /\ RunsUsable' /\ CasesUsable' /\ \A a \in Agents : AgentFollows(agent'[a])
  BY <1>1, <1>2 DEF DeskInv, Assigned, RunsUsable, CasesUsable
<1> QED
  BY <1>2, <1>3 DEF DeskInv

\* Writing one case that commands take leaves every case one.
LEMMA OneCaseMore ==
  ASSUME CasesUsable, cases = [p \in CasePaths |-> cases[p]], NEW to, NEW d,
         CaseTyped(d), CaseValid(d), cases' = [cases EXCEPT ![to] = {d}]
  PROVE  cases' = [p \in CasePaths |-> cases'[p]] /\ CasesUsable'
BY DEF CasesUsable

\* The invariant survives what people do with cases.
LEMMA CaseWorkKeepsInv == DeskInv /\ CaseWork => DeskInv'
<1> SUFFICES ASSUME DeskInv, CaseWork PROVE DeskInv'
  OBVIOUS
<1>1. UNCHANGED <<runs, ledger, importer, agent, settled>>
  BY LeftAlone
<1>2. Assigned /\ CasesUsable
  BY DEF DeskInv
<1>3. cases' = [p \in CasePaths |-> cases'[p]] /\ CasesUsable'
  BY <1>2, CaseWorkFollows, OneCaseMore DEF Assigned
<1>4. Assigned' /\ RunsUsable' /\ Keeps(ledger', settled') /\ ImportersKeep'
      /\ \A a \in Agents : AgentFollows(agent'[a])
  BY <1>1, <1>3 DEF DeskInv, Assigned, RunsUsable, ImportersKeep
<1> QED
  BY <1>3, <1>4 DEF DeskInv

\* The invariant survives what agents do.
LEMMA AgentWorkKeepsInv == DeskInv /\ AgentWork => DeskInv'
<1> SUFFICES ASSUME DeskInv, AgentWork PROVE DeskInv'
  OBVIOUS
<1>1. Assigned /\ CasesUsable /\ \A a \in Agents : AgentFollows(agent[a])
  BY DEF DeskInv
<1>2. UNCHANGED <<runs, ledger, importer, settled>>
  BY AgentWorkFollows
<1>3. PICK a \in Agents :
        /\ agent' = [b \in Agents |-> agent'[b]]
        /\ \A b \in Agents \ {a} : agent'[b] = agent[b]
        /\ AgentFollows(agent'[a])
        /\ \/ cases' = cases
           \/ \E s \in agent[a].staged :
                cases[s.output] = {} /\ cases' = [cases EXCEPT ![s.output] = {s.document}]
  BY AgentWorkFollows
<1>4. \A b \in Agents : AgentFollows(agent'[b])
  BY <1>1, <1>3
<1>5. cases' = [p \in CasePaths |-> cases'[p]] /\ CasesUsable'
  <2>1. CASE cases' = cases
    BY <1>1, <2>1 DEF Assigned, CasesUsable
  <2>2. ASSUME NEW s \in agent[a].staged, cases' = [cases EXCEPT ![s.output] = {s.document}]
        PROVE  cases' = [p \in CasePaths |-> cases'[p]] /\ CasesUsable'
    <3>1. CaseTyped(s.document) /\ CaseValid(s.document)
      BY <1>1 DEF AgentFollows
    <3> QED
      BY <1>1, <2>2, <3>1, OneCaseMore DEF Assigned
  <2> QED
    BY <1>3, <2>1, <2>2
<1>6. Assigned' /\ RunsUsable' /\ Keeps(ledger', settled') /\ ImportersKeep'
  BY <1>2, <1>3, <1>5 DEF DeskInv, Assigned, RunsUsable, ImportersKeep
<1> QED
  BY <1>4, <1>5, <1>6 DEF DeskInv

\* Every step keeps the invariant.
LEMMA DeskInvStep == DeskInv /\ [Next]_vars => DeskInv'
<1>1. DeskInv /\ UNCHANGED vars => DeskInv'
  BY DEF vars, DeskInv, Assigned, RunsUsable, CasesUsable, ImportersKeep
<1> QED
  BY <1>1, PeopleKeepInv, LedgersKeepInv, CaseWorkKeepsInv, AgentWorkKeepsInv DEF Next

(***************************************************************************)
(* The theorems.                                                           *)
(***************************************************************************)

(***************************************************************************)
(* In every reachable state the runs, cases, ledger, importers and agents  *)
(* are as the invariant says: review-run, ai-apply-response, the case      *)
(* commands, knowledge-import and the MCP servers read, check and replace. *)
(***************************************************************************)
THEOREM DeskInvHolds == Spec => []DeskInv
<1> QED
  BY DeskInit, DeskInvStep, PTL DEF Spec

(***************************************************************************)
(* What a command leaves the next one takes: every manifest on disk is     *)
(* valid and its pending findings can be decided by review-run, every case *)
(* is valid and the ledger parses.                                         *)
(***************************************************************************)
THEOREM WhatIsLeftIsUsable == Spec => []DocumentsAreUsable
<1>1. DeskInv => DocumentsAreUsable
  <2> SUFFICES ASSUME DeskInv PROVE DocumentsAreUsable
    OBVIOUS
  <2>1. /\ \A p \in RunPaths : \A m \in runs[p] : ManifestTyped(m) /\ ManifestValid(m)
        /\ \A p \in CasePaths : \A c \in cases[p] : CaseValid(c)
        /\ LedgerParses(ledger)
    BY DEF DeskInv, RunsUsable, CasesUsable, Keeps
  <2>2. ASSUME NEW p \in RunPaths, NEW m \in runs[p], NEW i \in DOMAIN m.findings,
               MayReview(m.findings[i]), NEW d \in Verdicts, NEW r \in Reviewers
        PROVE  ManifestValid(Decide(m, i, d, r))
    <3>1. m.findings[i].review.decision = "pending" /\ d \in Decisions /\ r # Nobody
      BY <2>2, ReviewAssumption DEF MayReview
    <3> QED
      BY <2>1, <3>1, PendingCanBeDecided
  <2> QED
    BY <2>1, <2>2 DEF DocumentsAreUsable
<1> QED
  BY <1>1, DeskInvHolds, PTL

(***************************************************************************)
(* Whatever was imported and not lost to another importer, knowledge-      *)
(* import has left a record of each of its decisions in the ledger.        *)
(***************************************************************************)
THEOREM ImportedStays == Spec => []ImportedIsKept
<1>1. DeskInv => ImportedIsKept
  BY DEF DeskInv, Keeps, ImportedIsKept
<1> QED
  BY <1>1, DeskInvHolds, PTL

(***************************************************************************)
(* What review-run, ai-apply-response, the case commands and the MCP       *)
(* servers write follows what they read: nothing recorded is changed.      *)
(***************************************************************************)
THEOREM DecisionsStay == Spec => DecisionsAreFinal
<1> DEFINE RunsFollow == \A p \in RunPaths : \A new \in runs'[p] \ runs[p] :
             \E q \in RunPaths : \E old \in runs[q] : Follows(new, old)
           CasesFollow == \A p \in CasePaths : \A new \in cases'[p] \ cases[p] :
             \/ new.decisions = <<>> /\ new.stages = <<>> /\ Len(new.sources) = 1
             \/ \E q \in CasePaths : \E old \in cases[q] : CaseFollows(new, old)
             \/ \E a \in Agents : \E s \in agent[a].staged : CaseFollows(new, s.of)
<1>1. ASSUME DeskInv, runs' = runs PROVE RunsFollow
  BY <1>1
<1>2. ASSUME DeskInv, cases' = cases PROVE CasesFollow
  BY <1>2
<1>3. ASSUME DeskInv, People PROVE RunsFollow
  <2>1. runs = [p \in RunPaths |-> runs[p]]
    BY <1>3 DEF DeskInv, Assigned
  <2>2. ASSUME NEW from \in RunPaths, NEW to \in RunPaths, NEW old \in runs[from], NEW new,
               runs' = [runs EXCEPT ![to] = {new}], Follows(new, old)
        PROVE  RunsFollow
    BY <2>1, <2>2
  <2> HIDE DEF RunsFollow
  <2> QED
    BY <1>1, <1>3, <2>2, PeopleFollow
<1>4. ASSUME DeskInv, NEW to, NEW d, cases' = [cases EXCEPT ![to] = {d}],
             \/ d.decisions = <<>> /\ d.stages = <<>> /\ Len(d.sources) = 1
             \/ \E q \in CasePaths : \E old \in cases[q] : CaseFollows(d, old)
             \/ \E a \in Agents : \E s \in agent[a].staged : CaseFollows(d, s.of)
      PROVE  CasesFollow
  <2>1. cases = [p \in CasePaths |-> cases[p]]
    BY <1>4 DEF DeskInv, Assigned
  <2>2. \A p \in CasePaths : \A new \in cases'[p] \ cases[p] : new = d
    BY <1>4, <2>1
  <2> QED
    BY <1>4, <2>2
<1>5. ASSUME DeskInv, CaseWork PROVE CasesFollow
  <2> HIDE DEF CasesFollow
  <2> QED
    BY <1>4, <1>5, CaseWorkFollows
<1>6. ASSUME DeskInv, AgentWork PROVE CasesFollow
  <2>1. \A a \in Agents : \A s \in agent[a].staged : CaseFollows(s.document, s.of)
    BY <1>6 DEF DeskInv, AgentFollows
  <2> HIDE DEF CasesFollow
  <2> QED
    BY <1>2, <1>4, <1>6, <2>1, AgentWorkFollows, ZenonT(30)
<1>7. DeskInv /\ [Next]_vars => [RunsFollow /\ CasesFollow]_vars
  <2> HIDE DEF RunsFollow, CasesFollow
  <2>1. People => cases' = cases
    BY LeftAlone
  <2>2. Ledgers => runs' = runs /\ cases' = cases
    BY LeftAlone
  <2>3. CaseWork => runs' = runs
    BY LeftAlone
  <2>4. DeskInv /\ AgentWork => runs' = runs
    BY AgentWorkFollows
  <2> QED
    BY <1>1, <1>2, <1>3, <1>5, <1>6, <2>1, <2>2, <2>3, <2>4 DEF Next
<1> QED
  BY <1>7, DeskInvHolds, PTL DEF Spec, DecisionsAreFinal

(***************************************************************************)
(* A step of an agent replaces no case: stage_case_recommendation links a  *)
(* new file, with the human decisions of the case it was staged from.      *)
(***************************************************************************)
THEOREM AgentsOnlyAdd == Spec => AgentsReplaceNothing
<1> DEFINE Adds == \A a \in Agents : agent'[a] # agent[a] =>
             \A p \in CasePaths : cases'[p] # cases[p] =>
               /\ cases[p] = {}
               /\ \E s \in agent[a].staged : \A c \in cases'[p] : c.decisions = s.of.decisions
<1>1. ASSUME DeskInv, AgentWork PROVE Adds
  <2>1. PICK a \in Agents :
          /\ \A b \in Agents \ {a} : agent'[b] = agent[b]
          /\ \/ cases' = cases
             \/ \E s \in agent[a].staged :
                  cases[s.output] = {} /\ cases' = [cases EXCEPT ![s.output] = {s.document}]
    BY <1>1, AgentWorkFollows
  <2>2. \A s \in agent[a].staged : s.document.decisions = s.of.decisions
    BY <1>1 DEF DeskInv, AgentFollows
  <2>3. cases = [p \in CasePaths |-> cases[p]]
    BY <1>1 DEF DeskInv, Assigned
  <2>4. ASSUME NEW s \in agent[a].staged, cases[s.output] = {},
               cases' = [cases EXCEPT ![s.output] = {s.document}],
               NEW p \in CasePaths, cases'[p] # cases[p]
        PROVE  /\ cases[p] = {}
               /\ \A c \in cases'[p] : c.decisions = s.of.decisions
    <3>1. p = s.output /\ cases'[p] = {s.document}
      BY <2>3, <2>4
    <3> QED
      BY <2>2, <2>4, <3>1
  <2> QED
    BY <2>1, <2>4
<1>2. People \/ Ledgers \/ CaseWork => agent' = agent
  BY LeftAlone
<1>3. DeskInv /\ [Next]_vars => [Adds]_vars
  <2>1. agent' = agent => Adds
    OBVIOUS
  <2> HIDE DEF Adds
  <2> QED
    BY <1>1, <1>2, <2>1 DEF Next
<1> QED
  BY <1>3, DeskInvHolds, PTL DEF Spec, AgentsReplaceNothing
=============================================================================
