------------------------ MODULE EvidenceDeskProofs -------------------------
(***************************************************************************)
(* Theorems about the evidence kept beside a run: for every tree, catalog  *)
(* and manifest, and any interleaving of edits, imports and commands.      *)
(*                                                                         *)
(* What is computed there are walks: over the events of a range, the files *)
(* of a tree, the mentions in a file.  A walk is a recursive function, and *)
(* what holds of it at every length is shown by the least counterexample.  *)
(* EvidenceTyped says of every document what its readers check, and of a   *)
(* running walk that each file was read in one version (WalkSound).  The   *)
(* versions of files only grow, so the second digest can equal the first   *)
(* only if what was read in between is what both of them name.             *)
(***************************************************************************)
EXTENDS EvidenceDesk, SequenceTheorems, FiniteSetTheorems, WellFoundedInduction, TLAPS

(***************************************************************************)
(* Walks.                                                                  *)
(***************************************************************************)

\* Numbers that are not none have a least one: what fails nowhere first, never fails.
LEMMA FirstFailure ==
  ASSUME NEW S \in SUBSET Nat, S # {}
  PROVE  \E least \in S : \A n \in S : least <= n
<1> DEFINE R == {ss \in Nat \X Nat : ss[1] < ss[2]}
<1>1. IsWellFoundedOn(R, Nat)
  BY NatLessThanWellFounded DEF OpToRel
<1>2. PICK least \in S : \A n \in S : ~(<<n, least>> \in R)
  BY <1>1, WFMin, Zenon
<1>3. ASSUME NEW n \in S PROVE least <= n
  <2>1. <<n, least>> \in Nat \X Nat /\ ~(<<n, least>> \in R)
    BY <1>2
  <2> QED
    BY <2>1
<1> QED
  BY <1>3

\* What holds at zero and passes on to the next holds up to the last.
LEMMA UpToLast ==
  ASSUME NEW last \in Nat, NEW T, 0 \in T, \A n \in 1..last : n - 1 \in T => n \in T
  PROVE  0..last \subseteq T
<1> DEFINE F == (0..last) \ T
<1> SUFFICES ASSUME F # {} PROVE FALSE
  OBVIOUS
<1>1. PICK least \in F : \A n \in F : least <= n
  <2>1. F \subseteq Nat
    OBVIOUS
  <2> HIDE DEF F
  <2> QED
    BY <2>1, FirstFailure
<1>2. least \in 1..last /\ least - 1 \in 0..last /\ ~(least <= least - 1)
  BY <1>1
<1> QED
  BY <1>1, <1>2

\* A walk of so many steps from a first state, one after the other, over states of a set.
IsWalk(out, first, next, last) ==
  out = [n \in 0..last |-> IF n = 0 THEN first ELSE next[<<n, out[n - 1]>>]]

\* However many steps there are, there is a walk of them, and it stays in the set.
LEMMA WalkExists ==
  ASSUME NEW S, NEW first \in S, NEW last \in Nat,
         NEW next \in [(1..last) \X S -> S]
  PROVE  \E out \in [0..last -> S] : IsWalk(out, first, next, last)
<1> DEFINE Missing == {n \in 0..last : ~ \E out \in [0..n -> S] : IsWalk(out, first, next, n)}
<1> SUFFICES ASSUME Missing # {} PROVE FALSE
  OBVIOUS
<1>1. PICK least \in Missing : \A n \in Missing : least <= n
  <2>1. Missing \subseteq Nat
    OBVIOUS
  <2> HIDE DEF Missing
  <2> QED
    BY <2>1, FirstFailure
<1>2. least \in 0..last /\ ~ \E out \in [0..least -> S] : IsWalk(out, first, next, least)
  OBVIOUS
<1>3. CASE least = 0
  <2>1. IsWalk([n \in 0..0 |-> first], first, next, 0) /\ [n \in 0..0 |-> first] \in [0..0 -> S]
    BY DEF IsWalk
  <2> QED
    BY <1>2, <1>3, <2>1
<1>4. CASE least # 0
  <2>1. least - 1 \in 0..last /\ least - 1 < least /\ least \in 1..last
    BY <1>2, <1>4
  <2>2. least - 1 \notin Missing
    BY <1>1, <1>2, <2>1
  <2>3. PICK out \in [0..least - 1 -> S] : IsWalk(out, first, next, least - 1)
    BY <2>1, <2>2
  <2> DEFINE longer == [n \in 0..least |->
                         IF n < least THEN out[n] ELSE next[<<least, out[least - 1]>>]]
  <2>4. longer \in [0..least -> S]
    <3>1. out[least - 1] \in S
      BY <2>1, <2>3
    <3>2. next[<<least, out[least - 1]>>] \in S
      BY <2>1, <3>1
    <3>3. \A n \in 0..least : n < least => out[n] \in S
      BY <1>2, <2>3
    <3> QED
      BY <3>2, <3>3
  <2>5. ASSUME NEW n \in 0..least
        PROVE  longer[n] = IF n = 0 THEN first ELSE next[<<n, longer[n - 1]>>]
    <3>1. CASE n = 0
      BY <1>2, <1>4, <2>3, <3>1 DEF IsWalk
    <3>2. CASE n # 0 /\ n < least
      <4>1. n \in 0..least - 1 /\ n - 1 \in 0..least /\ n - 1 < least
        BY <1>2, <3>2
      <4>2. out[n] = next[<<n, out[n - 1]>>]
        BY <2>3, <3>2, <4>1 DEF IsWalk
      <4> QED
        BY <3>2, <4>1, <4>2
    <3>3. CASE n = least
      <4>1. least - 1 \in 0..least
        BY <1>2, <1>4
      <4> QED
        BY <1>2, <1>4, <3>3, <4>1
    <3> QED
      BY <1>2, <3>1, <3>2, <3>3
  <2>6. IsWalk(longer, first, next, least)
    BY <2>5 DEF IsWalk
  <2> QED
    BY <1>2, <2>4, <2>6
<1> QED
  BY <1>3, <1>4

(***************************************************************************)
(* The walk over the events of a range.                                    *)
(***************************************************************************)
RangeState ==
  [issue : BOOLEAN, introduced : BOOLEAN, open : BOOLEAN, affected : BOOLEAN, last : Int,
   closedBy : {"nothing", "fixed", "last_affected"}]

\* Reading an event of a range leaves a state of the walk.
LEMMA ReadEventTyped ==
  ASSUME NEW query \in Int, NEW w \in RangeState, NEW e \in RangeEvents, NEW i, NEW isLast
  PROVE  ReadEvent(query, w, e, i, isLast) \in RangeState
<1>1. e.field \in STRING /\ e.value \in Int
  BY DEF RangeEvents
<1>2. /\ [w EXCEPT !.issue = TRUE] \in RangeState
      /\ \A b : [w EXCEPT !.affected = w.affected /\ b] \in RangeState
      /\ \A b : [[w EXCEPT !.last = e.value] EXCEPT !.introduced = TRUE, !.open = TRUE,
                  !.affected = w.affected \/ b] \in RangeState
      /\ e.field \in {"fixed", "last_affected"} =>
           \A b : [[w EXCEPT !.last = e.value] EXCEPT !.closedBy = e.field, !.open = FALSE,
                    !.affected = w.affected /\ b] \in RangeState
  BY <1>1 DEF RangeState
<1>3. w = [w EXCEPT !.affected = w.affected] /\ w.affected \in BOOLEAN
  BY DEF RangeState
<1> DEFINE Closed(b) == [[w EXCEPT !.last = e.value] EXCEPT !.closedBy = e.field, !.open = FALSE,
                           !.affected = w.affected /\ b]
           Opened(b) == [[w EXCEPT !.last = e.value] EXCEPT !.introduced = TRUE, !.open = TRUE,
                            !.affected = w.affected \/ b]
           Cut(b) == [w EXCEPT !.affected = w.affected /\ b]
           rejected == [w EXCEPT !.issue = TRUE]
<1> DEFINE r == ReadEvent(query, w, e, i, isLast)
<1>4. \/ r = w \/ r = rejected
      \/ r = Cut(e.value = NoLimit \/ query < e.value)
      \/ r = Opened(query >= e.value)
      \/ e.field \in {"fixed", "last_affected"} /\ r = Closed(Within(query, e))
  BY DEF ReadEvent
<1> HIDE DEF r
<1> QED
  BY <1>2, <1>4 DEF r

\* The walk over the events is the recursion that its definition says.
LEMMA RangeWalkIs ==
  ASSUME NEW query \in Int, NEW events, IsList(events), \A i \in DOMAIN events : events[i] \in RangeEvents
  PROVE  /\ Len(events) \in Nat /\ DOMAIN events = 1..Len(events)
         /\ RangeWalk(query, events) \in [0..Len(events) -> RangeState]
         /\ RangeWalk(query, events)[0] = Unread
         /\ \A n \in 1..Len(events) :
              RangeWalk(query, events)[n] =
                ReadEvent(query, RangeWalk(query, events)[n - 1], events[n], n, n = Len(events))
<1>1. Len(events) \in Nat /\ DOMAIN events = 1..Len(events)
  BY LenProperties DEF IsList
<1> DEFINE next == [c \in (1..Len(events)) \X RangeState |->
                     ReadEvent(query, c[2], events[c[1]], c[1], c[1] = Len(events))]
<1>2. next \in [(1..Len(events)) \X RangeState -> RangeState]
  BY <1>1, ReadEventTyped
<1>3. Unread \in RangeState
  BY DEF Unread, RangeState, FromStart
<1>4. \E out \in [0..Len(events) -> RangeState] : IsWalk(out, Unread, next, Len(events))
  <2> HIDE DEF next
  <2> QED
    BY <1>1, <1>2, <1>3, WalkExists
<1> DEFINE Next1(out) == [n \in 0..Len(events) |->
                           IF n = 0 THEN Unread
                           ELSE ReadEvent(query, out[n - 1], events[n], n, n = Len(events))]
<1>5. PICK out \in [0..Len(events) -> RangeState] : out = Next1(out)
  <2>1. PICK out \in [0..Len(events) -> RangeState] : IsWalk(out, Unread, next, Len(events))
    BY <1>4
  <2>2. ASSUME NEW n \in 1..Len(events)
        PROVE  next[<<n, out[n - 1]>>] = ReadEvent(query, out[n - 1], events[n], n, n = Len(events))
    <3>1. n - 1 \in 0..Len(events)
      BY <1>1
    <3>2. <<n, out[n - 1]>> \in (1..Len(events)) \X RangeState
      BY <2>1, <3>1
    <3> QED
      BY <3>2
  <2> HIDE DEF next
  <2>3. ASSUME NEW n \in 0..Len(events), n # 0 PROVE n \in 1..Len(events)
    BY <1>1, <2>3
  <2>4. ASSUME NEW n \in 0..Len(events) PROVE out[n] = Next1(out)[n]
    BY <2>1, <2>2, <2>3 DEF IsWalk
  <2> QED
    BY <2>1, <2>4
<1>6. RangeWalk(query, events) = CHOOSE walk : walk = Next1(walk)
  BY DEF RangeWalk
<1>7. \E walk : walk = RangeWalk(query, events) /\ walk = Next1(walk)
  <2> HIDE DEF Next1
  <2> QED
    BY <1>5, <1>6
<1>8. PICK walk : walk = RangeWalk(query, events) /\ walk = Next1(walk)
  BY <1>7
<1>9. /\ DOMAIN walk = 0..Len(events)
      /\ \A n \in 0..Len(events) : walk[n] = IF n = 0 THEN Unread
               ELSE ReadEvent(query, walk[n - 1], events[n], n, n = Len(events))
  BY <1>8
<1>10. /\ 0 \in 0..Len(events)
       /\ \A n \in 1..Len(events) : n \in 0..Len(events) /\ n # 0 /\ n - 1 \in 0..Len(events)
  BY <1>1
<1>11. walk[0] = Unread
  BY <1>9, <1>10
<1>12. \A n \in 1..Len(events) : walk[n] = ReadEvent(query, walk[n - 1], events[n], n, n = Len(events))
  BY <1>9, <1>10
<1>13. walk \in [0..Len(events) -> RangeState]
  <2> DEFINE T == {n \in 0..Len(events) : walk[n] \in RangeState}
  <2>1. 0 \in T
    BY <1>3, <1>10, <1>11
  <2>2. ASSUME NEW n \in 1..Len(events), n - 1 \in T PROVE n \in T
    <3>1. events[n] \in RangeEvents
      BY <1>1
    <3>2. walk[n - 1] \in RangeState
      BY <2>2
    <3>3. ReadEvent(query, walk[n - 1], events[n], n, n = Len(events)) \in RangeState
      BY <3>1, <3>2, ReadEventTyped
    <3> QED
      BY <1>10, <1>12, <3>3
  <2>3. 0..Len(events) \subseteq T
    <3> HIDE DEF T
    <3> QED
      BY <1>1, <2>1, <2>2, UpToLast
  <2>4. walk = [n \in 0..Len(events) |-> walk[n]]
    BY <1>8
  <2> QED
    BY <2>3, <2>4
<1> QED
  BY <1>1, <1>8, <1>11, <1>12, <1>13

\* Every other number is odd.
Odd(n) == n % 2 = 1

\* After an odd number comes one that is not.
LEMMA OddAlternates == \A n \in Nat : (Odd(n + 1) <=> ~Odd(n)) /\ (n > 0 => (Odd(n) <=> ~Odd(n - 1)))
BY DEF Odd

\* The first numbers.
LEMMA OneIsOdd == ~Odd(0) /\ Odd(1) /\ ~Odd(2)
BY DEF Odd

Closers == {"fixed", "last_affected"}

\* The first n events are as those of a well-formed range are.
PrefixFormed(events, n) ==
  /\ \A i \in 1..n :
       \/ events[i].field \in {"introduced", "fixed", "last_affected"} /\ IsVersion(events[i].value)
       \/ events[i].field = "limit" /\ (IsVersion(events[i].value) \/ events[i].value = NoLimit)
       \/ events[i].field = "introduced" /\ events[i].value = FromStart /\ i = 1
  /\ \A i, j \in 1..n : i < j /\ events[j].value # NoLimit => events[i].value < events[j].value
  /\ \A i \in 1..n : events[i].field = "limit" => i = Len(events)
  /\ \A i \in 1..n : events[i].field # "limit" => ((events[i].field = "introduced") <=> Odd(i))
  /\ \A i, j \in 1..n : {events[i].field, events[j].field} \subseteq Closers =>
                          events[i].field = events[j].field

\* One more event of a well-formed range.
BoundFormed(events, m) ==
  \/ IsVersion(events[m].value) /\ (m > 1 => events[m].value > events[m - 1].value)
  \/ events[m].field = "introduced" /\ events[m].value = FromStart /\ m = 1
NextFormed(events, m) ==
  \/ /\ events[m].field = "limit" /\ m = Len(events)
     /\ \/ events[m].value = NoLimit
        \/ IsVersion(events[m].value) /\ (m > 1 => events[m].value > events[m - 1].value)
  \/ events[m].field = "introduced" /\ Odd(m) /\ BoundFormed(events, m)
  \/ /\ events[m].field \in Closers /\ ~Odd(m) /\ BoundFormed(events, m)
     /\ m > 2 => events[m].field = events[2].field

RangeTyped(events) == IsList(events) /\ \A i \in DOMAIN events : events[i] \in RangeEvents

\* The events of a range are numbered, and each has a field and a value.
LEMMA EventsTyped ==
  ASSUME NEW events, RangeTyped(events)
  PROVE  /\ Len(events) \in Nat /\ DOMAIN events = 1..Len(events)
         /\ \A i \in 1..Len(events) :
              /\ events[i].value \in Int
              /\ events[i] = [field |-> events[i].field, value |-> events[i].value]
BY LenProperties DEF RangeTyped, IsList, RangeEvents

\* A prefix is well formed when the one before it is, and its last event fits.
LEMMA PrefixGrows ==
  ASSUME NEW events, RangeTyped(events), NEW m \in 1..Len(events)
  PROVE  PrefixFormed(events, m) <=> PrefixFormed(events, m - 1) /\ NextFormed(events, m)
<1>1. /\ Len(events) \in Nat
      /\ \A i \in 1..Len(events) : events[i].value \in Int
  BY EventsTyped
<1>2. \A i \in 1..m : i \in 1..m - 1 \/ i = m
  BY <1>1
<1>3. m \in 1..m /\ \A i \in 1..m - 1 : i \in 1..m /\ i \in 1..Len(events) /\ i < m
  BY <1>1
<1>4. ASSUME PrefixFormed(events, m) PROVE PrefixFormed(events, m - 1) /\ NextFormed(events, m)
  <2>1. PrefixFormed(events, m - 1)
    BY <1>3, <1>4 DEF PrefixFormed
  <2>2. /\ m > 1 => m - 1 \in 1..m - 1
        /\ m > 1 /\ events[m].value # NoLimit => events[m].value > events[m - 1].value
    BY <1>1, <1>3, <1>4 DEF PrefixFormed
  <2>3. IsVersion(events[m].value) => events[m].value # NoLimit
    BY DEF IsVersion, NoLimit, FromStart
  <2>4. m > 2 => events[2].field \in Closers
    <3>1. m > 2 => 2 \in 1..m /\ 2 \in 1..Len(events) /\ 2 # Len(events)
      BY <1>1
    <3> QED
      BY <1>4, <3>1, OneIsOdd DEF PrefixFormed, Closers
  <2>5. m > 2 /\ events[m].field \in Closers => events[m].field = events[2].field
    <3>1. m > 2 => 2 \in 1..m
      BY <1>1
    <3> QED
      BY <1>3, <1>4, <2>4, <3>1 DEF PrefixFormed
  <2>6. NextFormed(events, m)
    BY <1>3, <1>4, <2>2, <2>3, <2>5 DEF PrefixFormed, NextFormed, BoundFormed, Closers
  <2> QED
    BY <2>1, <2>6
<1>5. ASSUME PrefixFormed(events, m - 1), NextFormed(events, m) PROVE PrefixFormed(events, m)
  <2>1. \A i \in 1..m - 1 : events[i].field # "limit"
    BY <1>1, <1>3, <1>5 DEF PrefixFormed
  <2>2. \A i \in 1..m - 1 : events[i].value # NoLimit
    BY <1>3, <1>5, <2>1 DEF PrefixFormed, IsVersion, NoLimit, FromStart
  <2>3. \A i \in 1..m - 1 : i < m - 1 => events[i].value < events[m - 1].value
    <3>1. ASSUME NEW i \in 1..m - 1, i < m - 1 PROVE m - 1 \in 1..m - 1
      BY <1>1, <3>1
    <3> QED
      BY <1>5, <2>2, <3>1 DEF PrefixFormed
  <2>4. ASSUME NEW i \in 1..m - 1, events[m].value # NoLimit PROVE events[i].value < events[m].value
    <3>1. m > 1 /\ m - 1 \in 1..Len(events) /\ (i = m - 1 \/ i < m - 1) /\ m # 1
      BY <1>1
    <3>2. events[m - 1].value < events[m].value
      BY <1>1, <1>5, <2>4, <3>1 DEF NextFormed, BoundFormed
    <3>3. /\ events[i].value \in Int /\ events[m].value \in Int /\ events[m - 1].value \in Int
          /\ i < m - 1 => events[i].value < events[m - 1].value
      BY <1>1, <1>3, <2>3, <3>1
    <3> QED
      BY <3>1, <3>2, <3>3
  <2>5. ASSUME NEW i \in 1..m - 1, events[i].field \in Closers, events[m].field \in Closers
        PROVE  events[i].field = events[m].field
    <3>1. i # 1
      BY <1>5, <2>5, OneIsOdd DEF PrefixFormed, Closers
    <3>2. m > 2 /\ 2 \in 1..m - 1
      BY <1>1, <3>1
    <3>3. events[2].field \in Closers
      BY <1>5, <2>1, <3>2, OneIsOdd DEF PrefixFormed, Closers
    <3>4. events[i].field = events[2].field
      BY <1>5, <2>5, <3>2, <3>3 DEF PrefixFormed
    <3> QED
      BY <1>5, <2>5, <3>2, <3>4 DEF NextFormed, Closers
  <2>6. \A i \in 1..m :
          \/ events[i].field \in {"introduced", "fixed", "last_affected"} /\ IsVersion(events[i].value)
          \/ events[i].field = "limit" /\ (IsVersion(events[i].value) \/ events[i].value = NoLimit)
          \/ events[i].field = "introduced" /\ events[i].value = FromStart /\ i = 1
    BY <1>2, <1>5 DEF PrefixFormed, NextFormed, BoundFormed, Closers
  <2>7. \A i, j \in 1..m : i < j /\ events[j].value # NoLimit => events[i].value < events[j].value
    BY <1>2, <1>3, <1>5, <2>4 DEF PrefixFormed
  <2>8. \A i \in 1..m : events[i].field = "limit" => i = Len(events)
    BY <1>2, <1>5 DEF PrefixFormed, NextFormed, Closers
  <2>9. \A i \in 1..m : events[i].field # "limit" => ((events[i].field = "introduced") <=> Odd(i))
    BY <1>2, <1>5 DEF PrefixFormed, NextFormed, Closers
  <2>10. \A i, j \in 1..m : {events[i].field, events[j].field} \subseteq Closers =>
                              events[i].field = events[j].field
    BY <1>2, <1>5, <2>5 DEF PrefixFormed
  <2> QED
    BY <2>6, <2>7, <2>8, <2>9, <2>10 DEF PrefixFormed
<1> QED
  BY <1>4, <1>5

\* A query is in the interval that begins with an event, as far as the first n events say.
InIntervalUpTo(query, events, i, n) ==
  /\ events[i].field = "introduced" /\ query >= events[i].value
  /\ i < n =>
       CASE events[i + 1].field = "fixed" -> query < events[i + 1].value
         [] events[i + 1].field = "last_affected" -> query <= events[i + 1].value
         [] OTHER -> TRUE
Covered(query, events, n) == \E i \in 1..n : InIntervalUpTo(query, events, i, n)

\* What the walk knows after n boundaries.
WalkAgrees(query, events, w, n) ==
  /\ w.introduced <=> n >= 1
  /\ w.open <=> Odd(n)
  /\ w.last = IF n = 0 THEN FromStart ELSE events[n].value
  /\ w.closedBy = IF n < 2 THEN "nothing" ELSE events[2].field
  /\ w.affected <=> Covered(query, events, n)
  /\ w.affected /\ ~w.open => query <= w.last

\* The closing event of an interval decides what of it the walk keeps.
LEMMA ClosingDecides ==
  ASSUME NEW query \in Int, NEW events, RangeTyped(events), NEW m \in 1..Len(events),
         events[m].field \in Closers, m > 1, events[m - 1].field = "introduced",
         \A i \in 1..m - 1 : i < m - 1 => events[i].value < events[m - 1].value,
         events[m].value > events[m - 1].value,
         \A i \in 1..m - 1 : i < m - 1 /\ InIntervalUpTo(query, events, i, m - 1)
                               => events[i + 1].field \in Closers
  PROVE  Covered(query, events, m) <=>
           (Covered(query, events, m - 1) /\ Within(query, events[m]))
<1>0. /\ Len(events) \in Nat
      /\ \A i \in 1..Len(events) : events[i].value \in Int
  BY EventsTyped
<1>1. /\ Len(events) \in Nat /\ m - 1 \in 1..m - 1
      /\ \A i \in 1..Len(events) : events[i].value \in Int
  BY <1>0
<1>2. ASSUME NEW i \in 1..m - 1, i < m - 1
      PROVE  InIntervalUpTo(query, events, i, m) <=> InIntervalUpTo(query, events, i, m - 1)
  BY <1>1, <1>2 DEF InIntervalUpTo
<1>3. InIntervalUpTo(query, events, m - 1, m) <=>
        (InIntervalUpTo(query, events, m - 1, m - 1) /\ Within(query, events[m]))
  BY <1>1 DEF InIntervalUpTo, Within, Closers
<1>4. ~InIntervalUpTo(query, events, m, m)
  BY DEF InIntervalUpTo, Closers
<1>5. \A i \in 1..m : i = m \/ i = m - 1 \/ (i \in 1..m - 1 /\ i < m - 1)
  BY <1>1
<1>6. ASSUME NEW i \in 1..m - 1, i < m - 1, InIntervalUpTo(query, events, i, m - 1)
      PROVE  Within(query, events[m])
  <2>1. i + 1 \in 1..m - 1 /\ i + 1 \in 1..Len(events) /\ m - 1 \in 1..Len(events)
    BY <1>1, <1>6
  <2>2. query <= events[i + 1].value
    BY <1>1, <1>6, <2>1 DEF InIntervalUpTo, Closers
  <2>3. events[i + 1].value <= events[m - 1].value
    BY <1>1, <1>6, <2>1
  <2> QED
    BY <1>1, <2>1, <2>2, <2>3 DEF Within
<1>7. ASSUME Covered(query, events, m) PROVE Covered(query, events, m - 1) /\ Within(query, events[m])
  <2>1. PICK i \in 1..m : InIntervalUpTo(query, events, i, m)
    BY <1>7 DEF Covered
  <2> QED
    BY <1>1, <1>2, <1>3, <1>4, <1>5, <1>6, <2>1 DEF Covered
<1>8. ASSUME Covered(query, events, m - 1), Within(query, events[m]) PROVE Covered(query, events, m)
  <2>1. PICK i \in 1..m - 1 : InIntervalUpTo(query, events, i, m - 1)
    BY <1>8 DEF Covered
  <2>2. i \in 1..m /\ (i = m - 1 \/ i < m - 1)
    BY <1>1
  <2> QED
    BY <1>2, <1>3, <1>8, <2>1, <2>2 DEF Covered
<1> QED
  BY <1>7, <1>8

\* A boundary follows in the walk when it fits the events before it.
LEMMA BoundaryFits ==
  ASSUME NEW query \in Int, NEW events, RangeTyped(events), NEW m \in 1..Len(events),
         NEW w \in RangeState, PrefixFormed(events, m - 1), WalkAgrees(query, events, w, m - 1)
  PROVE  /\ BoundaryFollows(w, events[m], m) <=> BoundFormed(events, m)
         /\ LimitFollows(w, events[m], m = Len(events)) <=>
              /\ m = Len(events)
              /\ \/ events[m].value = NoLimit
                 \/ IsVersion(events[m].value) /\ (m > 1 => events[m].value > events[m - 1].value)
<1>0. /\ Len(events) \in Nat
      /\ \A i \in 1..Len(events) : events[i].value \in Int
  BY EventsTyped
<1>1. /\ Len(events) \in Nat /\ events[m].value \in Int /\ w.last \in Int
      /\ m > 1 => w.last = events[m - 1].value /\ events[m - 1].value \in Int
      /\ m = 1 => w.last = FromStart
      /\ m > 1 \/ m = 1
  BY <1>0 DEF RangeState, WalkAgrees
<1>2. IsVersion(events[m].value) =>
        (events[m].value > w.last <=> (m > 1 => events[m].value > events[m - 1].value))
  BY <1>1 DEF IsVersion, FromStart
<1> QED
  BY <1>2 DEF BoundaryFollows, BoundFormed, LimitFollows

\* What one more event does to the walk, when those before it fit.
LEMMA WalkGrows ==
  ASSUME NEW query \in Int, NEW events, RangeTyped(events), NEW m \in 1..Len(events),
         NEW w \in RangeState, PrefixFormed(events, m - 1), \A i \in 1..m - 1 : events[i].field # "limit",
         ~w.issue, WalkAgrees(query, events, w, m - 1)
  PROVE  LET r == ReadEvent(query, w, events[m], m, m = Len(events))
         IN /\ r.issue <=> ~NextFormed(events, m)
            /\ NextFormed(events, m) /\ events[m].field # "limit" => WalkAgrees(query, events, r, m)
            /\ NextFormed(events, m) /\ events[m].field = "limit" =>
                 /\ r.introduced <=> m > 1
                 /\ r.affected <=> /\ Covered(query, events, m - 1)
                                   /\ events[m].value = NoLimit \/ query < events[m].value
<1> DEFINE e == events[m]
           r == ReadEvent(query, w, e, m, m = Len(events))
<1>0. /\ Len(events) \in Nat
      /\ \A i \in 1..Len(events) : events[i].value \in Int
  BY EventsTyped
<1>1. /\ Len(events) \in Nat /\ m \in Nat /\ m - 1 \in Nat /\ m > 0
      /\ \A i \in 1..Len(events) : events[i].value \in Int
  BY <1>0
<1>2. /\ w.introduced \in BOOLEAN /\ w.open \in BOOLEAN /\ w.affected \in BOOLEAN /\ w.last \in Int
      /\ w.closedBy \in {"nothing", "fixed", "last_affected"} /\ w.issue = FALSE
  BY DEF RangeState
<1>3. w.open <=> ~Odd(m)
  BY <1>1, OddAlternates DEF WalkAgrees
<1>4. CASE e.field = "limit"
  <2>1. IF ~LimitFollows(w, e, m = Len(events)) THEN r = [w EXCEPT !.issue = TRUE]
        ELSE r = [w EXCEPT !.affected = @ /\ (e.value = NoLimit \/ query < e.value)]
    BY <1>2, <1>4 DEF ReadEvent
  <2>2. LimitFollows(w, e, m = Len(events)) <=> NextFormed(events, m)
    BY <1>4, BoundaryFits DEF NextFormed, Closers
  <2> HIDE DEF r
  <2>3. r.issue <=> ~NextFormed(events, m)
    BY <1>2, <2>1, <2>2 DEF RangeState
  <2>4. NextFormed(events, m) => /\ r.introduced = w.introduced
                                 /\ r.affected <=> w.affected /\ (e.value = NoLimit \/ query < e.value)
    BY <1>2, <2>1, <2>2 DEF RangeState
  <2> QED
    BY <1>1, <1>4, <2>3, <2>4 DEF WalkAgrees, r
<1>5. CASE e.field = "introduced"
  <2>1. IF ~BoundaryFollows(w, e, m) \/ w.open THEN r = [w EXCEPT !.issue = TRUE]
        ELSE r = [[w EXCEPT !.last = e.value] EXCEPT !.introduced = TRUE, !.open = TRUE,
                     !.affected = @ \/ query >= e.value]
    BY <1>2, <1>5 DEF ReadEvent
  <2>2. (BoundaryFollows(w, e, m) /\ ~w.open) <=> NextFormed(events, m)
    BY <1>3, <1>5, BoundaryFits DEF NextFormed, Closers
  <2> HIDE DEF r
  <2>3. r.issue <=> ~NextFormed(events, m)
    BY <1>2, <2>1, <2>2 DEF RangeState
  <2>4. ASSUME NextFormed(events, m) PROVE WalkAgrees(query, events, r, m)
    <3>1. /\ r.introduced /\ r.open /\ r.last = e.value /\ r.closedBy = w.closedBy
          /\ r.affected <=> w.affected \/ query >= e.value
      BY <1>2, <2>1, <2>2, <2>4 DEF RangeState
    <3>2. Odd(m)
      BY <1>3, <2>2, <2>4
    <3>3. m # 2 /\ (m - 1 < 2 <=> m < 2)
      BY <1>1, <3>2, OneIsOdd
    <3>4. \A i \in 1..m - 1 : InIntervalUpTo(query, events, i, m) <=> InIntervalUpTo(query, events, i, m - 1)
      <4>1. ASSUME NEW i \in 1..m - 1
            PROVE  InIntervalUpTo(query, events, i, m) <=> InIntervalUpTo(query, events, i, m - 1)
        <5>1. CASE i = m - 1
          BY <1>1, <1>5, <5>1 DEF InIntervalUpTo
        <5>2. CASE i < m - 1
          BY <1>1, <5>2 DEF InIntervalUpTo
        <5> QED
          BY <1>1, <5>1, <5>2
      <4> QED
        BY <4>1
    <3>5. InIntervalUpTo(query, events, m, m) <=> query >= e.value
      BY <1>1, <1>5 DEF InIntervalUpTo
    <3>6. Covered(query, events, m) <=> Covered(query, events, m - 1) \/ query >= e.value
      <4>1. m \in 1..m /\ \A i \in 1..m : i = m \/ i \in 1..m - 1
        BY <1>1
      <4>2. \A i \in 1..m - 1 : i \in 1..m
        BY <1>1
      <4> QED
        BY <3>4, <3>5, <4>1, <4>2 DEF Covered
    <3> QED
      BY <1>1, <3>1, <3>2, <3>3, <3>6 DEF WalkAgrees
  <2> QED
    BY <1>5, <2>3, <2>4 DEF r
<1>6. CASE e.field \in Closers
  <2>1. IF ~BoundaryFollows(w, e, m) \/ ~w.open \/ w.closedBy \notin {"nothing", e.field}
        THEN r = [w EXCEPT !.issue = TRUE]
        ELSE r = [[w EXCEPT !.last = e.value] EXCEPT !.closedBy = e.field, !.open = FALSE,
                     !.affected = @ /\ Within(query, e)]
    BY <1>2, <1>6 DEF ReadEvent, Closers
  <2>2. (BoundaryFollows(w, e, m) /\ w.open /\ w.closedBy \in {"nothing", e.field}) <=> NextFormed(events, m)
    <3>1. m > 2 => events[2].field \in Closers
      <4>1. m > 2 => 2 \in 1..m - 1 /\ 2 \in 1..Len(events)
        BY <1>1
      <4> QED
        BY <4>1, OneIsOdd DEF PrefixFormed, Closers
    <3>2. w.closedBy \in {"nothing", e.field} <=> (m > 2 => e.field = events[2].field)
      BY <1>1, <1>6, <3>1 DEF WalkAgrees, Closers
    <3> QED
      BY <1>3, <1>6, <3>2, BoundaryFits DEF NextFormed, Closers
  <2> HIDE DEF r
  <2>3. r.issue <=> ~NextFormed(events, m)
    BY <1>2, <2>1, <2>2 DEF RangeState
  <2>4. ASSUME NextFormed(events, m) PROVE WalkAgrees(query, events, r, m)
    <3>1. /\ r.introduced = w.introduced /\ r.open = FALSE /\ r.last = e.value /\ r.closedBy = e.field
          /\ r.affected <=> w.affected /\ Within(query, e)
      BY <1>2, <2>1, <2>2, <2>4 DEF RangeState
    <3>2. ~Odd(m) /\ m > 1 /\ m # 1 /\ m - 1 \in 1..m - 1 /\ Odd(m - 1)
      <4>1. ~Odd(m)
        BY <1>3, <2>2, <2>4
      <4>2. m # 1
        BY <4>1, OneIsOdd
      <4>3. Odd(m - 1)
        BY <1>1, <4>1, OddAlternates
      <4>4. m > 1 /\ m - 1 \in 1..m - 1
        BY <1>1, <4>2
      <4> QED
        BY <4>1, <4>2, <4>3, <4>4
    <3>3. e.field = events[2].field
      BY <1>1, <1>6, <2>4, <3>2 DEF NextFormed, Closers
    <3>4. events[m - 1].field = "introduced"
      BY <3>2 DEF PrefixFormed
    <3>5. \A i \in 1..m - 1 : events[i].value # NoLimit
      BY <1>1 DEF PrefixFormed, IsVersion, NoLimit, FromStart
    <3>6. \A i \in 1..m - 1 : i < m - 1 => events[i].value < events[m - 1].value
      BY <3>2, <3>5 DEF PrefixFormed
    <3>7. e.value > events[m - 1].value
      BY <1>6, <2>4, <3>2 DEF NextFormed, BoundFormed, Closers
    <3>8. \A i \in 1..m - 1 : i < m - 1 /\ InIntervalUpTo(query, events, i, m - 1)
                                => events[i + 1].field \in Closers
      <4>1. ASSUME NEW i \in 1..m - 1, i < m - 1, events[i].field = "introduced"
            PROVE  events[i + 1].field \in Closers
        <5>1. i + 1 \in 1..m - 1 /\ i \in Nat
          BY <1>1, <4>1
        <5>2. Odd(i)
          BY <4>1 DEF PrefixFormed
        <5>3. ~Odd(i + 1)
          BY <5>1, <5>2, OddAlternates
        <5> QED
          BY <5>1, <5>3 DEF PrefixFormed, Closers
      <4> QED
        BY <4>1 DEF InIntervalUpTo
    <3>9. Covered(query, events, m) <=> (Covered(query, events, m - 1) /\ Within(query, e))
      BY <1>6, <3>2, <3>4, <3>6, <3>7, <3>8, ClosingDecides
    <3>10. Within(query, e) => query <= e.value
      BY <1>1 DEF Within
    <3> QED
      BY <1>1, <3>1, <3>2, <3>3, <3>9, <3>10 DEF WalkAgrees
  <2> QED
    BY <1>6, <2>3, <2>4 DEF r, Closers
<1>7. CASE e.field \notin {"limit", "introduced", "fixed", "last_affected"}
  <2>1. r = [w EXCEPT !.issue = TRUE]
    BY <1>2, <1>7 DEF ReadEvent
  <2>2. ~NextFormed(events, m)
    BY <1>7 DEF NextFormed, Closers
  <2>3. r.issue
    BY <2>1 DEF RangeState
  <2> QED
    BY <2>2, <2>3
<1> QED
  BY <1>4, <1>5, <1>6, <1>7 DEF Closers

\* After every number of events the walk has found an issue, or knows what they say.
LEMMA WalkReads ==
  ASSUME NEW query \in Int, NEW events, RangeTyped(events), NEW n \in 0..Len(events)
  PROVE  LET w == RangeWalk(query, events)[n]
         IN /\ w.issue <=> ~PrefixFormed(events, n)
            /\ PrefixFormed(events, n) /\ (n > 0 => events[n].field # "limit") =>
                 WalkAgrees(query, events, w, n)
            /\ PrefixFormed(events, n) /\ n > 0 /\ events[n].field = "limit" =>
                 /\ w.introduced <=> n > 1
                 /\ w.affected <=> /\ Covered(query, events, n - 1)
                                   /\ events[n].value = NoLimit \/ query < events[n].value
<1> DEFINE walk == RangeWalk(query, events)
           Reads(k) ==
             /\ walk[k].issue <=> ~PrefixFormed(events, k)
             /\ PrefixFormed(events, k) /\ (k > 0 => events[k].field # "limit") =>
                  WalkAgrees(query, events, walk[k], k)
             /\ PrefixFormed(events, k) /\ k > 0 /\ events[k].field = "limit" =>
                  /\ walk[k].introduced <=> k > 1
                  /\ walk[k].affected <=> /\ Covered(query, events, k - 1)
                                          /\ events[k].value = NoLimit \/ query < events[k].value
<1>1. /\ Len(events) \in Nat
      /\ walk \in [0..Len(events) -> RangeState] /\ walk[0] = Unread
      /\ \A k \in 1..Len(events) : walk[k] = ReadEvent(query, walk[k - 1], events[k], k, k = Len(events))
  BY RangeWalkIs DEF RangeTyped
<1> HIDE DEF walk
<1> DEFINE T == {k \in 0..Len(events) : Reads(k)}
<1>2. 0 \in T
  <2>1. PrefixFormed(events, 0)
    BY DEF PrefixFormed
  <2>2. ~Covered(query, events, 0)
    BY DEF Covered
  <2>3. WalkAgrees(query, events, Unread, 0)
    BY <2>2, OneIsOdd DEF WalkAgrees, Unread
  <2>4. ~Unread.issue
    BY DEF Unread
  <2> QED
    BY <1>1, <2>1, <2>3, <2>4
<1>3. ASSUME NEW k \in 1..Len(events), k - 1 \in T PROVE k \in T
  <2> HIDE DEF Reads
  <2>1. k - 1 \in 0..Len(events) /\ k \in 0..Len(events) /\ Reads(k - 1) /\ k \in Nat /\ k > 0
    BY <1>1, <1>3
  <2>2. walk[k - 1] \in RangeState
    BY <1>1, <2>1
  <2>3. walk[k] = ReadEvent(query, walk[k - 1], events[k], k, k = Len(events))
    BY <1>1
  <2>4. PrefixFormed(events, k) <=> PrefixFormed(events, k - 1) /\ NextFormed(events, k)
    BY PrefixGrows
  <2>5. CASE walk[k - 1].issue
    <3>1. walk[k] = walk[k - 1] /\ ~PrefixFormed(events, k - 1)
      BY <2>1, <2>3, <2>5 DEF ReadEvent, Reads
    <3> QED
      BY <2>1, <2>4, <2>5, <3>1 DEF Reads
  <2>6. CASE ~walk[k - 1].issue
    <3>1. PrefixFormed(events, k - 1)
      BY <2>1, <2>6 DEF Reads
    <3>2. \A i \in 1..k - 1 : events[i].field # "limit"
      BY <1>1, <3>1 DEF PrefixFormed
    <3>3. k - 1 > 0 => k - 1 \in 1..k - 1
      BY <2>1
    <3>4. WalkAgrees(query, events, walk[k - 1], k - 1)
      BY <2>1, <3>1, <3>2, <3>3 DEF Reads
    <3>5. /\ walk[k].issue <=> ~NextFormed(events, k)
          /\ NextFormed(events, k) /\ events[k].field # "limit" => WalkAgrees(query, events, walk[k], k)
          /\ NextFormed(events, k) /\ events[k].field = "limit" =>
               /\ walk[k].introduced <=> k > 1
               /\ walk[k].affected <=> /\ Covered(query, events, k - 1)
                                       /\ events[k].value = NoLimit \/ query < events[k].value
      BY <2>2, <2>3, <2>6, <3>1, <3>2, <3>4, WalkGrows
    <3> QED
      BY <2>1, <2>4, <3>1, <3>5 DEF Reads
  <2> QED
    BY <2>5, <2>6
<1>4. 0..Len(events) \subseteq T
  <2> HIDE DEF T
  <2> QED
    BY <1>1, <1>2, <1>3, UpToLast
<1> QED
  BY <1>4 DEF walk

\* Of the two kinds of closing events a list has at most one, said by counting or not.
LEMMA OneKindOfCloser ==
  ASSUME NEW events, RangeTyped(events),
         \A i \in 1..Len(events) : events[i].field \in {"introduced", "limit"} \cup Closers
  PROVE  (Cardinality({events[i].field : i \in {j \in DOMAIN events : events[j].field # "limit"}}
                      \ {"introduced"}) <= 1)
           <=> (\A i, j \in 1..Len(events) : {events[i].field, events[j].field} \subseteq Closers =>
                                              events[i].field = events[j].field)
<1> DEFINE C == {events[i].field : i \in {j \in DOMAIN events : events[j].field # "limit"}} \ {"introduced"}
<1>1. DOMAIN events = 1..Len(events)
  BY EventsTyped
<1>2. C = {events[i].field : i \in {j \in 1..Len(events) : events[j].field \in Closers}}
  BY <1>1 DEF Closers
<1>3. C \subseteq Closers /\ IsFiniteSet(Closers)
  <2>1. IsFiniteSet({"fixed"}) /\ IsFiniteSet({"fixed"} \cup {"last_affected"})
    BY FS_Singleton, FS_AddElement
  <2> QED
    BY <1>2, <2>1 DEF Closers
<1>4. \A x \in C : \E i \in 1..Len(events) : events[i].field \in Closers /\ x = events[i].field
  BY <1>2
<1>5. \A i \in 1..Len(events) : events[i].field \in Closers => events[i].field \in C
  BY <1>2
<1> HIDE DEF C
<1>6. IsFiniteSet(C) /\ Cardinality(C) \in Nat
  BY <1>3, FS_Subset, FS_CardinalityType
<1>7. ASSUME Cardinality(C) <= 1, NEW i \in 1..Len(events), NEW j \in 1..Len(events),
             events[i].field \in Closers, events[j].field \in Closers
      PROVE  events[i].field = events[j].field
  <2>1. events[i].field \in C /\ events[j].field \in C
    BY <1>5, <1>7
  <2>2. Cardinality(C) # 0
    BY <1>6, <2>1, FS_EmptySet
  <2>3. Cardinality(C) = 1
    BY <1>6, <1>7, <2>2
  <2>4. \E c : C = {c}
    BY <1>6, <2>3, FS_Singleton
  <2> QED
    BY <2>1, <2>4
<1>8. ASSUME \A i, j \in 1..Len(events) : {events[i].field, events[j].field} \subseteq Closers =>
                                              events[i].field = events[j].field
      PROVE  Cardinality(C) <= 1
  <2>1. CASE C = {}
    BY <2>1, FS_EmptySet
  <2>2. CASE C # {}
    <3>1. PICK c \in C : TRUE
      BY <2>2
    <3>2. C = {c}
      BY <1>4, <1>8, <3>1
    <3>3. Cardinality({c}) = 1
      BY FS_Singleton
    <3> QED
      BY <3>2, <3>3
  <2> QED
    BY <2>1, <2>2
<1> QED
  BY <1>7, <1>8 DEF C

\* The walk finds no issue, and something introduced, in the well-formed lists alone.
LEMMA WellFormedIsPrefixFormed ==
  ASSUME NEW events, RangeTyped(events)
  PROVE  WellFormed(events) <=>
           /\ Len(events) > 0 /\ PrefixFormed(events, Len(events))
           /\ events[Len(events)].field = "limit" => Len(events) > 1
<1> DEFINE N == Len(events)
           Bounds == {i \in DOMAIN events : events[i].field # "limit"}
           Forms == \A i \in 1..N :
                      \/ events[i].field \in {"introduced", "fixed", "last_affected"} /\ IsVersion(events[i].value)
                      \/ events[i].field = "limit" /\ (IsVersion(events[i].value) \/ events[i].value = NoLimit)
                      \/ events[i].field = "introduced" /\ events[i].value = FromStart /\ i = 1
           Ascends == \A i, j \in 1..N : i < j /\ events[j].value # NoLimit => events[i].value < events[j].value
           LimitLast == \A i \in 1..N : events[i].field = "limit" => i = N
           Alternates == \A i \in 1..N : events[i].field # "limit" => ((events[i].field = "introduced") <=> Odd(i))
           OneCloser == \A i, j \in 1..N : {events[i].field, events[j].field} \subseteq Closers =>
                                             events[i].field = events[j].field
<1>1. N \in Nat /\ DOMAIN events = 1..N
  BY EventsTyped
<1>2. \A i \in 1..N : events[i] = [field |-> "introduced", value |-> FromStart] <=>
                        (events[i].field = "introduced" /\ events[i].value = FromStart)
  BY EventsTyped
<1>3. events # <<>> <=> N > 0
  <2>1. events \in Seq(ToSet(events))
    BY DEF RangeTyped, IsList
  <2>2. events = <<>> <=> Len(events) = 0
    BY <2>1, EmptySeq
  <2> QED
    BY <1>1, <2>2
<1>4. Forms <=>
        \A i \in DOMAIN events :
          \/ events[i].field \in {"introduced", "fixed", "last_affected"} /\ IsVersion(events[i].value)
          \/ events[i].field = "limit" /\ (IsVersion(events[i].value) \/ events[i].value = NoLimit)
          \/ events[i] = [field |-> "introduced", value |-> FromStart] /\ i = 1
  BY <1>1, <1>2
<1>5. Alternates <=> \A i \in Bounds : (events[i].field = "introduced") <=> (i % 2 = 1)
  BY <1>1 DEF Odd
<1>6. Forms => (OneCloser <=> Cardinality({events[i].field : i \in Bounds} \ {"introduced"}) <= 1)
  <2>1. Forms => \A i \in 1..N : events[i].field \in {"introduced", "limit"} \cup Closers
    BY DEF Closers
  <2> QED
    BY <2>1, OneKindOfCloser
<1>7. LimitLast /\ N > 0 => (Bounds # {} <=> (events[N].field = "limit" => N > 1))
  <2>1. ASSUME LimitLast, N > 1 PROVE Bounds # {}
    <3>1. 1 \in 1..N /\ 1 # N
      BY <1>1, <2>1
    <3> QED
      BY <1>1, <2>1, <3>1
  <2>2. ASSUME N = 1 PROVE Bounds # {} <=> events[N].field # "limit"
    <3>1. 1..N = {1}
      BY <2>2
    <3> QED
      BY <1>1, <2>2, <3>1
  <2>3. N > 0 => N = 1 \/ N > 1
    BY <1>1
  <2> QED
    BY <2>1, <2>2, <2>3
<1>8. WellFormed(events) <=>
        /\ events # <<>> /\ Bounds # {}
        /\ Forms /\ Ascends /\ LimitLast /\ Alternates
        /\ Cardinality({events[i].field : i \in Bounds} \ {"introduced"}) <= 1
  <2> HIDE DEF Forms, Alternates
  <2> QED
    BY <1>1, <1>4, <1>5 DEF WellFormed
<1>9. PrefixFormed(events, N) <=> Forms /\ Ascends /\ LimitLast /\ Alternates /\ OneCloser
  BY DEF PrefixFormed
<1> HIDE DEF Forms, Ascends, LimitLast, Alternates, OneCloser, Bounds
<1> QED
  BY <1>3, <1>6, <1>7, <1>8, <1>9 DEF N

\* What the walk covers is what the intervals of the reference cover, within the limit.
LEMMA CoveredIsInRange ==
  ASSUME NEW query \in Int, NEW events, RangeTyped(events), Len(events) > 0, PrefixFormed(events, Len(events))
  PROVE  /\ events[Len(events)].field # "limit" =>
              (InRange(query, events) <=> Covered(query, events, Len(events)))
         /\ events[Len(events)].field = "limit" =>
              (InRange(query, events) <=>
                 /\ Covered(query, events, Len(events) - 1)
                 /\ events[Len(events)].value = NoLimit \/ query < events[Len(events)].value)
<1> DEFINE N == Len(events)
<1>1. N \in Nat /\ DOMAIN events = 1..N /\ N \in 1..N
  BY EventsTyped
<1>2. \A i \in 1..N : events[i].field = "limit" => i = N
  BY DEF PrefixFormed
<1>3. \A i \in 1..N : InInterval(query, events, i) <=> InIntervalUpTo(query, events, i, N)
  BY DEF InInterval, InIntervalUpTo
<1>4. CASE events[N].field # "limit"
  <2>1. \A i \in 1..N : events[i].field # "limit"
    BY <1>2, <1>4
  <2> QED
    BY <1>1, <1>3, <1>4, <2>1 DEF InRange, Covered
<1>5. CASE events[N].field = "limit"
  <2>1. \A i \in 1..N - 1 : InInterval(query, events, i) <=> InIntervalUpTo(query, events, i, N - 1)
    <3>1. ASSUME NEW i \in 1..N - 1
          PROVE  InInterval(query, events, i) <=> InIntervalUpTo(query, events, i, N - 1)
      <4>1. CASE i = N - 1
        <5>1. i + 1 = N /\ ~(i < N - 1) /\ i < N
          BY <1>1, <4>1
        <5>2. events[i + 1].field \notin Closers
          BY <1>5, <5>1 DEF Closers
        <5>3. InInterval(query, events, i) <=> events[i].field = "introduced" /\ query >= events[i].value
          BY <5>2 DEF InInterval, Closers
        <5>4. InIntervalUpTo(query, events, i, N - 1) <=>
                events[i].field = "introduced" /\ query >= events[i].value
          BY <5>1 DEF InIntervalUpTo
        <5> QED
          BY <5>3, <5>4
      <4>2. CASE i < N - 1
        BY <1>1, <4>2 DEF InInterval, InIntervalUpTo
      <4>3. i = N - 1 \/ i < N - 1
        <5> HIDE DEF N
        <5> QED
          BY <1>1
      <4> QED
        BY <4>1, <4>2, <4>3
    <3> QED
      BY <3>1
  <2>2. ~InInterval(query, events, N)
    BY <1>5 DEF InInterval
  <2>3. (\A i \in 1..N : i = N \/ i \in 1..N - 1) /\ \A i \in 1..N - 1 : i \in 1..N
    <3> HIDE DEF N
    <3> QED
      BY <1>1
  <2>5. (\E i \in 1..N : InInterval(query, events, i)) <=> Covered(query, events, N - 1)
    BY <2>1, <2>2, <2>3 DEF Covered
  <2>6. (\A i \in 1..N : events[i].field = "limit" /\ events[i].value # NoLimit => query < events[i].value)
          <=> (events[N].value = NoLimit \/ query < events[N].value)
    BY <1>1, <1>2, <1>5
  <2> QED
    BY <1>1, <1>5, <2>5, <2>6 DEF InRange
<1> QED
  BY <1>4, <1>5

\* evaluate_semver_range gives the answer of the OSV schema: it accepts the lists of events
\* that are well formed and no others, and finds a version affected when one of their
\* intervals holds it, below the limit.
THEOREM RangesMeanWhatOsvSays ==
  ASSUME NEW query \in Int, NEW events, RangeTyped(events)
  PROVE  EvaluateSemverRange(query, events) =
           IF ~WellFormed(events) THEN "invalid-semver-events"
           ELSE IF InRange(query, events) THEN "affected" ELSE "excluded"
<1> DEFINE N == Len(events)
           w == RangeWalk(query, events)[N]
<1>1. N \in Nat /\ N \in 0..N
  BY EventsTyped
<1>2. /\ w.issue <=> ~PrefixFormed(events, N)
      /\ PrefixFormed(events, N) /\ (N > 0 => events[N].field # "limit") => WalkAgrees(query, events, w, N)
      /\ PrefixFormed(events, N) /\ N > 0 /\ events[N].field = "limit" =>
           /\ w.introduced <=> N > 1
           /\ w.affected <=> /\ Covered(query, events, N - 1)
                             /\ events[N].value = NoLimit \/ query < events[N].value
  BY <1>1, WalkReads
<1>3. WellFormed(events) <=>
        /\ N > 0 /\ PrefixFormed(events, N)
        /\ events[N].field = "limit" => N > 1
  BY WellFormedIsPrefixFormed
<1>4. EvaluateSemverRange(query, events) =
        IF w.issue \/ ~w.introduced THEN "invalid-semver-events"
        ELSE IF w.affected THEN "affected" ELSE "excluded"
  BY DEF EvaluateSemverRange
<1>5. /\ w.issue \/ ~w.introduced <=> ~WellFormed(events)
      /\ WellFormed(events) => (w.affected <=> InRange(query, events))
  <2> HIDE DEF w
  <2>1. CASE ~PrefixFormed(events, N)
    BY <1>2, <1>3, <2>1
  <2>2. CASE PrefixFormed(events, N) /\ N = 0
    BY <1>2, <1>3, <2>2 DEF WalkAgrees
  <2>3. CASE PrefixFormed(events, N) /\ N > 0 /\ events[N].field # "limit"
    <3>1. WalkAgrees(query, events, w, N) /\ ~w.issue
      BY <1>2, <2>3
    <3>2. w.introduced /\ (w.affected <=> Covered(query, events, N))
      BY <1>1, <2>3, <3>1 DEF WalkAgrees
    <3> QED
      BY <1>3, <2>3, <3>1, <3>2, CoveredIsInRange
  <2>4. CASE PrefixFormed(events, N) /\ N > 0 /\ events[N].field = "limit"
    BY <1>2, <1>3, <2>4, CoveredIsInRange
  <2> QED
    BY <1>1, <2>1, <2>2, <2>3, <2>4
<1> QED
  BY <1>4, <1>5

(***************************************************************************)
(* The verdict on a version.                                               *)
(***************************************************************************)

\* What one range says, in terms of the reference.
LEMMA VerdictsOfRanges ==
  ASSUME NEW query \in Int, NEW range, RangeTyped(range.events),
         range.kind \in {"semver", "other", "unparsable"}
  PROVE  /\ RangeVerdict(query, range) = "affected" <=>
              /\ range.kind = "semver" /\ IsVersion(query)
              /\ WellFormed(range.events) /\ InRange(query, range.events)
         /\ RangeVerdict(query, range) \in {"affected", "excluded"} <=>
              range.kind = "semver" /\ IsVersion(query) /\ WellFormed(range.events)
<1>1. EvaluateSemverRange(query, range.events) =
        IF ~WellFormed(range.events) THEN "invalid-semver-events"
        ELSE IF InRange(query, range.events) THEN "affected" ELSE "excluded"
  BY RangesMeanWhatOsvSays
<1>2. CASE range.kind = "semver" /\ IsVersion(query)
  <2>1. RangeVerdict(query, range) = EvaluateSemverRange(query, range.events)
    BY <1>2 DEF RangeVerdict
  <2> QED
    BY <1>1, <1>2, <2>1
<1>3. CASE range.kind = "semver" /\ ~IsVersion(query)
  <2>1. RangeVerdict(query, range) = "invalid-query-semver"
    BY <1>3 DEF RangeVerdict
  <2> QED
    BY <1>3, <2>1
<1>4. CASE range.kind # "semver"
  <2>1. RangeVerdict(query, range) \in {"invalid-stored-json", "unsupported-range-type"}
    BY <1>4 DEF RangeVerdict
  <2> QED
    BY <1>4, <2>1
<1> QED
  BY <1>2, <1>3, <1>4

\* The rows of the catalog, and the ranges in them, as the lemmas above take them.
LEMMA RowsHave ==
  ASSUME NEW rows, RowsTyped(rows)
  PROVE  \A i \in DOMAIN rows : \A k \in DOMAIN rows[i].ranges :
           /\ RangeTyped(rows[i].ranges[k].events)
           /\ rows[i].ranges[k].kind \in {"semver", "other", "unparsable"}
BY DEF RowsTyped, RowTyped, RangeTyped

\* A row is understood when it leaves no issue.
RowUnderstood(query, row) ==
  /\ row.versionsParse /\ row.rangesParse
  /\ row.versions # {} \/ row.ranges # <<>>
  /\ \A k \in DOMAIN row.ranges :
       row.ranges[k].kind = "semver" /\ IsVersion(query) /\ WellFormed(row.ranges[k].events)

\* A row raises no issue exactly when all of it is understood.
LEMMA UnderstoodHasNoIssues ==
  ASSUME NEW query \in Int, NEW row, RowTyped(row)
  PROVE  RowIssues(query, row) = {} <=> RowUnderstood(query, row)
<1>1. \A k \in DOMAIN row.ranges :
        RangeVerdict(query, row.ranges[k]) \in {"affected", "excluded"} <=>
          (row.ranges[k].kind = "semver" /\ IsVersion(query) /\ WellFormed(row.ranges[k].events))
  BY VerdictsOfRanges DEF RowTyped, RangeTyped
<1>2. RowIssues(query, row) = {} <=>
        /\ \A k \in DOMAIN row.ranges : RangeVerdict(query, row.ranges[k]) \in {"affected", "excluded"}
        /\ row.versionsParse /\ row.rangesParse
        /\ ~(row.rangesParse /\ row.versions = {} /\ row.ranges = <<>>)
  <2> DEFINE A == {v \in {RangeVerdict(query, row.ranges[i]) : i \in DOMAIN row.ranges} :
                     v \notin {"affected", "excluded"}}
             B == {v \in {"invalid-stored-json"} : ~row.versionsParse \/ ~row.rangesParse}
             C == {v \in {"missing-version-data"} :
                     row.rangesParse /\ row.versions = {} /\ row.ranges = <<>>}
  <2>1. A = {} <=> \A k \in DOMAIN row.ranges : RangeVerdict(query, row.ranges[k]) \in {"affected", "excluded"}
    OBVIOUS
  <2>2. B = {} <=> row.versionsParse /\ row.rangesParse
    OBVIOUS
  <2>3. C = {} <=> ~(row.rangesParse /\ row.versions = {} /\ row.ranges = <<>>)
    OBVIOUS
  <2>4. RowIssues(query, row) = A \cup B \cup C
    BY DEF RowIssues
  <2> HIDE DEF A, B, C
  <2> QED
    BY <2>1, <2>2, <2>3, <2>4
<1> QED
  BY <1>1, <1>2 DEF RowUnderstood

\* evaluate_package_version gives the status the stored rows call for, whatever they hold:
\* one row or range that affects the version is enough, and it is excluded only when all
\* of them are understood.
THEOREM VersionsAreJudgedByTheRows ==
  ASSUME NEW requested, requested.given \in BOOLEAN, requested.version \in Int,
         NEW rows, RowsTyped(rows)
  PROVE  EvaluatePackageVersion(requested, rows).status =
           IF requested.given THEN ReferenceStatus(requested.version, rows) ELSE "not-evaluated"
<1> DEFINE query == requested.version
           issues == UNION {RowIssues(query, rows[i]) : i \in DOMAIN rows}
           supported == \E i \in DOMAIN rows : RowSupported(rows[i])
           affected == \E i \in DOMAIN rows : RowAffects(query, rows[i])
           Semver == {r.events : r \in {s \in UNION {ToSet(row.ranges) : row \in ToSet(rows)} :
                                          s.kind = "semver"}}
           listed == \E row \in ToSet(rows) : query \in row.versions
           ranged == IsVersion(query) /\ \E events \in Semver : WellFormed(events) /\ InRange(query, events)
           understood == \A row \in ToSet(rows) : RowUnderstood(query, row)
<1>1. EvaluatePackageVersion(requested, rows).status =
        IF ~requested.given THEN "not-evaluated"
        ELSE IF affected THEN "affected"
        ELSE IF supported /\ issues = {} THEN "not-affected" ELSE "unknown"
  BY DEF EvaluatePackageVersion
<1>2. ReferenceStatus(query, rows) =
        IF listed \/ ranged THEN "affected"
        ELSE IF rows # <<>> /\ understood THEN "not-affected" ELSE "unknown"
  BY DEF ReferenceStatus, RowUnderstood
<1>3. ToSet(rows) = {rows[i] : i \in DOMAIN rows}
  BY DEF ToSet
<1>4. affected <=> listed \/ ranged
  <2>1. ASSUME NEW i \in DOMAIN rows, NEW k \in DOMAIN rows[i].ranges,
               RangeVerdict(query, rows[i].ranges[k]) = "affected"
        PROVE  ranged
    <3>1. /\ rows[i].ranges[k].kind = "semver" /\ IsVersion(query)
          /\ WellFormed(rows[i].ranges[k].events) /\ InRange(query, rows[i].ranges[k].events)
      BY <2>1, RowsHave, VerdictsOfRanges
    <3>2. rows[i].ranges[k] \in ToSet(rows[i].ranges) /\ rows[i] \in ToSet(rows)
      BY DEF ToSet
    <3>3. rows[i].ranges[k].events \in Semver
      BY <3>1, <3>2
    <3> HIDE DEF Semver
    <3> QED
      BY <3>1, <3>3
  <2>2. ASSUME ranged PROVE affected
    <3>1. PICK events \in Semver : WellFormed(events) /\ InRange(query, events)
      BY <2>2
    <3>6. PICK row \in ToSet(rows) :
                 \E range \in ToSet(row.ranges) : range.kind = "semver" /\ events = range.events
      BY <3>1
    <3>2. PICK range \in ToSet(row.ranges) : range.kind = "semver" /\ events = range.events
      BY <3>6
    <3>3. PICK i \in DOMAIN rows : row = rows[i]
      BY <1>3
    <3>4. PICK k \in DOMAIN rows[i].ranges : range = rows[i].ranges[k]
      BY <3>2, <3>3 DEF ToSet
    <3>5. RangeVerdict(query, rows[i].ranges[k]) = "affected"
      BY <2>2, <3>1, <3>2, <3>4, RowsHave, VerdictsOfRanges
    <3> QED
      BY <3>5 DEF RowAffects
  <2>3. affected <=> listed \/ \E i \in DOMAIN rows : \E k \in DOMAIN rows[i].ranges :
                                  RangeVerdict(query, rows[i].ranges[k]) = "affected"
    BY <1>3 DEF RowAffects
  <2> HIDE DEF affected, listed, ranged
  <2> QED
    BY <2>1, <2>2, <2>3
<1>5. issues = {} <=> understood
  <2>1. \A i \in DOMAIN rows : RowTyped(rows[i])
    BY DEF RowsTyped
  <2>2. \A i \in DOMAIN rows : RowIssues(query, rows[i]) = {} <=> RowUnderstood(query, rows[i])
    BY <2>1, UnderstoodHasNoIssues
  <2>3. issues = {} <=> \A i \in DOMAIN rows : RowIssues(query, rows[i]) = {}
    OBVIOUS
  <2>4. understood <=> \A i \in DOMAIN rows : RowUnderstood(query, rows[i])
    BY <1>3
  <2> QED
    BY <2>2, <2>3, <2>4
<1>6. ASSUME understood PROVE supported <=> rows # <<>>
  <2>1. ASSUME rows = <<>> PROVE ~supported
    BY <2>1
  <2>2. ASSUME rows # <<>> PROVE supported
    <3>1. 1 \in DOMAIN rows
      BY <2>2, EmptySeq, LenProperties DEF RowsTyped, IsList
    <3>2. RowUnderstood(query, rows[1]) /\ RowTyped(rows[1])
      BY <1>3, <1>6, <3>1 DEF RowsTyped
    <3>3. rows[1].versions # {} \/ 1 \in DOMAIN rows[1].ranges
      BY <3>2, EmptySeq, LenProperties DEF RowUnderstood, RowTyped, IsList
    <3>4. RowSupported(rows[1])
      BY <3>2, <3>3 DEF RowSupported, RowUnderstood
    <3> QED
      BY <3>1, <3>4
  <2> QED
    BY <2>1, <2>2
<1> HIDE DEF issues, supported, affected, Semver, listed, ranged, understood
<1> QED
  BY <1>1, <1>2, <1>4, <1>5, <1>6

(***************************************************************************)
(* What a correlation knows of the catalog.                                *)
(***************************************************************************)
CatalogTyped ==
  catalog \in [snapshots : SUBSET {"first"}, deltas : Nat, preparing : BOOLEAN,
               rows : SUBSET (FirstRows \cup NextRows)]

Correlations ==
  [command : {"correlate"}, step : {"check", "search", "evaluate"}, manifest : Manifests,
   finding : UNION {DOMAIN m.findings : m \in Manifests}, requested : Requests, hit : BOOLEAN,
   catalog : [snapshots : SUBSET {"first"}, deltas : Nat]]

\* A command that reads the tree, whatever it has read of it.
WalkFields ==
  {"command", "scope", "inventory", "until", "pass", "sum", "next", "root", "found"}
IsTreeWalk(j) ==
  j = [x \in WalkFields |-> j[x]] /\ j.command \in {"scope", "inventory", "inference"}
\* What a walk is made of and for does not change.
SameTask(j, k) ==
  /\ IsTreeWalk(k) /\ k.command = j.command /\ k.scope = j.scope /\ k.inventory = j.inventory
  /\ k.until = j.until
JobTyped == job = NoJob \/ job \in Correlations \/ IsTreeWalk(job)

\* A correlation reads one list of rows; and as long as the catalog is still the one the
\* document will name, whether there is an advisory is what these rows say.
CorrelationReads ==
  job \in Correlations =>
    /\ \E rows \in FirstRows \cup NextRows :
         /\ catalog.rows = {rows}
         /\ job.step = "evaluate" /\ Still => (job.hit <=> rows # <<>>)
    /\ job.catalog.deltas <= catalog.deltas

\* What the other commands write is no correlation.
LEMMA OtherDocumentsKeepVerdicts ==
  ASSUME VerdictsMatchTheCatalog, \A c \in docs' : c \in docs \/ c.kind # "correlation"
  PROVE  VerdictsMatchTheCatalog'
BY DEF VerdictsMatchTheCatalog, OfKind

\* A walk of a tree is not a correlation, and NoJob is neither.
LEMMA JobsDiffer ==
  /\ NoJob.command = "none" /\ ~IsTreeWalk(NoJob) /\ NoJob \notin Correlations
  /\ \A j \in Correlations : ~IsTreeWalk(j) /\ j.command = "correlate"
  /\ \A j : IsTreeWalk(j) => j.command # "correlate" /\ j.command # "none"
BY DEF NoJob, IsTreeWalk, WalkFields, Correlations

\* A document is written if it is valid, and refused if it is not.
LEMMA WrittenIsNew ==
  ASSUME NEW d, NEW valid, WriteNew(d, valid)
  PROVE  /\ docs' = docs \/ (valid /\ docs' = docs \cup {d})
         /\ refused' = refused \/ (~valid /\ refused' = {d})
BY DEF WriteNew

\* What the parts of a step make of the record of a walk.
Summed(j, s, n) == [j EXCEPT !.sum = s, !.next = n]
Found(j, n, x) == [j EXCEPT !.next = n, !.found = x]
Rooted(j, x) == [j EXCEPT !.root = x]
Refound(j, x) == [j EXCEPT !.found = x]

\* Updates of a walk change their own fields and no others.
LEMMA WalkUpdates ==
  ASSUME NEW j, IsTreeWalk(j)
  PROVE  \A s, n, x, p :
         /\ /\ SameTask(j, Summed(j, s, n)) /\ Summed(j, s, n).pass = j.pass
            /\ Summed(j, s, n).root = j.root /\ Summed(j, s, n).found = j.found
            /\ Summed(j, s, n).sum = s /\ Summed(j, s, n).next = n
         /\ /\ SameTask(j, Found(j, n, x)) /\ Found(j, n, x).pass = j.pass
            /\ Found(j, n, x).root = j.root /\ Found(j, n, x).sum = j.sum
            /\ Found(j, n, x).next = n /\ Found(j, n, x).found = x
         /\ /\ SameTask(j, Pass(j, p)) /\ Pass(j, p).root = j.root /\ Pass(j, p).found = j.found
            /\ Pass(j, p).pass = p /\ Pass(j, p).sum = <<>> /\ Pass(j, p).next = 1
         /\ /\ SameTask(j, Rooted(j, x)) /\ Rooted(j, x).pass = j.pass /\ Rooted(j, x).sum = j.sum
            /\ Rooted(j, x).next = j.next /\ Rooted(j, x).found = j.found /\ Rooted(j, x).root = x
         /\ /\ SameTask(j, Refound(j, x)) /\ Refound(j, x).pass = j.pass /\ Refound(j, x).sum = j.sum
            /\ Refound(j, x).next = j.next /\ Refound(j, x).root = j.root /\ Refound(j, x).found = x
<1> TAKE s, n, x, p
<1>1. DOMAIN j = WalkFields /\ j = [y \in WalkFields |-> j[y]] /\ j.command \in {"scope", "inventory", "inference"}
  BY DEF IsTreeWalk
<1>2. /\ SameTask(j, Summed(j, s, n)) /\ Summed(j, s, n).pass = j.pass
      /\ Summed(j, s, n).root = j.root /\ Summed(j, s, n).found = j.found
      /\ Summed(j, s, n).sum = s /\ Summed(j, s, n).next = n
  BY <1>1 DEF SameTask, IsTreeWalk, WalkFields, Summed
<1>3. /\ SameTask(j, Found(j, n, x)) /\ Found(j, n, x).pass = j.pass
      /\ Found(j, n, x).root = j.root /\ Found(j, n, x).sum = j.sum
      /\ Found(j, n, x).next = n /\ Found(j, n, x).found = x
  BY <1>1 DEF SameTask, IsTreeWalk, WalkFields, Found
<1>4. /\ SameTask(j, Pass(j, p)) /\ Pass(j, p).root = j.root /\ Pass(j, p).found = j.found
      /\ Pass(j, p).pass = p /\ Pass(j, p).sum = <<>> /\ Pass(j, p).next = 1
  <2> DEFINE empty == <<>>
  <2>1. Pass(j, p) = [j EXCEPT !.pass = p, !.sum = empty, !.next = 1]
    BY DEF Pass
  <2> HIDE DEF empty
  <2>2. /\ SameTask(j, Pass(j, p)) /\ Pass(j, p).root = j.root /\ Pass(j, p).found = j.found
        /\ Pass(j, p).pass = p /\ Pass(j, p).sum = empty /\ Pass(j, p).next = 1
    BY <1>1, <2>1 DEF SameTask, IsTreeWalk, WalkFields
  <2> QED
    BY <2>2 DEF empty
<1>5. /\ SameTask(j, Rooted(j, x)) /\ Rooted(j, x).pass = j.pass /\ Rooted(j, x).sum = j.sum
      /\ Rooted(j, x).next = j.next /\ Rooted(j, x).found = j.found /\ Rooted(j, x).root = x
  BY <1>1 DEF SameTask, IsTreeWalk, WalkFields, Rooted
<1>6. /\ SameTask(j, Refound(j, x)) /\ Refound(j, x).pass = j.pass /\ Refound(j, x).sum = j.sum
      /\ Refound(j, x).next = j.next /\ Refound(j, x).root = j.root /\ Refound(j, x).found = x
  BY <1>1 DEF SameTask, IsTreeWalk, WalkFields, Refound
<1> QED
  BY <1>2, <1>3, <1>4, <1>5, <1>6

\* One more file is read.
FileRead(j, g, version) ==
  IF j.command = "inventory"
  THEN ReadForInventory(g, Files[j.next], Holds[Files[j.next]][version])
  ELSE ReadForInference(g, Files[j.next], Holds[Files[j.next]][version])
ReadsOn(j, version, k) ==
  /\ SameTask(j, k) /\ k.pass = j.pass /\ k.root = j.root /\ k.next = j.next + 1
  /\ j.pass # "read" => k.sum = Append(j.sum, version) /\ k.found = j.found
  /\ j.pass = "read" => k.sum = j.sum /\ k.found = {FileRead(j, g, version) : g \in j.found}
\* A pass begins.
Begins(j, pass, root, found, k) ==
  /\ SameTask(j, k) /\ k.pass = pass /\ k.sum = <<>> /\ k.next = 1 /\ k.root = root /\ k.found = found

\* What a step of a walk does, by the pass it is in.
Proceeds(j) ==
  \/ /\ j.next <= Len(Files)
     /\ job' = j /\ docs' = docs /\ refused' = refused
  \/ /\ ~(j.next <= Len(Files))
     /\ \/ job' = NoJob /\ docs' = docs /\ refused' = refused
        \/ /\ job' = NoJob /\ refused' = refused
           /\ docs' = docs \cup {SealScope({TreeHash(j.sum)}, j.until, now)}
        \/ /\ j.pass = "root" /\ j.command # "scope" /\ RootAuthorized(j, j.sum)
           /\ Begins(j, "before", j.sum, j.found, job') /\ docs' = docs /\ refused' = refused
        \/ /\ j.pass = "before" /\ j.sum = j.root
           /\ Begins(j, "read", j.root,
                     IF j.command = "inventory" THEN {NothingFound} ELSE {Gathering(i) : i \in j.inventory},
                     job')
           /\ docs' = docs /\ refused' = refused
        \/ /\ j.pass = "read" /\ DerivedValid(Derived(j))
           /\ Begins(j, "after", j.root, j.found, job') /\ docs' = docs /\ refused' = refused
        \/ /\ j.pass = "read" /\ ~DerivedValid(Derived(j))
           /\ job' = NoJob /\ docs' = docs /\ refused' = {Derived(j)}
        \/ /\ j.pass = "after" /\ j.sum = j.root
           /\ job' = NoJob /\ docs' = docs \cup {Derived(j)} /\ refused' = refused

\* Reading a file changes the walk only, which reads on or ends.
LEMMA ReadFileDoes ==
  ASSUME IsTreeWalk(job), ReadFile
  PROVE  /\ tree' = tree /\ now' = now /\ catalog' = catalog /\ plan' = plan
         /\ \E j : ReadsOn(job, tree[job.next], j) /\ Proceeds(j)
<1> DEFINE j == ReadOne(job, tree[job.next])
<1>1. ReadsOn(job, tree[job.next], j)
  <2>1. CASE job.pass # "read"
    <3> DEFINE sum == Append(job.sum, tree[job.next])
    <3>1. j = Summed(job, sum, job.next + 1)
      BY <2>1 DEF ReadOne, Summed
    <3> HIDE DEF j
    <3>2. SameTask(job, j) /\ j.pass = job.pass /\ j.root = job.root /\ j.found = job.found
          /\ j.sum = sum /\ j.next = job.next + 1
      <4> HIDE DEF sum
      <4> QED
        BY <3>1, WalkUpdates
    <3> QED
      BY <2>1, <3>2 DEF ReadsOn
  <2>2. CASE job.pass = "read"
    <3> DEFINE found == {FileRead(job, g, tree[job.next]) : g \in job.found}
    <3>1. j = Found(job, job.next + 1, found)
      BY <2>2 DEF ReadOne, FileRead, Found
    <3> HIDE DEF j
    <3>2. j.found = found /\ j.sum = job.sum /\ SameTask(job, j) /\ j.pass = job.pass /\ j.root = job.root
          /\ j.next = job.next + 1
      <4> HIDE DEF found
      <4> QED
        BY <3>1, WalkUpdates
    <3> QED
      BY <2>2, <3>2 DEF ReadsOn
  <2> QED
    BY <2>1, <2>2
<1>2. /\ tree' = tree /\ now' = now /\ catalog' = catalog /\ plan' = plan
      /\ IF j.next <= Len(Files) THEN Goto(j) ELSE EndOfPass(j)
  BY DEF ReadFile
<1> HIDE DEF j
<1>3. IsTreeWalk(j)
  BY <1>1 DEF ReadsOn, SameTask
<1>4. ASSUME ~(j.next <= Len(Files)), EndOfPass(j) PROVE Proceeds(j)
  <2>1. \A p, x :
          /\ Begins(j, p, x, j.found, Rooted(Pass(j, p), x))
          /\ Begins(j, p, j.root, x, Refound(Pass(j, p), x))
          /\ Begins(j, p, j.root, j.found, Pass(j, p))
    <3> TAKE p, x
    <3>1. /\ SameTask(j, Pass(j, p)) /\ Pass(j, p).root = j.root /\ Pass(j, p).found = j.found
          /\ Pass(j, p).pass = p /\ Pass(j, p).sum = <<>> /\ Pass(j, p).next = 1
      BY <1>3, WalkUpdates
    <3>2. IsTreeWalk(Pass(j, p))
      BY <3>1 DEF SameTask
    <3>3. Begins(j, p, x, j.found, Rooted(Pass(j, p), x))
      BY <3>1, <3>2, WalkUpdates DEF Begins, SameTask
    <3>4. Begins(j, p, j.root, x, Refound(Pass(j, p), x))
      BY <3>1, <3>2, WalkUpdates DEF Begins, SameTask
    <3>5. Begins(j, p, j.root, j.found, Pass(j, p))
      BY <3>1 DEF Begins
    <3> QED
      BY <3>3, <3>4, <3>5
  <2>2. CASE j.pass = "root" /\ j.command = "scope"
    <3>1. job' = NoJob /\ refused' = refused
          /\ (docs' = docs \/ docs' = docs \cup {SealScope({TreeHash(j.sum)}, j.until, now)})
      BY <1>4, <2>2 DEF EndOfPass, WriteNew
    <3> QED
      BY <1>4, <3>1 DEF Proceeds
  <2>3. CASE j.pass = "root" /\ j.command # "scope"
    <3>1. IF RootAuthorized(j, j.sum) THEN Goto([Pass(j, "before") EXCEPT !.root = j.sum]) ELSE Nothing
      BY <1>4, <2>3 DEF EndOfPass
    <3>2. IF RootAuthorized(j, j.sum)
          THEN job' = Rooted(Pass(j, "before"), j.sum) /\ docs' = docs /\ refused' = refused
          ELSE job' = NoJob /\ docs' = docs /\ refused' = refused
      BY <3>1 DEF Goto, Nothing, Rooted
    <3>3. RootAuthorized(j, j.sum) => Begins(j, "before", j.sum, j.found, job')
      BY <2>1, <3>2
    <3> QED
      BY <1>4, <2>3, <3>2, <3>3 DEF Proceeds
  <2>4. CASE j.pass = "before"
    <3> DEFINE found == IF j.command = "inventory" THEN {NothingFound} ELSE {Gathering(i) : i \in j.inventory}
    <3>1. IF j.sum # j.root THEN Nothing ELSE Goto([Pass(j, "read") EXCEPT !.found = found])
      BY <1>4, <2>4 DEF EndOfPass
    <3> HIDE DEF found
    <3>2. IF j.sum # j.root
          THEN job' = NoJob /\ docs' = docs /\ refused' = refused
          ELSE job' = Refound(Pass(j, "read"), found) /\ docs' = docs /\ refused' = refused
      BY <3>1 DEF Goto, Nothing, Refound
    <3>3. j.sum = j.root => Begins(j, "read", j.root, found, job')
      BY <2>1, <3>2
    <3> QED
      BY <1>4, <2>4, <3>2, <3>3 DEF Proceeds, found
  <2>5. CASE j.pass = "read"
    <3>1. IF DerivedValid(Derived(j)) THEN Goto(Pass(j, "after"))
          ELSE job' = NoJob /\ WriteNew(Derived(j), FALSE)
      BY <1>4, <2>5 DEF EndOfPass
    <3>2. IF DerivedValid(Derived(j))
          THEN job' = Pass(j, "after") /\ docs' = docs /\ refused' = refused
          ELSE job' = NoJob /\ docs' = docs /\ refused' = {Derived(j)}
      BY <3>1 DEF Goto, WriteNew
    <3>3. DerivedValid(Derived(j)) => Begins(j, "after", j.root, j.found, job')
      BY <2>1, <3>2
    <3> QED
      BY <1>4, <2>5, <3>2, <3>3 DEF Proceeds
  <2>6. CASE j.pass = "after"
    <3>1. IF j.sum = j.root THEN job' = NoJob /\ WriteNew(Derived(j), TRUE) ELSE Nothing
      BY <1>4, <2>6 DEF EndOfPass, TreePreserved
    <3>2. IF j.sum = j.root THEN job' = NoJob /\ docs' = docs \cup {Derived(j)} /\ refused' = refused
          ELSE job' = NoJob /\ docs' = docs /\ refused' = refused
      BY <3>1 DEF WriteNew, Nothing
    <3> QED
      BY <1>4, <2>6, <3>2 DEF Proceeds
  <2> QED
    BY <1>4, <2>2, <2>3, <2>4, <2>5, <2>6 DEF EndOfPass
<1>5. j.next <= Len(Files) => Proceeds(j)
  BY <1>2 DEF Goto, Proceeds
<1> QED
  BY <1>1, <1>2, <1>4, <1>5

(***************************************************************************)
(* Documents that are made of documents pass their own checks.             *)
(***************************************************************************)
AssessmentFields == {"kind", "parent", "scope", "inventories", "observations", "summary"}
ObservationFields == {"route", "rule", "class", "listed", "references", "reproduction"}
IsObservation(o) == o = [x \in ObservationFields |-> o[x]] /\ IsFiniteSet(o.references)
IsAssessment(a) ==
  /\ a = [x \in AssessmentFields |-> a[x]] /\ a.kind = "assessment"
  /\ \A o \in a.observations : IsObservation(o)
\* An observation has more references or a longer list than it may.
OverLimit(a) ==
  \E o \in a.observations : Cardinality(o.references) > MaxReferences \/ ~LimitationFits(o)

\* Summing up again gives the same, as what was abstained from is taken over.
LEMMA SummarizeTwice ==
  \A observations, abstentions :
    Summarize(observations, Summarize(observations, abstentions).abstentions)
      = Summarize(observations, abstentions)
BY DEF Summarize

\* An assessment is valid as it is derived, nothing in it being reproduced yet, unless a list
\* of excess fields is too long.
LEMMA DerivedAssessmentIsValid ==
  ASSUME NEW s, NEW i, NEW rows, \A r \in rows : CoverageValid(r) /\ IsFiniteSet(r.references)
  PROVE  LET a == AssessRoutes(s, i, rows) IN IsAssessment(a) /\ (AssessmentValid(a) \/ OverLimit(a))
<1> DEFINE observations == UNION {Observed(r) : r \in rows}
           Total == MapThenSumSet(Abstentions, rows)
           a == AssessRoutes(s, i, rows)
<1>1. a = [kind |-> "assessment", parent |-> {}, scope |-> s, inventories |-> {i},
           observations |-> observations, summary |-> Summarize(observations, Total)]
  BY DEF AssessRoutes
<1>2. ASSUME NEW o \in observations
      PROVE  /\ IsObservation(o) /\ o.references # {} /\ Cardinality(o.references) <= MaxReferences
             /\ o.reproduction = {} /\ o.class # "human-validated"
  <2>1. PICK r \in rows : o \in Observed(r)
    BY <1>2
  <2>2. r.references # {} /\ Cardinality(r.references) <= MaxReferences /\ IsFiniteSet(r.references)
    BY <2>1 DEF CoverageValid
  <2> DEFINE Noted(rule, class, listed) ==
               [route |-> r.route, rule |-> rule, class |-> class, listed |-> listed,
                references |-> r.references, reproduction |-> {}]
  <2>3. PICK rule, class, listed : class \in {"candidate", "hardening"} /\ o = Noted(rule, class, listed)
    <3>1. \E rule, class, listed : class \in {"candidate", "hardening"} /\ o = Noted(rule, class, listed)
      BY <2>1 DEF Observed
    <3> QED
      BY <3>1
  <2>4. o = [x \in ObservationFields |-> o[x]]
    BY <2>3 DEF ObservationFields
  <2>5. o.references = r.references /\ o.reproduction = {} /\ o.class = class
    BY <2>3
  <2>6. o.class # "human-validated"
    BY <2>3, <2>5
  <2> HIDE DEF Noted
  <2> QED
    BY <2>2, <2>4, <2>5, <2>6 DEF IsObservation
<1> HIDE DEF Total, observations, a
<1>3. /\ a.kind = "assessment" /\ a.parent = {} /\ a.observations = observations
      /\ a.summary = Summarize(observations, Total)
      /\ a = [x \in AssessmentFields |-> a[x]]
  <2>1. a.kind = "assessment" /\ a.parent = {} /\ a.observations = observations
    BY <1>1
  <2>2. a.summary = Summarize(observations, Total)
    BY <1>1
  <2>3. a = [x \in AssessmentFields |-> a[x]]
    BY <1>1 DEF AssessmentFields
  <2> QED
    BY <2>1, <2>2, <2>3
<1>4. IsAssessment(a)
  BY <1>2, <1>3 DEF IsAssessment
<1>5. {o \in a.observations : o.reproduction # {}} = {}
  BY <1>2, <1>3
<1>6. a.summary = Summarize(a.observations, a.summary.abstentions)
  BY <1>3, SummarizeTwice
<1>7. ASSUME ~OverLimit(a) PROVE AssessmentValid(a)
  <2>1. \A o \in a.observations : ObservationValid(o)
    BY <1>2, <1>3, <1>7 DEF ObservationValid, OverLimit
  <2> QED
    BY <1>3, <1>5, <1>6, <2>1 DEF AssessmentValid
<1> QED
  BY <1>4, <1>7 DEF a

\* A human validation keeps an assessment valid, unless the reproduction is one reference
\* too many.
LEMMA ValidatedAssessmentIsValid ==
  ASSUME NEW a, IsAssessment(a), AssessmentValid(a), NEW o \in a.observations, MayValidate(o),
         NEW reproduction
  PROVE  LET b == RecordHumanValidation(a, o, reproduction)
         IN IsAssessment(b) /\ (AssessmentValid(b) \/ OverLimit(b))
<1> DEFINE b == RecordHumanValidation(a, o, reproduction)
           v == Validated(o, reproduction)
           references == o.references \cup {reproduction}
           observations == (a.observations \ {o}) \cup {v}
           parent == {a}
<1>0. MaxReferences \in Nat
  BY WebLimits
<1>1. DOMAIN o = ObservationFields /\ IsFiniteSet(o.references)
  BY DEF IsAssessment, IsObservation
<1>2. IsFiniteSet(references) /\ Cardinality(references) \in Nat
  BY <1>1, FS_AddElement, FS_CardinalityType
<1>3. /\ v.references = references /\ v.class = "human-validated" /\ v.reproduction = {reproduction}
      /\ v = [x \in ObservationFields |-> v[x]]
  <2> HIDE DEF references
  <2>1. v = [o EXCEPT !.references = references, !.class = "human-validated",
                      !.reproduction = {reproduction}]
    BY DEF Validated, references
  <2> HIDE DEF v
  <2> QED
    BY <1>1, <2>1 DEF ObservationFields
<1> HIDE DEF v
<1>4. IsObservation(v)
  BY <1>2, <1>3 DEF IsObservation
<1>5. b = [a EXCEPT !.parent = parent, !.observations = observations, !.summary = Recounted(a, observations)]
  BY DEF RecordHumanValidation, v
<1>6. DOMAIN a = AssessmentFields
  BY DEF IsAssessment
<1> HIDE DEF parent, observations, b
<1>7. /\ b.kind = a.kind /\ b.parent = parent /\ b.observations = observations
      /\ b.summary = Recounted(a, observations) /\ b = [x \in AssessmentFields |-> b[x]]
  BY <1>5, <1>6 DEF AssessmentFields
<1>8. \A x \in observations : x \in a.observations \/ x = v
  BY DEF observations
<1>9. v \in observations
  BY DEF observations
<1>10. IsAssessment(b)
  BY <1>4, <1>7, <1>8 DEF IsAssessment
<1>11. b.summary = Summarize(b.observations, b.summary.abstentions)
  <2>1. b.summary = Summarize(observations, a.summary.abstentions)
    BY <1>7 DEF Recounted
  <2> QED
    BY <1>7, <2>1, SummarizeTwice
<1>12. b.parent # {} /\ {x \in b.observations : x.reproduction # {}} # {}
  BY <1>3, <1>7, <1>9 DEF parent
<1>13. ASSUME ~OverLimit(b) PROVE AssessmentValid(b)
  <2>1. LimitationFits(v) /\ ~(Cardinality(v.references) > MaxReferences)
    BY <1>7, <1>9, <1>13 DEF OverLimit
  <2>2. v.references # {} /\ Cardinality(v.references) <= MaxReferences
    <3>1. references # {}
      OBVIOUS
    <3> HIDE DEF references
    <3> QED
      BY <1>0, <1>2, <1>3, <2>1, <3>1
  <2>3. v.reproduction # {} /\ v.reproduction \subseteq v.references
    BY <1>3
  <2>4. ObservationValid(v)
    BY <1>3, <2>1, <2>2, <2>3 DEF ObservationValid
  <2>5. \A x \in b.observations : ObservationValid(x)
    BY <1>7, <1>8, <2>4 DEF AssessmentValid
  <2> QED
    BY <1>11, <1>12, <2>5 DEF AssessmentValid
<1> QED
  BY <1>10, <1>13 DEF b

\* Entries marked with one name are as many as there are of them.
MarkedWith(S, mark) == {x \in S : x[1] = mark}
Marking(A, mark, B, other) == {<<mark, r>> : r \in A} \cup {<<other, r>> : r \in B}

\* Of what is marked in two ways, those of one mark are as many as were marked so.
LEMMA MarkedEntries ==
  ASSUME NEW A, NEW B, IsFiniteSet(A), NEW mark, NEW other, mark # other
  PROVE  Cardinality(MarkedWith(Marking(A, mark, B, other), mark)) = Cardinality(A)
<1> DEFINE M == {<<mark, r>> : r \in A}
           f == [r \in A |-> <<mark, r>>]
<1>1. MarkedWith(Marking(A, mark, B, other), mark) = M
  BY DEF MarkedWith, Marking
<1>2. f \in Bijection(A, M)
  BY DEF Bijection, Injection, Surjection, IsInjective
<1>3. ExistsBijection(A, M)
  BY <1>2 DEF ExistsBijection
<1>4. Cardinality(M) = Cardinality(A)
  BY <1>3, FS_Bijection
<1> QED
  BY <1>1, <1>4

\* The counts of a comparison are those of its mismatches, and its ratios are ratios.
LEMMA LabIsValid ==
  ASSUME NEW i, IsFiniteSet(i.routes), NEW case, IsFiniteSet(case)
  PROVE  LabValid(CompareInventory(i, case))
<1> DEFINE actual == {Expected(r) : r \in i.routes}
           matched == Cardinality(case \cap actual)
           expected == Cardinality(case)
           reported == Cardinality(actual)
           missing == expected - matched
           unexpected == reported - matched
           mismatches == {<<"missing", r>> : r \in case \ actual}
                           \cup {<<"unexpected", r>> : r \in actual \ case}
           l == CompareInventory(i, case)
<1>1. IsFiniteSet(actual)
  <2> DEFINE f == [r \in i.routes |-> Expected(r)]
  <2>1. f \in Surjection(i.routes, actual)
    BY DEF Surjection
  <2> QED
    BY <2>1, FS_Surjection
<1>2. /\ case \cap actual = actual \cap case
      /\ matched \in Nat /\ expected \in Nat /\ reported \in Nat
      /\ matched <= expected /\ matched <= reported
  <2>1. IsFiniteSet(case \cap actual) /\ matched <= expected
    BY FS_Intersection
  <2>2. matched <= reported
    BY <1>1, FS_Intersection
  <2> QED
    BY <1>1, <2>1, <2>2, FS_CardinalityType
<1>3. Cardinality(case \ actual) = missing /\ Cardinality(actual \ case) = unexpected
  BY <1>1, <1>2, FS_Difference
<1>4. IsFiniteSet(case \ actual) /\ IsFiniteSet(actual \ case)
  BY <1>1, FS_Difference
<1>5. Cardinality({x \in mismatches : x[1] = "missing"}) = missing
  <2> DEFINE A == case \ actual
             B == actual \ case
  <2>1. IsFiniteSet(A) /\ Cardinality(A) = missing
    BY <1>3, <1>4
  <2>2. mismatches = Marking(A, "missing", B, "unexpected")
    BY DEF Marking
  <2>3. "missing" # "unexpected"
    OBVIOUS
  <2> HIDE DEF A, B, mismatches, missing, unexpected
  <2>4. Cardinality(MarkedWith(mismatches, "missing")) = Cardinality(A)
    BY <2>1, <2>2, <2>3, MarkedEntries
  <2>5. MarkedWith(mismatches, "missing") = {x \in mismatches : x[1] = "missing"}
    BY DEF MarkedWith
  <2> QED
    BY <2>1, <2>4, <2>5
<1>6. Cardinality({x \in mismatches : x[1] = "unexpected"}) = unexpected
  <2> DEFINE A == actual \ case
             B == case \ actual
  <2>1. IsFiniteSet(A) /\ Cardinality(A) = unexpected
    BY <1>3, <1>4
  <2>2. mismatches = Marking(A, "unexpected", B, "missing")
    BY DEF Marking
  <2>3. "unexpected" # "missing"
    OBVIOUS
  <2> HIDE DEF A, B, mismatches, missing, unexpected
  <2>4. Cardinality(MarkedWith(mismatches, "unexpected")) = Cardinality(A)
    BY <2>1, <2>2, <2>3, MarkedEntries
  <2>5. MarkedWith(mismatches, "unexpected") = {x \in mismatches : x[1] = "unexpected"}
    BY DEF MarkedWith
  <2> QED
    BY <2>1, <2>4, <2>5
<1>7. /\ l.expected = expected /\ l.reported = reported /\ l.matched = matched
      /\ l.missing = missing /\ l.unexpected = unexpected /\ l.mismatches = mismatches
      /\ l.precision = Ratio(matched, reported) /\ l.recall = Ratio(matched, expected)
      /\ l.f1 = Ratio(2 * matched, 2 * matched + missing + unexpected)
  BY DEF CompareInventory
<1> HIDE DEF l, mismatches, missing, unexpected
<1>8. missing \in Nat /\ unexpected \in Nat /\ matched + missing = expected /\ matched + unexpected = reported
  BY <1>2 DEF missing, unexpected
<1> HIDE DEF matched, expected, reported, actual
<1>9. \A n, d \in Nat : n <= d => RatioValid(Ratio(n, d))
  BY DEF RatioValid, Ratio
<1>10. RatioValid(l.precision) /\ RatioValid(l.recall) /\ RatioValid(l.f1)
  <2>1. 2 * matched \in Nat /\ 2 * matched + missing + unexpected \in Nat
        /\ 2 * matched <= 2 * matched + missing + unexpected
    BY <1>2, <1>8
  <2> QED
    BY <1>2, <1>7, <1>9, <2>1
<1> QED
  BY <1>5, <1>6, <1>7, <1>8, <1>10 DEF LabValid, l

\* Every expectation of a corpus passes or fails.
LEMMA CorpusResultIsValid ==
  ASSUME NEW i, NEW f, NEW corpus, IsFiniteSet(corpus)
  PROVE  CorpusResultValid(EvaluateCorpus(i, f, corpus))
<1> DEFINE passed == {e \in corpus : Satisfied(e, i, f)}
           cases == [e \in corpus |-> e \in passed]
           r == EvaluateCorpus(i, f, corpus)
<1>1. /\ r.corpus = corpus /\ r.cases = cases
      /\ r.passed = Cardinality(passed) /\ r.failed = Cardinality(corpus \ passed)
  BY DEF EvaluateCorpus
<1>2. {e \in corpus : cases[e]} = passed
  OBVIOUS
<1>3. IsFiniteSet(passed) /\ corpus \cap passed = passed
  BY FS_Subset
<1>4. Cardinality(passed) \in Nat /\ Cardinality(corpus) \in Nat
      /\ Cardinality(corpus \ passed) = Cardinality(corpus) - Cardinality(passed)
  BY <1>3, FS_Difference, FS_CardinalityType
<1>5. {e \in r.corpus : r.cases[e]} = passed
  BY <1>1, <1>2
<1> HIDE DEF passed, cases, r
<1>6. CorpusResultValid(r)
  <2>1. r.passed + r.failed = Cardinality(r.corpus)
    BY <1>1, <1>4
  <2>2. Cardinality({e \in r.corpus : r.cases[e]}) = r.passed
    BY <1>1, <1>5
  <2> QED
    BY <2>1, <2>2, Zenon DEF CorpusResultValid
<1> QED
  BY <1>6 DEF r

(***************************************************************************)
(* What is gathered of the mentions of a tree.                             *)
(***************************************************************************)

\* Mentions of things a candidate can be of.
AreMentions(M) ==
  IsFiniteSet(M) /\ \A m \in M : m = [key |-> m.key, is |-> m.is] /\ KeyValid(m.key)
Keys(M) == {m.key : m \in M}
Places(M) == {m.is : m \in M}
\* What entries claim to be mentioned.
Claimed(entries) == UNION {{[key |-> k, is |-> r] : r \in entries[k]} : k \in DOMAIN entries}
EntriesOf(M) == UNION {[K -> (SUBSET Places(M)) \ {{}}] : K \in SUBSET Keys(M)}
Gathered(M) ==
  {g \in [entries : EntriesOf(M), full : BOOLEAN, truncated : BOOLEAN] : Claimed(g.entries) \subseteq M}

\* What is gathered of some mentions is gathered of more.
LEMMA GatheredOfMore ==
  ASSUME NEW M, NEW N, M \subseteq N
  PROVE  Gathered(M) \subseteq Gathered(N)
<1>1. Keys(M) \subseteq Keys(N) /\ Places(M) \subseteq Places(N)
  BY DEF Keys, Places
<1>2. ASSUME NEW e \in EntriesOf(M) PROVE e \in EntriesOf(N)
  <2>1. PICK K \in SUBSET Keys(M) : e \in [K -> (SUBSET Places(M)) \ {{}}]
    BY <1>2 DEF EntriesOf
  <2>2. K \in SUBSET Keys(N) /\ e \in [K -> (SUBSET Places(N)) \ {{}}]
    BY <1>1, <2>1
  <2> QED
    BY <2>2 DEF EntriesOf
<1> QED
  BY <1>2 DEF Gathered

\* The entries with one mention more.
Grown(e, m) ==
  [key \in DOMAIN e \cup {m.key} |->
     (IF key \in DOMAIN e THEN e[key] ELSE {}) \cup (IF key = m.key THEN {m.is} ELSE {})]

\* A candidate that grows by a mention claims that one too.
LEMMA GrownClaims ==
  ASSUME NEW M, NEW e \in EntriesOf(M), NEW m \in M, m = [key |-> m.key, is |-> m.is]
  PROVE  Grown(e, m) \in EntriesOf(M) /\ Claimed(Grown(e, m)) = Claimed(e) \cup {m}
<1>1. PICK K \in SUBSET Keys(M) : e \in [K -> (SUBSET Places(M)) \ {{}}]
  BY DEF EntriesOf
<1>2. m.key \in Keys(M) /\ m.is \in Places(M)
  BY DEF Keys, Places
<1>3. ASSUME NEW k \in K \cup {m.key} PROVE Grown(e, m)[k] \in (SUBSET Places(M)) \ {{}}
  <2>1. k \in K => e[k] \in (SUBSET Places(M)) \ {{}}
    BY <1>1
  <2>2. Grown(e, m)[k] = (IF k \in K THEN e[k] ELSE {}) \cup (IF k = m.key THEN {m.is} ELSE {})
    BY <1>1, <1>3 DEF Grown
  <2> QED
    BY <1>2, <1>3, <2>1, <2>2
<1>4. Grown(e, m) \in [K \cup {m.key} -> (SUBSET Places(M)) \ {{}}]
  BY <1>1, <1>3 DEF Grown
<1>5. Grown(e, m) \in EntriesOf(M)
  BY <1>2, <1>4 DEF EntriesOf
<1>6. \A k, r : (k \in DOMAIN Grown(e, m) /\ r \in Grown(e, m)[k])
                  <=> (k \in DOMAIN e /\ r \in e[k]) \/ (k = m.key /\ r = m.is)
  BY DEF Grown
<1>7. Claimed(Grown(e, m)) \subseteq Claimed(e) \cup {m}
  <2> SUFFICES ASSUME NEW c \in Claimed(Grown(e, m)) PROVE c \in Claimed(e) \cup {m}
    OBVIOUS
  <2>1. PICK k, r : k \in DOMAIN Grown(e, m) /\ r \in Grown(e, m)[k] /\ c = [key |-> k, is |-> r]
    BY DEF Claimed
  <2> QED
    BY <1>6, <2>1 DEF Claimed
<1>8. Claimed(e) \cup {m} \subseteq Claimed(Grown(e, m))
  <2> SUFFICES ASSUME NEW c \in Claimed(e) \cup {m} PROVE c \in Claimed(Grown(e, m))
    OBVIOUS
  <2>1. \E k, r : /\ (k \in DOMAIN e /\ r \in e[k]) \/ (k = m.key /\ r = m.is)
                  /\ c = [key |-> k, is |-> r]
    BY DEF Claimed
  <2> QED
    BY <1>6, <2>1 DEF Claimed
<1> QED
  BY <1>5, <1>7, <1>8

\* One mention is added, or the list is full.
LEMMA AddCandidateDoes ==
  ASSUME NEW M, NEW g \in Gathered(M), NEW m \in M, m = [key |-> m.key, is |-> m.is]
  PROVE  LET h == AddCandidate(g, m)
         IN /\ h \in Gathered(M) /\ h.truncated = g.truncated /\ (g.full => h.full)
            /\ h.full \/ Claimed(h.entries) = Claimed(g.entries) \cup {m}
<1>1. /\ g \in [entries : EntriesOf(M), full : BOOLEAN, truncated : BOOLEAN]
      /\ Claimed(g.entries) \subseteq M
  BY DEF Gathered
<1>2. CASE AddCandidate(g, m) = [g EXCEPT !.full = TRUE]
  BY <1>1, <1>2 DEF Gathered
<1>3. CASE AddCandidate(g, m) = [g EXCEPT !.entries = Grown(g.entries, m)]
  <2> DEFINE more == Grown(g.entries, m)
  <2>1. more \in EntriesOf(M) /\ Claimed(more) = Claimed(g.entries) \cup {m}
    BY <1>1, GrownClaims
  <2> HIDE DEF more
  <2>2. AddCandidate(g, m) = [g EXCEPT !.entries = more]
    BY <1>3 DEF more
  <2> QED
    BY <1>1, <2>1, <2>2 DEF Gathered
<1>4. AddCandidate(g, m) = [g EXCEPT !.full = TRUE]
      \/ AddCandidate(g, m) = [g EXCEPT !.entries = Grown(g.entries, m)]
  BY DEF AddCandidate, Grown
<1> QED
  BY <1>2, <1>3, <1>4

\* And so are all mentions of a list.
LEMMA AddAllDoes ==
  ASSUME NEW M, \A m \in M : m = [key |-> m.key, is |-> m.is],
         NEW g \in Gathered(M), NEW mentions, IsList(mentions), ToSet(mentions) \subseteq M
  PROVE  LET h == AddAll(g, mentions)
         IN /\ h \in Gathered(M) /\ h.truncated = g.truncated /\ (g.full => h.full)
            /\ h.full \/ Claimed(h.entries) = Claimed(g.entries) \cup ToSet(mentions)
<1> DEFINE last == Len(mentions)
           next == [x \in (1..last) \X Gathered(M) |-> AddCandidate(x[2], mentions[x[1]])]
<1>1. /\ last \in Nat /\ DOMAIN mentions = 1..last
      /\ \A n \in 1..last : mentions[n] \in M /\ mentions[n] \in ToSet(mentions)
  BY LenProperties DEF IsList, ToSet
<1>2. next \in [(1..last) \X Gathered(M) -> Gathered(M)]
  BY <1>1, AddCandidateDoes
<1>3. PICK out \in [0..last -> Gathered(M)] : IsWalk(out, g, next, last)
  <2> HIDE DEF next, last
  <2> QED
    BY <1>1, <1>2, WalkExists
<1> DEFINE Step(out0) == [n \in 0..last |-> IF n = 0 THEN g ELSE AddCandidate(out0[n - 1], mentions[n])]
<1>4. \A n \in 1..last : out[n] = AddCandidate(out[n - 1], mentions[n])
  <2> TAKE n \in 1..last
  <2>1. n \in 0..last /\ n # 0 /\ n - 1 \in 0..last
    BY <1>1
  <2>2. out[n] = next[<<n, out[n - 1]>>]
    BY <1>3, <2>1 DEF IsWalk
  <2>3. <<n, out[n - 1]>> \in (1..last) \X Gathered(M)
    BY <1>3, <2>1
  <2> QED
    BY <2>2, <2>3
<1>5. out[0] = g
  BY <1>1, <1>3 DEF IsWalk
<1>6. out = Step(out)
  <2>1. out = [n \in 0..last |-> out[n]]
    BY <1>3
  <2>2. \A n \in 0..last : out[n] = IF n = 0 THEN g ELSE AddCandidate(out[n - 1], mentions[n])
    BY <1>4, <1>5
  <2> QED
    BY <2>1, <2>2
<1>7. PICK w : w = Step(w) /\ AddAll(g, mentions) = w[last]
  <2> DEFINE w == CHOOSE w : w = Step(w)
  <2>1. w = Step(w)
    BY <1>6
  <2>2. AddAll(g, mentions) = w[last]
    BY DEF AddAll
  <2> HIDE DEF w
  <2> QED
    BY <2>1, <2>2
<1>8. \A n \in 0..last : w[n] = IF n = 0 THEN g ELSE AddCandidate(w[n - 1], mentions[n])
  BY <1>7
<1> DEFINE Taken(n) == {mentions[i] : i \in 1..n}
           Good == {n \in 0..last :
                      /\ w[n] \in Gathered(M) /\ w[n].truncated = g.truncated /\ (g.full => w[n].full)
                      /\ w[n].full \/ Claimed(w[n].entries) = Claimed(g.entries) \cup Taken(n)}
<1>9. 0 \in Good
  <2>1. 0 \in 0..last /\ w[0] = g
    BY <1>1, <1>8
  <2>2. Taken(0) = {}
    OBVIOUS
  <2> QED
    BY <2>1, <2>2
<1>10. ASSUME NEW n \in 1..last, n - 1 \in Good PROVE n \in Good
  <2> DEFINE v == w[n - 1]
  <2>1. /\ v \in Gathered(M) /\ v.truncated = g.truncated /\ (g.full => v.full)
        /\ v.full \/ Claimed(v.entries) = Claimed(g.entries) \cup Taken(n - 1)
    BY <1>10
  <2>2. w[n] = AddCandidate(v, mentions[n]) /\ n \in 0..last
    BY <1>1, <1>8
  <2>3. mentions[n] \in M /\ mentions[n] = [key |-> mentions[n].key, is |-> mentions[n].is]
    BY <1>1
  <2>4. Taken(n) = Taken(n - 1) \cup {mentions[n]}
    <3>1. 1..n = 1..(n - 1) \cup {n}
      BY <1>1
    <3> QED
      BY <3>1
  <2>5. LET h == AddCandidate(v, mentions[n])
        IN /\ h \in Gathered(M) /\ h.truncated = v.truncated /\ (v.full => h.full)
           /\ h.full \/ Claimed(h.entries) = Claimed(v.entries) \cup {mentions[n]}
    <3> HIDE DEF v
    <3> QED
      BY <2>1, <2>3, AddCandidateDoes
  <2> HIDE DEF v, Taken
  <2> QED
    BY <2>1, <2>2, <2>4, <2>5
<1>11. last \in Good
  <2> HIDE DEF Good
  <2> QED
    BY <1>1, <1>9, <1>10, UpToLast
<1>12. Taken(last) = ToSet(mentions)
  BY <1>1 DEF ToSet
<1> HIDE DEF Taken
<1> QED
  BY <1>7, <1>11, <1>12

\* A file stands for one route or for none.
RouteTyped(r) == RouteShaped(r) /\ r.at # NoOperation

\* classify_next_file: a file is one route, well described whatever its path, or none.
LEMMA OneRouteOrNone ==
  ASSUME NEW f, f # NoOperation, NEW c, ContentTyped(c)
  PROVE  \/ ClassifyNextFile(f, c) = {}
         \/ \E r : ClassifyNextFile(f, c) = {r} /\ RouteTyped(r)
<1> DEFINE Route(kind, route, methods, evidence) ==
             [kind |-> kind, route |-> route, methods |-> methods, evidence |-> evidence, at |-> f]
<1>1. \A kind, route, methods, evidence :
        LET r == Route(kind, route, methods, evidence)
        IN r.kind = kind /\ r.route = route /\ r.methods = methods /\ r.evidence = evidence /\ r.at = f
  OBVIOUS
<1>2. CASE c.shape = "app-route"
  <2>1. ClassifyNextFile(f, c) = {Route("api-route", c.path, c.exports,
                                        IF c.exports = {} THEN "unknown" ELSE "declared-export")}
    BY <1>2 DEF ClassifyNextFile
  <2>2. c.path # NoRoute
    BY <1>2 DEF ContentTyped
  <2> HIDE DEF Route
  <2> QED
    BY <1>1, <2>1, <2>2 DEF RouteTyped, RouteShaped
<1>3. CASE c.shape \in {"app-page", "pages-page"}
  <2>1. ClassifyNextFile(f, c) = {Route("page-route", c.path, {"GET"}, "framework-default")}
    BY <1>3 DEF ClassifyNextFile
  <2>2. c.path # NoRoute
    BY <1>3 DEF ContentTyped
  <2> HIDE DEF Route
  <2> QED
    BY <1>1, <2>1, <2>2 DEF RouteTyped, RouteShaped
<1>4. CASE c.shape = "pages-api"
  <2>1. ClassifyNextFile(f, c) = {Route("api-route", c.path, {}, "unknown")}
    BY <1>4 DEF ClassifyNextFile
  <2>2. c.path # NoRoute
    BY <1>4 DEF ContentTyped
  <2> HIDE DEF Route
  <2> QED
    BY <1>1, <2>1, <2>2 DEF RouteTyped, RouteShaped
<1>5. CASE c.shape = "middleware"
  <2>1. ClassifyNextFile(f, c) = {Route("middleware", NoRoute, {}, "not-applicable")}
    BY <1>5 DEF ClassifyNextFile
  <2> HIDE DEF Route
  <2> QED
    BY <1>1, <2>1 DEF RouteTyped, RouteShaped
<1>6. CASE c.shape = "use-server"
  <2>1. ClassifyNextFile(f, c) = {Route("server-action", NoRoute, {"POST"}, "framework-default")}
    BY <1>6 DEF ClassifyNextFile
  <2> HIDE DEF Route
  <2> QED
    BY <1>1, <2>1 DEF RouteTyped, RouteShaped
<1>7. CASE c.shape \notin {"app-route", "app-page", "pages-page", "pages-api", "middleware", "use-server"}
  BY <1>7 DEF ClassifyNextFile
<1> QED
  BY <1>2, <1>3, <1>4, <1>5, <1>6, <1>7

\* What a finite set is written out as.
LEMMA SetAsList ==
  ASSUME NEW S, IsFiniteSet(S)
  PROVE  IsList(SetToSeq(S)) /\ ToSet(SetToSeq(S)) = S
<1> DEFINE n == Cardinality(S)
           s == SetToSeq(S)
<1>1. n \in Nat /\ ExistsBijection(1..n, S)
  BY FS_CardinalityType
<1>2. \E f \in [1..n -> S] : IsInjective(f)
  BY <1>1 DEF ExistsBijection, Bijection, Injection
<1>3. s \in [1..n -> S] /\ IsInjective(s)
  BY <1>2 DEF SetToSeq
<1> HIDE DEF s
<1>4. s \in Injection(1..n, S)
  BY <1>3 DEF Injection
<1>5. Cardinality(1..n) = n
  BY <1>1, FS_Interval
<1>6. s \in Surjection(1..n, S)
  BY <1>4, <1>5, FS_Injection
<1>7. ToSet(s) = S
  BY <1>3, <1>6 DEF Surjection, ToSet
<1>8. s \in Seq(S)
  <2> HIDE DEF n
  <2> QED
    BY <1>1, <1>3
<1> QED
  BY <1>7, <1>8 DEF IsList, s

\* The routes of an inventory as mentions.
RoutesTyped(routes) == IsFiniteSet(routes) /\ \A r \in routes : RouteTyped(r)

\* The routes that an inventory hands to an inference are mentions like any others.
LEMMA ImplementedAreMentions ==
  ASSUME NEW i, RoutesTyped(i.routes)
  PROVE  AreMentions(Implemented(i))
<1> DEFINE routes == {r \in i.routes : r.kind \in {"api-route", "server-action"}}
           As(r) == Mention(IF r.kind = "server-action" THEN Key("server-action", NoRoute, r.at)
                                                        ELSE Key("http-endpoint", r.route, NoOperation),
                            "implemented-route", r.at, 1)
           f == [r \in routes |-> As(r)]
<1>1. Implemented(i) = {As(r) : r \in routes}
  BY DEF Implemented
<1>2. IsFiniteSet(routes)
  <2>1. routes \in SUBSET i.routes
    OBVIOUS
  <2> HIDE DEF routes
  <2> QED
    BY <2>1, FS_Subset DEF RoutesTyped
<1>3. f \in Surjection(routes, Implemented(i))
  <2> HIDE DEF As, routes
  <2> QED
    BY <1>1 DEF Surjection
<1>4. IsFiniteSet(Implemented(i))
  BY <1>2, <1>3, FS_Surjection
<1>5. ASSUME NEW r \in routes
      PROVE  As(r) = [key |-> As(r).key, is |-> As(r).is] /\ KeyValid(As(r).key)
  <2>1. RouteTyped(r) /\ r.kind \in {"api-route", "server-action"}
    BY <1>5 DEF RoutesTyped
  <2>2. CASE r.kind = "server-action"
    <3>1. As(r).key = [kind |-> "server-action", route |-> NoRoute, operation |-> r.at]
          /\ As(r) = [key |-> As(r).key, is |-> As(r).is]
      BY <2>2 DEF Mention, Key
    <3> HIDE DEF As
    <3> QED
      BY <2>1, <3>1 DEF KeyValid, RouteTyped
  <2>3. CASE r.kind = "api-route"
    <3>1. As(r).key = [kind |-> "http-endpoint", route |-> r.route, operation |-> NoOperation]
          /\ As(r) = [key |-> As(r).key, is |-> As(r).is]
      BY <2>3 DEF Mention, Key
    <3>2. r.route # NoRoute
      BY <2>1, <2>3 DEF RouteTyped, RouteShaped
    <3> HIDE DEF As
    <3> QED
      BY <3>1, <3>2 DEF KeyValid
  <2> QED
    BY <2>1, <2>2, <2>3
<1> HIDE DEF As, routes
<1> QED
  BY <1>1, <1>4, <1>5 DEF AreMentions

\* The mentions of one file.
LEMMA FileMentions ==
  ASSUME NEW f, NEW c, ContentTyped(c)
  PROVE  IsList(MentionsIn(f, c)) /\ AreMentions(ToSet(MentionsIn(f, c)))
<1> DEFINE s == MentionsIn(f, c)
           n == Len(c.mentions)
<1>1. n \in Nat /\ DOMAIN c.mentions = 1..n
  BY LenProperties DEF ContentTyped, IsList
<1>2. s = [k \in 1..n |-> Mention(c.mentions[k].key, c.mentions[k].origin, f, c.mentions[k].line)]
  BY <1>1 DEF MentionsIn
<1>3. DOMAIN s = 1..n
  BY <1>2
<1>4. \A k \in 1..n :
        s[k] = [key |-> s[k].key, is |-> s[k].is] /\ KeyValid(s[k].key)
  <2> TAKE k \in 1..n
  <2>1. s[k] = Mention(c.mentions[k].key, c.mentions[k].origin, f, c.mentions[k].line)
    BY <1>2
  <2>2. s[k] = [key |-> s[k].key, is |-> s[k].is] /\ s[k].key = c.mentions[k].key
    BY <2>1 DEF Mention
  <2>3. KeyValid(c.mentions[k].key)
    BY <1>1 DEF ContentTyped
  <2> QED
    BY <2>2, <2>3
<1>5. ToSet(s) = {s[k] : k \in 1..n}
  BY <1>3 DEF ToSet
<1>6. s \in Surjection(1..n, ToSet(s))
  BY <1>2, <1>5 DEF Surjection
<1>7. IsFiniteSet(ToSet(s))
  <2> HIDE DEF n, s
  <2>1. IsFiniteSet(1..n)
    BY <1>1, FS_Interval
  <2> QED
    BY <1>6, <2>1, FS_Surjection
<1>8. s \in [1..n -> ToSet(s)]
  BY <1>6 DEF Surjection
<1>9. s \in Seq(ToSet(s))
  <2> HIDE DEF s, n
  <2> QED
    BY <1>1, <1>8
<1> HIDE DEF s
<1> QED
  BY <1>4, <1>5, <1>7, <1>9 DEF AreMentions, IsList, s

(***************************************************************************)
(* Reading a tree file by file, each in the version vs has of it.          *)
(***************************************************************************)
ReadIn(vs, n) == Holds[Files[n]][vs[n]]
RoutesRead(vs, n) == UNION {ClassifyNextFile(Files[i], ReadIn(vs, i)) : i \in 1..n}
InventoryReads(g, vs, n) ==
  /\ RoutesTyped(g.routes) /\ g.truncated \in BOOLEAN /\ g.routes \subseteq RoutesRead(vs, n)
  /\ IF g.truncated THEN Cardinality(g.routes) = MaxRoutes
     ELSE g.routes = RoutesRead(vs, n) /\ Cardinality(g.routes) < MaxRoutes

MentionsRead(vs, n) == UNION {ToSet(MentionsIn(Files[i], ReadIn(vs, i))) : i \in 1..n}
InferenceReads(g, inventory, vs, n) ==
  LET M == MentionsRead(vs, n) \cup Implemented(inventory)
  IN /\ AreMentions(M) /\ g \in Gathered(M)
     /\ g.full \/ Claimed(g.entries) = M
     /\ g.truncated => g.full
     /\ n > 0 /\ g.full => g.truncated

\* A first file of an inventory and of an inference.
LEMMA NothingRead ==
  ASSUME NEW vs
  PROVE  /\ InventoryReads(NothingFound, vs, 0)
         /\ \A i : RoutesTyped(i.routes) => InferenceReads(Gathering(i), i, vs, 0)
<1>1. 1..0 = {} /\ RoutesRead(vs, 0) = {} /\ MentionsRead(vs, 0) = {}
  BY DEF RoutesRead, MentionsRead
<1>2. MaxRoutes \in Nat /\ MaxRoutes > 0
  BY WebLimits
<1>3. InventoryReads(NothingFound, vs, 0)
  <2>1. NothingFound.routes = {} /\ NothingFound.truncated = FALSE
    BY DEF NothingFound
  <2>2. IsFiniteSet({}) /\ Cardinality({}) = 0
    BY FS_EmptySet
  <2> QED
    BY <1>1, <1>2, <2>1, <2>2 DEF InventoryReads, RoutesTyped
<1>4. ASSUME NEW i, RoutesTyped(i.routes) PROVE InferenceReads(Gathering(i), i, vs, 0)
  <2> DEFINE M == Implemented(i)
             none == <<>>
             empty == [entries |-> none, full |-> FALSE, truncated |-> FALSE]
             s == SetToSeq(M)
             g == AddAll(empty, s)
  <2>1. AreMentions(M) /\ MentionsRead(vs, 0) \cup M = M
    BY <1>1, <1>4, ImplementedAreMentions
  <2>2. IsList(s) /\ ToSet(s) = M
    BY <2>1, SetAsList DEF AreMentions
  <2>3. none \in EntriesOf(M) /\ Claimed(none) = {}
    <3>1. DOMAIN none = {} /\ none \in [{} -> (SUBSET Places(M)) \ {{}}]
      OBVIOUS
    <3>2. {} \in SUBSET Keys(M)
      OBVIOUS
    <3> HIDE DEF none, M
    <3> QED
      BY <3>1, <3>2 DEF EntriesOf, Claimed
  <2> HIDE DEF none, s
  <2>4. empty \in Gathered(M) /\ empty.full = FALSE /\ empty.truncated = FALSE /\ empty.entries = none
    <3> HIDE DEF M
    <3> QED
      BY <2>3 DEF Gathered
  <2> HIDE DEF empty
  <2>5. /\ g \in Gathered(M) /\ g.truncated = empty.truncated
        /\ g.full \/ Claimed(g.entries) = Claimed(empty.entries) \cup ToSet(s)
    <3> HIDE DEF M
    <3>1. \A m \in M : m = [key |-> m.key, is |-> m.is]
      BY <2>1 DEF AreMentions
    <3>2. ToSet(s) \subseteq M
      BY <2>2
    <3> QED
      BY <2>2, <2>4, <3>1, <3>2, AddAllDoes
  <2>6. g = Gathering(i)
    BY DEF Gathering, g, empty, none, s, M
  <2> HIDE DEF g
  <2>7. g.truncated = FALSE /\ (g.full \/ Claimed(g.entries) = M)
    BY <2>2, <2>3, <2>4, <2>5
  <2> QED
    BY <2>1, <2>5, <2>6, <2>7 DEF InferenceReads
<1> QED
  BY <1>3, <1>4

\* One more file.
LEMMA OneMoreRead ==
  ASSUME NEW vs, NEW n \in Nat
  PROVE  /\ RoutesRead(vs, n + 1) = RoutesRead(vs, n) \cup ClassifyNextFile(Files[n + 1], ReadIn(vs, n + 1))
         /\ MentionsRead(vs, n + 1) = MentionsRead(vs, n) \cup ToSet(MentionsIn(Files[n + 1], ReadIn(vs, n + 1)))
<1>1. 1..(n + 1) = 1..n \cup {n + 1}
  OBVIOUS
<1> QED
  BY <1>1 DEF RoutesRead, MentionsRead

\* One more file leaves an inventory with the routes of the files read.
LEMMA ReadsForInventory ==
  ASSUME NEW g, NEW vs, NEW n \in Nat, InventoryReads(g, vs, n), Files[n + 1] # NoOperation,
         ContentTyped(ReadIn(vs, n + 1))
  PROVE  InventoryReads(ReadForInventory(g, Files[n + 1], ReadIn(vs, n + 1)), vs, n + 1)
<1> DEFINE new == ClassifyNextFile(Files[n + 1], ReadIn(vs, n + 1))
           routes == g.routes \cup new
           h == ReadForInventory(g, Files[n + 1], ReadIn(vs, n + 1))
<1>1. RoutesRead(vs, n + 1) = RoutesRead(vs, n) \cup new
  BY OneMoreRead
<1>2. MaxRoutes \in Nat /\ MaxRoutes > 0
  BY WebLimits
<1>3. new = {} \/ \E r : new = {r} /\ RouteTyped(r)
  BY OneRouteOrNone
<1>4. CASE g.truncated
  <2>1. h = g
    BY <1>4 DEF ReadForInventory
  <2> HIDE DEF h
  <2> QED
    BY <1>1, <1>4, <2>1 DEF InventoryReads, h
<1>5. CASE ~g.truncated
  <2>1. h = [routes |-> routes, truncated |-> new # {} /\ Cardinality(routes) >= MaxRoutes]
    BY <1>5 DEF ReadForInventory
  <2> HIDE DEF new
  <2>2. h.routes = routes /\ h.truncated = (new # {} /\ Cardinality(routes) >= MaxRoutes)
    BY <2>1
  <2>3. RoutesTyped(g.routes) /\ g.routes = RoutesRead(vs, n) /\ Cardinality(g.routes) < MaxRoutes
    BY <1>5 DEF InventoryReads
  <2>4. RoutesTyped(routes) /\ Cardinality(routes) \in Nat
        /\ Cardinality(routes) <= Cardinality(g.routes) + 1 /\ (new = {} => routes = g.routes)
    <3>1. CASE new = {}
      <4>1. routes = g.routes /\ Cardinality(g.routes) \in Nat
        BY <2>3, <3>1, FS_CardinalityType DEF RoutesTyped
      <4> QED
        BY <2>3, <4>1
    <3>2. CASE \E r : new = {r} /\ RouteTyped(r)
      <4>1. PICK r : new = {r} /\ RouteTyped(r)
        BY <3>2
      <4>2. /\ IsFiniteSet(routes)
            /\ Cardinality(routes) = IF r \in g.routes THEN Cardinality(g.routes)
                                     ELSE Cardinality(g.routes) + 1
        BY <2>3, <4>1, FS_AddElement DEF RoutesTyped
      <4>3. Cardinality(routes) \in Nat /\ Cardinality(g.routes) \in Nat
        BY <2>3, <4>2, FS_CardinalityType DEF RoutesTyped
      <4>4. \A x \in routes : RouteTyped(x)
        BY <2>3, <4>1 DEF RoutesTyped
      <4>5. Cardinality(routes) <= Cardinality(g.routes) + 1
        BY <4>2, <4>3
      <4>6. new # {}
        BY <4>1
      <4> QED
        BY <4>2, <4>3, <4>4, <4>5, <4>6 DEF RoutesTyped
    <3> QED
      BY <1>3, <3>1, <3>2
  <2>5. routes = RoutesRead(vs, n + 1)
    BY <1>1, <2>3
  <2>6. Cardinality(g.routes) \in Nat
    BY <2>3, FS_CardinalityType DEF RoutesTyped
  <2> DEFINE count == Cardinality(routes)
             before == Cardinality(g.routes)
  <2>7. /\ (new # {} /\ count >= MaxRoutes) => count = MaxRoutes
        /\ ~(new # {} /\ count >= MaxRoutes) => count < MaxRoutes
    <3>1. new = {} => count = before
      BY <2>4
    <3>2. count \in Nat /\ before \in Nat /\ count <= before + 1 /\ before < MaxRoutes
      BY <2>3, <2>4, <2>6
    <3> HIDE DEF count, before
    <3> QED
      BY <1>2, <3>1, <3>2
  <2>8. h.truncated \in BOOLEAN
    BY <2>2
  <2> HIDE DEF routes, h
  <2>9. IF h.truncated THEN Cardinality(h.routes) = MaxRoutes
        ELSE h.routes = RoutesRead(vs, n + 1) /\ Cardinality(h.routes) < MaxRoutes
    BY <2>2, <2>5, <2>7
  <2> QED
    BY <2>2, <2>4, <2>5, <2>8, <2>9 DEF InventoryReads, h
<1>6. g.truncated \in BOOLEAN
  BY DEF InventoryReads
<1> QED
  BY <1>4, <1>5, <1>6

\* One more file leaves an inference with the mentions of the files read.
LEMMA ReadsForInference ==
  ASSUME NEW g, NEW inventory, NEW vs, NEW n \in Nat, InferenceReads(g, inventory, vs, n),
         ContentTyped(ReadIn(vs, n + 1))
  PROVE  InferenceReads(ReadForInference(g, Files[n + 1], ReadIn(vs, n + 1)), inventory, vs, n + 1)
<1> DEFINE new == MentionsIn(Files[n + 1], ReadIn(vs, n + 1))
           M == MentionsRead(vs, n) \cup Implemented(inventory)
           N == MentionsRead(vs, n + 1) \cup Implemented(inventory)
           read == AddAll(g, new)
           h == ReadForInference(g, Files[n + 1], ReadIn(vs, n + 1))
<1>1. N = M \cup ToSet(new)
  BY OneMoreRead
<1>2. IsList(new) /\ AreMentions(ToSet(new))
  BY FileMentions
<1>3. /\ AreMentions(M) /\ g \in Gathered(M)
      /\ g.full \/ Claimed(g.entries) = M
      /\ g.truncated => g.full
  BY DEF InferenceReads
<1>4. h = IF g.truncated THEN g ELSE [read EXCEPT !.truncated = read.full]
  BY DEF ReadForInference
<1> HIDE DEF h, new, M, N
<1>5. AreMentions(N)
  <2>1. IsFiniteSet(N)
    BY <1>1, <1>2, <1>3, FS_Union DEF AreMentions
  <2> QED
    BY <1>1, <1>2, <1>3, <2>1 DEF AreMentions
<1>6. g \in Gathered(N)
  BY <1>1, <1>3, GatheredOfMore
<1>7. /\ read \in Gathered(N) /\ read.truncated = g.truncated
      /\ read.full \/ Claimed(read.entries) = Claimed(g.entries) \cup ToSet(new)
      /\ g.full => read.full
  <2>1. \A m \in N : m = [key |-> m.key, is |-> m.is]
    BY <1>5 DEF AreMentions
  <2>2. ToSet(new) \subseteq N
    BY <1>1
  <2> QED
    BY <1>2, <1>6, <2>1, <2>2, AddAllDoes
<1> HIDE DEF read
<1>8. CASE g.truncated
  BY <1>3, <1>4, <1>5, <1>6, <1>8 DEF InferenceReads, h, N
<1>9. CASE ~g.truncated
  <2>1. h = [read EXCEPT !.truncated = read.full]
    BY <1>4, <1>9
  <2>2. read \in [entries : EntriesOf(N), full : BOOLEAN, truncated : BOOLEAN] /\ Claimed(read.entries) \subseteq N
    BY <1>7 DEF Gathered
  <2>3. h.entries = read.entries /\ h.full = read.full /\ h.truncated = read.full /\ h \in Gathered(N)
    BY <2>1, <2>2 DEF Gathered
  <2>4. h.full \/ Claimed(h.entries) = N
    <3>1. CASE g.full
      BY <1>7, <2>3, <3>1
    <3>2. CASE Claimed(g.entries) = M
      BY <1>1, <1>7, <2>3, <3>2
    <3> QED
      BY <1>3, <3>1, <3>2
  <2> QED
    BY <1>5, <2>3, <2>4 DEF InferenceReads, h, N
<1> QED
  BY <1>8, <1>9

(***************************************************************************)
(* What a walk ends with passes its own checks, unless it is at a boundary. *)
(***************************************************************************)
LEMMA ReadInventoryIsValid ==
  ASSUME NEW g, NEW vs, NEW n, InventoryReads(g, vs, n), NEW s, NEW root
  PROVE  LET d == Inventory(s, root, g)
         IN /\ d.kind = "inventory" /\ d.scope = s /\ d.root = root
            /\ d.routes = g.routes /\ d.truncated = g.truncated
            /\ InventoryValid(d) \/ \E r \in d.routes : ~RouteFits(r)
BY DEF Inventory, InventoryValid, RouteValid, InventoryReads, RoutesTyped, RouteTyped

\* Three parts of a finite set are as many as it has entries.
LEMMA ThreeParts ==
  ASSUME NEW S, IsFiniteSet(S), NEW A, NEW B, NEW C, S = A \cup B \cup C,
         A \cap B = {}, (A \cup B) \cap C = {}
  PROVE  Cardinality(A) + Cardinality(B) + Cardinality(C) = Cardinality(S)
<1>1. IsFiniteSet(A) /\ IsFiniteSet(B) /\ IsFiniteSet(C) /\ IsFiniteSet(A \cup B)
  <2>1. A \in SUBSET S /\ B \in SUBSET S /\ C \in SUBSET S /\ A \cup B \in SUBSET S
    OBVIOUS
  <2> QED
    BY <2>1, FS_Subset
<1>2. Cardinality({}) = 0
  BY FS_EmptySet
<1>3. Cardinality(A \cup B) = Cardinality(A) + Cardinality(B) - 0
  BY <1>1, <1>2, FS_Union
<1>4. Cardinality(S) = Cardinality(A \cup B) + Cardinality(C) - 0
  BY <1>1, <1>2, FS_Union
<1>5. Cardinality(A) \in Nat /\ Cardinality(B) \in Nat /\ Cardinality(C) \in Nat
  BY <1>1, FS_CardinalityType
<1> QED
  BY <1>3, <1>4, <1>5

\* A candidate has more references than it may, or an operation or a route that does not fit.
Refused(c) ==
  \/ Cardinality(c.references) > MaxReferences
  \/ ~OperationFits(c.key) \/ ~RouteIsNormal(c.key)

\* An inference made of what was read is valid, unless a candidate is refused.
LEMMA ReadInferenceIsValid ==
  ASSUME NEW g, NEW i, NEW vs, NEW n, InferenceReads(g, i, vs, n), NEW s, NEW root
  PROVE  LET d == Inference(s, root, i, g)
         IN /\ d.kind = "inference" /\ d.scope = s /\ d.root = root /\ d.inventories = {i}
            /\ d.truncated = g.truncated
            /\ d.candidates = {FinalizeCandidate(k, g.entries[k]) : k \in DOMAIN g.entries}
            /\ InferenceValid(d) \/ \E c \in d.candidates : Refused(c)
<1> DEFINE M == MentionsRead(vs, n) \cup Implemented(i)
           candidates == {FinalizeCandidate(k, g.entries[k]) : k \in DOMAIN g.entries}
           With(x) == {c \in candidates : c.disposition = x}
           d == Inference(s, root, i, g)
           over == \E c \in d.candidates : Refused(c)
<1>0. MaxReferences \in Nat
  BY WebLimits
<1>1. AreMentions(M) /\ g.entries \in EntriesOf(M)
  BY DEF InferenceReads, Gathered
<1>2. PICK K \in SUBSET Keys(M) : g.entries \in [K -> (SUBSET Places(M)) \ {{}}]
  BY <1>1 DEF EntriesOf
<1>3. IsFiniteSet(Keys(M)) /\ IsFiniteSet(Places(M)) /\ \A k \in Keys(M) : KeyValid(k)
  <2> DEFINE f == [m \in M |-> m.key]
             p == [m \in M |-> m.is]
  <2>1. f \in Surjection(M, Keys(M)) /\ p \in Surjection(M, Places(M))
    <3> HIDE DEF M
    <3> QED
      BY DEF Surjection, Keys, Places
  <2>2. IsFiniteSet(M)
    BY <1>1 DEF AreMentions
  <2> HIDE DEF f, p, M
  <2>3. IsFiniteSet(Keys(M)) /\ IsFiniteSet(Places(M))
    BY <2>1, <2>2, FS_Surjection
  <2> QED
    BY <1>1, <2>3 DEF AreMentions, Keys
<1> HIDE DEF M
<1>4. IsFiniteSet(candidates)
  <2> DEFINE f == [k \in K |-> FinalizeCandidate(k, g.entries[k])]
  <2>1. f \in Surjection(K, candidates)
    BY <1>2 DEF Surjection
  <2>2. IsFiniteSet(K)
    BY <1>3, FS_Subset
  <2> HIDE DEF f, candidates
  <2> QED
    BY <2>1, <2>2, FS_Surjection
<1>5. \A k, references :
        LET c == FinalizeCandidate(k, references)
        IN /\ c.key = k /\ c.references = references
           /\ c.disposition \in {"correlated-local", "needs-human-review", "abstained"}
  BY DEF FinalizeCandidate
<1>6. ASSUME NEW c \in candidates
      PROVE  /\ KeyValid(c.key) /\ c.references # {} /\ Cardinality(c.references) \in Nat
             /\ c.disposition \in {"correlated-local", "needs-human-review", "abstained"}
             /\ c = FinalizeCandidate(c.key, c.references)
  <2>1. PICK k \in K : c = FinalizeCandidate(k, g.entries[k])
    BY <1>2
  <2>2. c.key = k /\ c.references = g.entries[k]
        /\ c.disposition \in {"correlated-local", "needs-human-review", "abstained"}
    BY <1>5, <2>1
  <2>3. g.entries[k] \in (SUBSET Places(M)) \ {{}}
    BY <1>2
  <2>4. IsFiniteSet(g.entries[k])
    BY <1>3, <2>3, FS_Subset
  <2>5. Cardinality(g.entries[k]) \in Nat
    BY <2>4, FS_CardinalityType
  <2>6. KeyValid(k)
    BY <1>3
  <2> QED
    BY <2>1, <2>2, <2>3, <2>5, <2>6
<1>7. Cardinality(With("correlated-local")) + Cardinality(With("needs-human-review")) + Cardinality(With("abstained"))
        = Cardinality(candidates)
  <2> DEFINE A == With("correlated-local")
             B == With("needs-human-review")
             C == With("abstained")
  <2>1. candidates = A \cup B \cup C /\ A \cap B = {} /\ (A \cup B) \cap C = {}
    <3> HIDE DEF candidates
    <3> QED
      BY <1>6
  <2> HIDE DEF A, B, C, candidates
  <2>2. Cardinality(A) + Cardinality(B) + Cardinality(C) = Cardinality(candidates)
    BY <1>4, <2>1, ThreeParts
  <2> QED
    BY <2>2 DEF A, B, C
<1>8. /\ d.kind = "inference" /\ d.scope = s /\ d.root = root /\ d.inventories = {i}
      /\ d.truncated = g.truncated /\ d.candidates = candidates
      /\ d.stats = [correlated |-> Cardinality(With("correlated-local")),
                    review |-> Cardinality(With("needs-human-review")),
                    abstentions |-> Cardinality(With("abstained"))]
  BY DEF Inference
<1> HIDE DEF d
<1>9. ASSUME ~over PROVE InferenceValid(d)
  <2>1. d.stats.correlated + d.stats.review + d.stats.abstentions = Cardinality(d.candidates)
    <3> HIDE DEF candidates, With
    <3> QED
      BY <1>7, <1>8
  <2>2. \A c \in d.candidates : CandidateValid(c)
    <3> HIDE DEF candidates
    <3> QED
      BY <1>0, <1>6, <1>8, <1>9 DEF CandidateValid, Refused
  <2> QED
    BY <2>1, <2>2 DEF InferenceValid
<1> QED
  BY <1>8, <1>9 DEF d

(***************************************************************************)
(* What the state is, and what the documents in it are of.                 *)
(***************************************************************************)
TreeTyped ==
  /\ tree \in [DOMAIN Files -> Nat]
  /\ \A i \in DOMAIN Files : tree[i] \in DOMAIN Holds[Files[i]]

\* A document is of the tree it names.
DocumentSound(d) ==
  /\ d.kind = "assessment" => IsAssessment(d)
  /\ d.kind = "inventory" => RoutesTyped(d.routes) /\ InventoryIsOf(d, d.root)
  /\ d.kind = "inference" => InferenceIsOf(d, d.root)
DocsSound == \A d \in docs : DocumentSound(d)

\* The commands that neither read a tree nor the catalog.
OtherKinds == {"scope", "assessment", "lab-result", "corpus-result", "review", "benchmark"}
Writes(d) ==
  /\ d.kind \in OtherKinds /\ (d.kind = "assessment" => IsAssessment(d))
  /\ \/ docs' = docs \cup {d} /\ refused' = refused
     \/ docs' = docs /\ refused' = {d} /\ AtABoundary(d)

\* An assessment is written, or refused with an observation over its limits.
LEMMA AssessmentIsWritten ==
  ASSUME NEW d, IsAssessment(d), AssessmentValid(d) \/ OverLimit(d), WriteNew(d, AssessmentValid(d))
  PROVE  Writes(d)
<1>1. d.kind = "assessment"
  BY DEF IsAssessment
<1>2. OverLimit(d) => AtABoundary(d)
  BY <1>1 DEF AtABoundary, OverLimit
<1> QED
  BY <1>1, <1>2 DEF WriteNew, Writes, OtherKinds

\* They write one document, or refuse one at a boundary.
LEMMA DocumentCommandDoes ==
  ASSUME DocsSound, WebScopeSeal \/ DocumentWork
  PROVE  /\ tree' = tree /\ now' = now /\ catalog' = catalog /\ job' = job /\ plan' = plan
         /\ job = NoJob /\ \E d : Writes(d)
<1>1. CASE WebScopeSeal
  <2>1. PICK roots, until : docs' = docs \cup {SealScope(roots, until, now)}
    BY <1>1 DEF WebScopeSeal
  <2> DEFINE d == SealScope(roots, until, now)
  <2>2. d.kind = "scope" /\ docs' = docs \cup {d} /\ refused' = refused
    BY <1>1, <2>1 DEF SealScope, WebScopeSeal
  <2> HIDE DEF d
  <2>3. Writes(d)
    BY <2>2 DEF Writes, OtherKinds
  <2> QED
    BY <1>1, <2>3 DEF WebScopeSeal, MayWrite
<1>2. CASE WebAssess
  <2>1. PICK s \in OfKind("scope"), i \in OfKind("inventory"), rows \in Coverage :
          /\ TableValid(rows)
          /\ WriteNew(AssessRoutes(s, i, rows), AssessmentValid(AssessRoutes(s, i, rows)))
    BY <1>2 DEF WebAssess
  <2> DEFINE d == AssessRoutes(s, i, rows)
  <2>2. \A r \in rows : CoverageValid(r) /\ IsFiniteSet(r.references)
    BY <2>1, ReferencesAreFinite DEF TableValid
  <2>3. IsAssessment(d) /\ (AssessmentValid(d) \/ OverLimit(d))
    BY <2>2, DerivedAssessmentIsValid
  <2>4. WriteNew(d, AssessmentValid(d))
    BY <2>1
  <2> HIDE DEF d
  <2>5. Writes(d)
    BY <2>3, <2>4, AssessmentIsWritten
  <2> QED
    BY <1>2, <2>5 DEF WebAssess, MayWrite
<1>3. CASE WebReviewAssessment
  <2>1. PICK a \in OfKind("assessment"), reproduction \in Reproductions : \E o \in a.observations :
          /\ AssessmentValid(a) /\ MayValidate(o)
          /\ LET b == RecordHumanValidation(a, o, reproduction) IN WriteNew(b, AssessmentValid(b))
    BY <1>3 DEF WebReviewAssessment
  <2>2. PICK o \in a.observations :
          /\ AssessmentValid(a) /\ MayValidate(o)
          /\ LET b == RecordHumanValidation(a, o, reproduction) IN WriteNew(b, AssessmentValid(b))
    BY <2>1
  <2> DEFINE d == RecordHumanValidation(a, o, reproduction)
  <2>3. IsAssessment(a)
    BY <2>1 DEF OfKind, DocsSound, DocumentSound
  <2>4. IsAssessment(d) /\ (AssessmentValid(d) \/ OverLimit(d))
    BY <2>2, <2>3, ValidatedAssessmentIsValid
  <2>5. WriteNew(d, AssessmentValid(d))
    BY <2>2
  <2> HIDE DEF d
  <2>6. Writes(d)
    BY <2>4, <2>5, AssessmentIsWritten
  <2> QED
    BY <1>3, <2>6 DEF WebReviewAssessment, MayWrite
<1>4. CASE WebLab
  <2>1. PICK i \in OfKind("inventory"), case \in Cases :
          WriteNew(CompareInventory(i, case), LabValid(CompareInventory(i, case)))
    BY <1>4 DEF WebLab
  <2> DEFINE d == CompareInventory(i, case)
  <2>2. IsFiniteSet(i.routes) /\ IsFiniteSet(case)
    BY <2>1, CasesAreFinite DEF OfKind, DocsSound, DocumentSound, RoutesTyped
  <2>3. LabValid(d)
    BY <2>2, LabIsValid
  <2>4. d.kind = "lab-result" /\ WriteNew(d, LabValid(d))
    BY <2>1 DEF CompareInventory
  <2> HIDE DEF d
  <2>5. Writes(d)
    BY <2>3, <2>4 DEF WriteNew, Writes, OtherKinds
  <2> QED
    BY <1>4, <2>5 DEF WebLab, MayWrite
<1>5. CASE WebCorpusEvaluate
  <2>1. PICK i \in docs, f \in docs, corpus \in Corpora :
          WriteNew(EvaluateCorpus(i, f, corpus), CorpusResultValid(EvaluateCorpus(i, f, corpus)))
    BY <1>5 DEF WebCorpusEvaluate, OfKind
  <2> DEFINE d == EvaluateCorpus(i, f, corpus)
  <2>2. IsFiniteSet(corpus)
    BY CasesAreFinite
  <2>3. CorpusResultValid(d)
    BY <2>2, CorpusResultIsValid
  <2>4. d.kind = "corpus-result" /\ WriteNew(d, CorpusResultValid(d))
    BY <2>1 DEF EvaluateCorpus
  <2> HIDE DEF d
  <2>5. Writes(d)
    BY <2>3, <2>4 DEF WriteNew, Writes, OtherKinds
  <2> QED
    BY <1>5, <2>5 DEF WebCorpusEvaluate, MayWrite
<1>6. CASE SecureReviewImport
  <2>1. PICK m, p : WriteNew(ImportedReview(m, p.review, p.revision), TRUE)
    BY <1>6 DEF SecureReviewImport
  <2> DEFINE d == ImportedReview(m, p.review, p.revision)
  <2>2. d.kind = "review" /\ WriteNew(d, TRUE)
    BY <2>1 DEF ImportedReview
  <2> HIDE DEF d
  <2>3. Writes(d)
    BY <2>2 DEF WriteNew, Writes, OtherKinds
  <2> QED
    BY <1>6, <2>3 DEF SecureReviewImport, MayWrite
<1>7. CASE BenchmarkImport
  <2>1. PICK b : WriteNew(ImportedBenchmark(b), TRUE)
    BY <1>7 DEF BenchmarkImport
  <2> DEFINE d == ImportedBenchmark(b)
  <2>2. d.kind = "benchmark" /\ WriteNew(d, TRUE)
    BY <2>1 DEF ImportedBenchmark
  <2> HIDE DEF d
  <2>3. Writes(d)
    BY <2>2 DEF WriteNew, Writes, OtherKinds
  <2> QED
    BY <1>7, <2>3 DEF BenchmarkImport, MayWrite
<1> QED
  BY <1>1, <1>2, <1>3, <1>4, <1>5, <1>6, <1>7 DEF DocumentWork

(***************************************************************************)
(* Between the digests of a walk.  Versions only grow: what was read of a  *)
(* file is not older than its first digest nor newer than its last, and    *)
(* when these are the same it is what they name.                           *)
(***************************************************************************)
LastFile == Len(Files)

\* The files of a tree are numbered, and each version of each has typed content.
LEMMA FilesAreRead ==
  /\ LastFile \in Nat /\ LastFile > 0 /\ DOMAIN Files = 1..LastFile
  /\ \A n \in 1..LastFile :
       Files[n] # NoOperation /\ \A v \in DOMAIN Holds[Files[n]] : ContentTyped(Holds[Files[n]][v])
<1>1. LastFile \in Nat /\ DOMAIN Files = 1..LastFile /\ LastFile > 0
  BY TreeIsTyped, LenProperties, EmptySeq DEF LastFile, IsList
<1> QED
  BY <1>1, TreeIsTyped

TaskSound(j) ==
  /\ j.command \in {"scope", "inventory", "inference"}
  /\ j.pass \in {"root", "before", "read", "after"} /\ (j.command = "scope" => j.pass = "root")
  /\ j.command # "scope" => \E s : j.scope = {s}
  /\ j.command = "inference" => \E i : j.inventory = {i} /\ RoutesTyped(i.routes)
RootSound(j, t) ==
  /\ j.root \in Seq(Nat) /\ Len(j.root) = LastFile /\ RootAuthorized(j, j.root)
  /\ \A k \in 1..LastFile : j.root[k] <= t[k]
ReadSound(j, vs, n, t) ==
  /\ \A k \in 1..n : j.root[k] <= vs[k] /\ vs[k] <= t[k]
  /\ \E g : /\ j.found = {g}
            /\ j.command = "inventory" => InventoryReads(g, vs, n)
            /\ j.command = "inference" => \E i : j.inventory = {i} /\ InferenceReads(g, i, vs, n)

\* A walk that has read n files in its pass, the tree being t.
WalkAt(j, n, t) ==
  /\ n \in 0..LastFile /\ j.next = n + 1 /\ TaskSound(j)
  /\ j.pass # "read" => j.sum \in Seq(Nat) /\ Len(j.sum) = n
  /\ j.pass = "root" => \A k \in 1..n : j.sum[k] <= t[k]
  /\ j.pass # "root" => RootSound(j, t)
  /\ j.pass = "read" => \E vs \in [1..LastFile -> Nat] : ReadSound(j, vs, n, t)
  /\ j.pass = "after" =>
       \E vs \in [1..LastFile -> Nat] : ReadSound(j, vs, LastFile, t) /\ \A k \in 1..n : vs[k] <= j.sum[k]
WalkSound(j, t) == j.next \in 1..LastFile /\ WalkAt(j, j.next - 1, t)

\* An edit of the tree changes nothing in what a walk knows of it.
LEMMA EditsKeepWalks ==
  ASSUME NEW j, NEW n, NEW t \in [1..LastFile -> Nat], NEW u \in [1..LastFile -> Nat],
         \A k \in 1..LastFile : t[k] <= u[k], WalkAt(j, n, t)
  PROVE  WalkAt(j, n, u)
<1>0. LastFile \in Nat /\ n \in 0..LastFile
  BY FilesAreRead DEF WalkAt
<1>1. \A x \in Nat : \A k \in 1..LastFile : x <= t[k] => x <= u[k]
  OBVIOUS
<1>2. j.pass = "root" => \A k \in 1..n : j.sum[k] <= u[k]
  <2> SUFFICES ASSUME j.pass = "root", NEW k \in 1..n PROVE j.sum[k] <= u[k]
    OBVIOUS
  <2>1. j.sum \in Seq(Nat) /\ Len(j.sum) = n /\ j.sum[k] <= t[k]
    BY DEF WalkAt
  <2>2. j.sum[k] \in Nat /\ k \in 1..LastFile
    BY <1>0, <2>1, SMTT(30)
  <2> QED
    BY <1>1, <2>1, <2>2
<1>3. RootSound(j, t) => RootSound(j, u)
  <2> SUFFICES ASSUME RootSound(j, t) PROVE \A k \in 1..LastFile : j.root[k] <= u[k]
    BY DEF RootSound
  <2>1. \A k \in 1..LastFile : j.root[k] \in Nat
    BY DEF RootSound
  <2> QED
    BY <1>1, <2>1 DEF RootSound
<1>4. \A vs \in [1..LastFile -> Nat], m \in 0..LastFile : ReadSound(j, vs, m, t) => ReadSound(j, vs, m, u)
  <2> SUFFICES ASSUME NEW vs \in [1..LastFile -> Nat], NEW m \in 0..LastFile, ReadSound(j, vs, m, t)
               PROVE  \A k \in 1..m : j.root[k] <= vs[k] /\ vs[k] <= u[k]
    BY DEF ReadSound
  <2> TAKE k \in 1..m
  <2>1. k \in 1..LastFile /\ vs[k] \in Nat
    BY <1>0
  <2> QED
    BY <1>1, <2>1 DEF ReadSound
<1>5. LastFile \in 0..LastFile
  BY <1>0
<1> QED
  BY <1>0, <1>2, <1>3, <1>4, <1>5 DEF WalkAt

\* What was read of the first files does not depend on the others.
LEMMA SameRead ==
  ASSUME NEW n, NEW vs, NEW us, \A k \in 1..n : vs[k] = us[k]
  PROVE  /\ RoutesRead(vs, n) = RoutesRead(us, n) /\ MentionsRead(vs, n) = MentionsRead(us, n)
         /\ \A g : InventoryReads(g, vs, n) <=> InventoryReads(g, us, n)
         /\ \A g, i : InferenceReads(g, i, vs, n) <=> InferenceReads(g, i, us, n)
<1>1. \A k \in 1..n : ReadIn(vs, k) = ReadIn(us, k)
  BY DEF ReadIn
<1>2. RoutesRead(vs, n) = RoutesRead(us, n)
  BY <1>1 DEF RoutesRead
<1>3. MentionsRead(vs, n) = MentionsRead(us, n)
  BY <1>1 DEF MentionsRead
<1> QED
  BY <1>2, <1>3 DEF InventoryReads, InferenceReads

\* A task stays the task it was.
LEMMA SameTaskIsSound ==
  ASSUME NEW j, NEW k, SameTask(j, k), TaskSound(j), k.pass \in {"root", "before", "read", "after"},
         k.pass = j.pass \/ j.command # "scope"
  PROVE  TaskSound(k) /\ \A root : RootAuthorized(j, root) <=> RootAuthorized(k, root)
BY DEF SameTask, TaskSound, RootAuthorized

\* One more file of a pass.
LEMMA WalkReadsOn ==
  ASSUME NEW j, NEW n, NEW t \in [1..LastFile -> Nat], WalkAt(j, n, t), n < LastFile,
         t[n + 1] \in DOMAIN Holds[Files[n + 1]], NEW k, ReadsOn(j, t[n + 1], k)
  PROVE  WalkAt(k, n + 1, t)
<1> DEFINE version == t[n + 1]
<1>0. n \in Nat /\ LastFile \in Nat /\ n + 1 \in 0..LastFile /\ n + 1 \in 1..LastFile /\ version \in Nat
      /\ j.next = n + 1
  BY FilesAreRead DEF WalkAt
<1>1. /\ SameTask(j, k) /\ k.pass = j.pass /\ k.root = j.root /\ k.next = (n + 1) + 1
      /\ j.pass # "read" => k.sum = Append(j.sum, version) /\ k.found = j.found
      /\ j.pass = "read" => k.sum = j.sum /\ k.found = {FileRead(j, g, version) : g \in j.found}
  BY <1>0 DEF ReadsOn
<1>2. TaskSound(k) /\ (RootSound(j, t) => RootSound(k, t))
  BY <1>1, SameTaskIsSound DEF WalkAt, TaskSound, RootSound
<1>3. k.command = j.command /\ k.inventory = j.inventory
  BY <1>1 DEF SameTask
<1> HIDE DEF version
<1>4. ASSUME j.pass # "read"
      PROVE  /\ k.sum \in Seq(Nat) /\ Len(k.sum) = n + 1 /\ k.sum[n + 1] = version
             /\ \A x \in 1..n : k.sum[x] = j.sum[x]
  <2>1. j.sum \in Seq(Nat) /\ Len(j.sum) = n
    BY <1>4 DEF WalkAt
  <2>2. k.sum = Append(j.sum, version)
    BY <1>1, <1>4
  <2> QED
    BY <1>0, <2>1, <2>2, AppendProperties
<1>5. \A x \in 1..(n + 1) : x \in 1..n \/ x = n + 1
  BY <1>0
<1>6. ASSUME j.pass = "root" PROVE \A x \in 1..(n + 1) : k.sum[x] <= t[x]
  <2>1. \A x \in 1..n : j.sum[x] <= t[x]
    BY <1>6 DEF WalkAt
  <2>2. k.sum[n + 1] <= t[n + 1]
    BY <1>0, <1>4, <1>6 DEF version
  <2> QED
    BY <1>4, <1>5, <1>6, <2>1, <2>2
<1>7. ASSUME j.pass = "after"
      PROVE  \E vs \in [1..LastFile -> Nat] :
              ReadSound(k, vs, LastFile, t) /\ \A x \in 1..(n + 1) : vs[x] <= k.sum[x]
  <2>1. PICK vs \in [1..LastFile -> Nat] : ReadSound(j, vs, LastFile, t) /\ \A x \in 1..n : vs[x] <= j.sum[x]
    BY <1>7 DEF WalkAt
  <2>2. ReadSound(k, vs, LastFile, t)
    BY <1>1, <1>3, <1>7, <2>1 DEF ReadSound
  <2>3. vs[n + 1] <= t[n + 1]
    BY <1>0, <2>1 DEF ReadSound
  <2>4. \A x \in 1..(n + 1) : vs[x] <= k.sum[x]
    BY <1>4, <1>5, <1>7, <2>1, <2>3 DEF version
  <2> QED
    BY <2>2, <2>4
<1>8. ASSUME j.pass = "read"
      PROVE  \E vs \in [1..LastFile -> Nat] : ReadSound(k, vs, n + 1, t)
  <2>1. PICK vs \in [1..LastFile -> Nat] : ReadSound(j, vs, n, t)
    BY <1>8 DEF WalkAt
  <2> DEFINE us == [vs EXCEPT ![n + 1] = version]
  <2>2. us \in [1..LastFile -> Nat] /\ us[n + 1] = version /\ \A x \in 1..n : vs[x] = us[x]
    BY <1>0, <2>1
  <2> HIDE DEF us
  <2>3. PICK g : /\ j.found = {g}
                 /\ j.command = "inventory" => InventoryReads(g, vs, n)
                 /\ j.command = "inference" => \E i : j.inventory = {i} /\ InferenceReads(g, i, vs, n)
    BY <2>1 DEF ReadSound
  <2> DEFINE h == FileRead(j, g, version)
  <2>4. k.found = {h}
    BY <1>1, <1>8, <2>3
  <2>5. ContentTyped(ReadIn(us, n + 1)) /\ Files[n + 1] # NoOperation
    BY <1>0, <2>2, FilesAreRead DEF ReadIn, version
  <2>6. h = IF j.command = "inventory" THEN ReadForInventory(g, Files[n + 1], ReadIn(us, n + 1))
            ELSE ReadForInference(g, Files[n + 1], ReadIn(us, n + 1))
    BY <1>0, <2>2 DEF FileRead, ReadIn
  <2> HIDE DEF h
  <2>7. j.command = "inventory" => InventoryReads(h, us, n + 1)
    BY <1>0, <2>2, <2>3, <2>5, <2>6, SameRead, ReadsForInventory
  <2>8. ASSUME j.command = "inference" PROVE \E i : k.inventory = {i} /\ InferenceReads(h, i, us, n + 1)
    <3>1. PICK i : j.inventory = {i} /\ InferenceReads(g, i, vs, n)
      BY <2>3, <2>8
    <3>2. InferenceReads(g, i, us, n)
      BY <2>2, <3>1, SameRead
    <3>3. InferenceReads(h, i, us, n + 1)
      BY <1>0, <2>5, <2>6, <2>8, <3>2, ReadsForInference
    <3> QED
      BY <1>3, <3>1, <3>3
  <2>9. \A x \in 1..(n + 1) : k.root[x] <= us[x] /\ us[x] <= t[x]
    <3>1. \A x \in 1..n : k.root[x] <= us[x] /\ us[x] <= t[x]
      BY <1>1, <2>1, <2>2 DEF ReadSound
    <3>2. RootSound(j, t)
      BY <1>8 DEF WalkAt
    <3>3. k.root[n + 1] <= us[n + 1] /\ us[n + 1] <= t[n + 1]
      BY <1>0, <1>1, <2>2, <3>2, SMTT(30) DEF RootSound, version
    <3> QED
      BY <1>5, <3>1, <3>3
  <2>10. ReadSound(k, us, n + 1, t)
    BY <1>3, <2>4, <2>7, <2>8, <2>9 DEF ReadSound
  <2> QED
    BY <2>2, <2>10
<1> QED
  BY <1>0, <1>1, <1>2, <1>4, <1>6, <1>7, <1>8 DEF WalkAt

\* The only member of a set.
LEMMA OnlyMember == \A x, S : S = {x} => (CHOOSE y \in S : TRUE) = x
OBVIOUS

\* The document a walk ends with, by what it is made of.
MadeOf(j, vs, s, g) ==
  /\ j.scope = {s} /\ j.found = {g} /\ j.command \in {"inventory", "inference"}
  /\ j.command = "inventory" =>
       Derived(j) = Inventory(s, TreeHash(j.root), g) /\ InventoryReads(g, vs, LastFile)
  /\ j.command = "inference" =>
       \E i : /\ j.inventory = {i} /\ InferenceReads(g, i, vs, LastFile)
              /\ Derived(j) = Inference(s, TreeHash(j.root), i, g)

\* The document of a walk past its first digest is made of what the walk read.
LEMMA DerivedIs ==
  ASSUME NEW j, TaskSound(j), j.pass # "root", j.pass # "before", NEW vs,
         ReadSound(j, vs, LastFile, tree)
  PROVE  \E s, g : MadeOf(j, vs, s, g)
<1>1. j.command \in {"inventory", "inference"}
  BY DEF TaskSound
<1>2. PICK s : j.scope = {s}
  BY <1>1 DEF TaskSound
<1>3. PICK g : /\ j.found = {g}
               /\ j.command = "inventory" => InventoryReads(g, vs, LastFile)
               /\ j.command = "inference" => \E i : j.inventory = {i} /\ InferenceReads(g, i, vs, LastFile)
  BY DEF ReadSound
<1>4. (CHOOSE x \in j.scope : TRUE) = s /\ (CHOOSE x \in j.found : TRUE) = g
  BY <1>2, <1>3, OnlyMember
<1>5. j.command = "inventory" => Derived(j) = Inventory(s, TreeHash(j.root), g)
  BY <1>4 DEF Derived
<1>6. ASSUME j.command = "inference"
      PROVE  \E i : /\ j.inventory = {i} /\ InferenceReads(g, i, vs, LastFile)
                    /\ Derived(j) = Inference(s, TreeHash(j.root), i, g)
  <2>1. PICK i : j.inventory = {i} /\ InferenceReads(g, i, vs, LastFile)
    BY <1>3, <1>6
  <2>2. (CHOOSE x \in j.inventory : TRUE) = i
    BY <2>1, OnlyMember
  <2>3. Derived(j) = Inference(s, TreeHash(j.root), i, g)
    BY <1>4, <1>6, <2>2 DEF Derived
  <2> QED
    BY <2>1, <2>3
<1> QED
  BY <1>1, <1>2, <1>3, <1>5, <1>6 DEF MadeOf

\* A document of a tree that does not pass its own checks has a route that does not fit, or a
\* candidate that is refused.
LEMMA DerivedFailsAtABoundary ==
  ASSUME NEW j, TaskSound(j), j.pass = "read", NEW vs, ReadSound(j, vs, LastFile, tree), ~DerivedValid(Derived(j))
  PROVE  AtABoundary(Derived(j))
<1>1. PICK s, g : MadeOf(j, vs, s, g)
  BY DerivedIs
<1> DEFINE root == TreeHash(j.root)
           d == Derived(j)
<1> HIDE DEF root, d
<1>2. CASE j.command = "inventory"
  <2>1. d = Inventory(s, root, g) /\ InventoryReads(g, vs, LastFile)
    BY <1>1, <1>2 DEF root, d, MadeOf
  <2>2. d.kind = "inventory" /\ (InventoryValid(d) \/ \E r \in d.routes : ~RouteFits(r))
    BY <2>1, ReadInventoryIsValid
  <2>3. ~InventoryValid(d)
    BY <2>2 DEF DerivedValid, d
  <2> QED
    BY <2>2, <2>3 DEF AtABoundary, d
<1>3. CASE j.command = "inference"
  <2>1. PICK i : InferenceReads(g, i, vs, LastFile) /\ d = Inference(s, root, i, g)
    BY <1>1, <1>3 DEF root, d, MadeOf
  <2>2. /\ d.kind = "inference"
        /\ InferenceValid(d) \/ \E c \in d.candidates : Refused(c)
    BY <2>1, ReadInferenceIsValid
  <2>3. ~InferenceValid(d)
    BY <2>2 DEF DerivedValid, d
  <2> QED
    BY <2>2, <2>3 DEF AtABoundary, Refused, d
<1> QED
  BY <1>1, <1>2, <1>3 DEF MadeOf

\* The claims of an inference are those of its entries.
LEMMA CandidatesClaim ==
  ASSUME NEW e
  PROVE  LET candidates == {FinalizeCandidate(k, e[k]) : k \in DOMAIN e}
         IN UNION {{[key |-> c.key, is |-> r] : r \in c.references} : c \in candidates} = Claimed(e)
<1>1. \A k, references :
        FinalizeCandidate(k, references).key = k /\ FinalizeCandidate(k, references).references = references
  BY DEF FinalizeCandidate
<1> DEFINE Claims(c) == {[key |-> c.key, is |-> r] : r \in c.references}
           candidates == {FinalizeCandidate(k, e[k]) : k \in DOMAIN e}
<1>2. \A k \in DOMAIN e : Claims(FinalizeCandidate(k, e[k])) = {[key |-> k, is |-> r] : r \in e[k]}
  BY <1>1
<1> HIDE DEF Claims
<1>3. UNION {Claims(c) : c \in candidates} = UNION {Claims(FinalizeCandidate(k, e[k])) : k \in DOMAIN e}
  OBVIOUS
<1>4. UNION {Claims(FinalizeCandidate(k, e[k])) : k \in DOMAIN e} = Claimed(e)
  BY <1>2 DEF Claimed
<1> QED
  BY <1>3, <1>4 DEF Claims

\* The versions a tree digest names, file by file.
LEMMA DigestNamesVersions ==
  ASSUME NEW root
  PROVE  /\ RoutesOf(TreeHash(root)) = RoutesRead(root, LastFile)
         /\ MentionsOf(TreeHash(root)) = MentionsRead(root, LastFile)
<1>1. TreeHash(root).of = root /\ DOMAIN Files = 1..LastFile
  BY FilesAreRead DEF TreeHash
<1> QED
  BY <1>1 DEF RoutesOf, MentionsOf, RoutesRead, MentionsRead, ReadIn

\* A document whose tree was the same before and after is of that tree.
LEMMA DerivedIsOfItsTree ==
  ASSUME NEW j, NEW t, TaskSound(j), j.pass = "after", RootSound(j, t), NEW vs \in [1..LastFile -> Nat],
         ReadSound(j, vs, LastFile, tree), \A k \in 1..LastFile : vs[k] <= j.sum[k], j.sum = j.root
  PROVE  DocumentSound(Derived(j)) /\ Derived(j).kind \in {"inventory", "inference"}
<1> DEFINE root == TreeHash(j.root)
           d == Derived(j)
<1>1. PICK s, g : MadeOf(j, vs, s, g)
  BY DerivedIs
<1>2. \A k \in 1..LastFile : vs[k] = j.root[k]
  <2> TAKE k \in 1..LastFile
  <2>1. vs[k] \in Nat /\ j.root[k] \in Nat
    BY FilesAreRead DEF RootSound
  <2>2. vs[k] <= j.root[k] /\ j.root[k] <= vs[k]
    BY DEF ReadSound
  <2> QED
    BY <2>1, <2>2
<1>3. RoutesOf(root) = RoutesRead(vs, LastFile) /\ MentionsOf(root) = MentionsRead(vs, LastFile)
  <2>1. RoutesRead(vs, LastFile) = RoutesRead(j.root, LastFile) /\ MentionsRead(vs, LastFile) = MentionsRead(j.root, LastFile)
    BY <1>2, SameRead
  <2> QED
    BY <2>1, DigestNamesVersions
<1>4. /\ AuthorizesRepository(s, root)
      /\ \A i \in j.inventory : i.scope = s /\ i.root = root
  BY <1>1 DEF RootSound, RootAuthorized, MadeOf
<1> HIDE DEF root, d
<1>5. CASE j.command = "inventory"
  <2>1. InventoryReads(g, vs, LastFile) /\ d = Inventory(s, root, g)
    BY <1>1, <1>5 DEF MadeOf, root, d
  <2>2. /\ d.kind = "inventory" /\ d.scope = s /\ d.root = root
        /\ d.routes = g.routes /\ d.truncated = g.truncated
    BY <2>1, ReadInventoryIsValid
  <2>3. InventoryIsOf(d, root)
    BY <1>3, <1>4, <2>1, <2>2 DEF InventoryIsOf, InventoryReads
  <2> QED
    BY <2>1, <2>2, <2>3 DEF DocumentSound, InventoryReads, d
<1>6. CASE j.command = "inference"
  <2>1. PICK i : j.inventory = {i} /\ InferenceReads(g, i, vs, LastFile) /\ d = Inference(s, root, i, g)
    BY <1>1, <1>6 DEF MadeOf, root, d
  <2>2. /\ d.kind = "inference" /\ d.scope = s /\ d.root = root /\ d.inventories = {i}
        /\ d.truncated = g.truncated
        /\ d.candidates = {FinalizeCandidate(k, g.entries[k]) : k \in DOMAIN g.entries}
    BY <2>1, ReadInferenceIsValid
  <2> DEFINE mentioned == MentionsOf(root) \cup UNION {Implemented(x) : x \in d.inventories}
             claimed == UNION {{[key |-> c.key, is |-> r] : r \in c.references} : c \in d.candidates}
  <2>3. mentioned = MentionsRead(vs, LastFile) \cup Implemented(i)
    BY <1>3, <2>2
  <2>4. claimed = Claimed(g.entries)
    BY <2>2, CandidatesClaim
  <2> HIDE DEF mentioned, claimed
  <2>5. claimed \subseteq mentioned /\ (d.truncated \/ claimed = mentioned)
    <3>1. LastFile > 0
      BY FilesAreRead
    <3>2. /\ Claimed(g.entries) \subseteq mentioned
          /\ g.full \/ Claimed(g.entries) = mentioned
          /\ g.full => g.truncated
      BY <2>1, <2>3, <3>1 DEF InferenceReads, Gathered
    <3> QED
      BY <2>2, <2>4, <3>2
  <2>6. \A x \in d.inventories : x.root = root /\ x.scope = d.scope
    BY <1>4, <2>1, <2>2
  <2>7. InferenceIsOf(d, root)
    BY <1>4, <2>2, <2>5, <2>6 DEF InferenceIsOf, mentioned, claimed
  <2> QED
    BY <2>2, <2>7 DEF DocumentSound, d
<1> QED
  BY <1>1, <1>5, <1>6 DEF MadeOf

\* What a pass begins with, the pass before it being over.
LEMMA PassBegins ==
  ASSUME TreeTyped, NEW j, WalkAt(j, LastFile, tree), NEW k
  PROVE  /\ (j.pass = "root" /\ j.command # "scope" /\ RootAuthorized(j, j.sum)
               /\ Begins(j, "before", j.sum, j.found, k)) => WalkSound(k, tree)
         /\ (j.pass = "before" /\ Begins(j, "read", j.root,
                 IF j.command = "inventory" THEN {NothingFound} ELSE {Gathering(i) : i \in j.inventory},
                 k)) => WalkSound(k, tree)
         /\ (j.pass = "read" /\ Begins(j, "after", j.root, j.found, k)) => WalkSound(k, tree)
<1> DEFINE none == <<>>
<1>1. none \in Seq(Nat) /\ Len(none) = 0
  OBVIOUS
<1>2. LastFile \in Nat /\ LastFile > 0 /\ DOMAIN Files = 1..LastFile /\ 0 \in 0..LastFile
      /\ 1 \in 1..LastFile /\ 1..0 = {} /\ 1 - 1 = 0 /\ 0 + 1 = 1
  BY FilesAreRead
<1>3. TaskSound(j) /\ tree \in [1..LastFile -> Nat]
  BY <1>2 DEF WalkAt, TreeTyped
<1>4. \A pass, root, found :
        Begins(j, pass, root, found, k) =>
          /\ SameTask(j, k) /\ k.pass = pass /\ k.root = root /\ k.found = found /\ k.next = 0 + 1
          /\ k.sum = none /\ k.command = j.command /\ k.inventory = j.inventory
  BY <1>2 DEF Begins, SameTask
<1> HIDE DEF none
<1>5. ASSUME j.pass = "root", j.command # "scope", RootAuthorized(j, j.sum),
             Begins(j, "before", j.sum, j.found, k)
      PROVE  WalkSound(k, tree)
  <2>1. /\ SameTask(j, k) /\ k.pass = "before" /\ k.root = j.sum /\ k.next = 0 + 1 /\ k.sum = none
    BY <1>4, <1>5
  <2>2. TaskSound(k) /\ RootAuthorized(k, k.root)
    BY <1>3, <1>5, <2>1, SameTaskIsSound
  <2>3. RootSound(k, tree)
    BY <1>5, <2>1, <2>2 DEF RootSound, WalkAt
  <2> QED
    BY <1>1, <1>2, <2>1, <2>2, <2>3 DEF WalkSound, WalkAt
<1>6. ASSUME j.pass = "before",
             Begins(j, "read", j.root,
                    IF j.command = "inventory" THEN {NothingFound} ELSE {Gathering(i) : i \in j.inventory}, k)
      PROVE  WalkSound(k, tree)
  <2>1. /\ SameTask(j, k) /\ k.pass = "read" /\ k.root = j.root /\ k.next = 0 + 1
        /\ k.command = j.command /\ k.inventory = j.inventory
        /\ k.found = IF j.command = "inventory" THEN {NothingFound} ELSE {Gathering(i) : i \in j.inventory}
    BY <1>4, <1>6
  <2>2. j.command \in {"inventory", "inference"}
    BY <1>3, <1>6 DEF TaskSound
  <2>3. TaskSound(k) /\ (RootAuthorized(j, j.root) <=> RootAuthorized(k, j.root))
    BY <1>3, <1>6, <2>1, <2>2, SameTaskIsSound
  <2>4. RootSound(j, tree)
    BY <1>6 DEF WalkAt
  <2>5. RootSound(k, tree)
    BY <2>1, <2>3, <2>4 DEF RootSound
  <2>6. CASE j.command = "inventory"
    <3>1. k.found = {NothingFound} /\ InventoryReads(NothingFound, tree, 0)
      BY <2>1, <2>6, NothingRead
    <3>2. ReadSound(k, tree, 0, tree)
      BY <1>2, <2>1, <2>6, <3>1 DEF ReadSound
    <3> QED
      BY <1>2, <1>3, <2>1, <2>3, <2>5, <3>2 DEF WalkSound, WalkAt
  <2>7. CASE j.command = "inference"
    <3>1. PICK i : j.inventory = {i} /\ RoutesTyped(i.routes)
      BY <1>3, <2>7 DEF TaskSound
    <3>2. k.found = {Gathering(i)} /\ InferenceReads(Gathering(i), i, tree, 0)
      BY <2>1, <2>7, <3>1, NothingRead
    <3>3. ReadSound(k, tree, 0, tree)
      BY <1>2, <2>1, <2>7, <3>1, <3>2 DEF ReadSound
    <3> QED
      BY <1>2, <1>3, <2>1, <2>3, <2>5, <3>3 DEF WalkSound, WalkAt
  <2> QED
    BY <2>2, <2>6, <2>7
<1>7. ASSUME j.pass = "read", Begins(j, "after", j.root, j.found, k)
      PROVE  WalkSound(k, tree)
  <2>1. /\ SameTask(j, k) /\ k.pass = "after" /\ k.root = j.root /\ k.next = 0 + 1 /\ k.found = j.found
        /\ k.sum = none /\ k.command = j.command /\ k.inventory = j.inventory
    BY <1>4, <1>7
  <2>2. j.command \in {"inventory", "inference"}
    BY <1>3, <1>7 DEF TaskSound
  <2>3. TaskSound(k) /\ (RootAuthorized(j, j.root) <=> RootAuthorized(k, j.root))
    BY <1>3, <1>7, <2>1, <2>2, SameTaskIsSound
  <2>4. RootSound(j, tree)
    BY <1>7 DEF WalkAt
  <2>5. RootSound(k, tree)
    BY <2>1, <2>3, <2>4 DEF RootSound
  <2>6. PICK vs \in [1..LastFile -> Nat] : ReadSound(j, vs, LastFile, tree)
    BY <1>7 DEF WalkAt
  <2>7. ReadSound(k, vs, LastFile, tree)
    BY <2>1, <2>6 DEF ReadSound
  <2> QED
    BY <1>1, <1>2, <2>1, <2>3, <2>5, <2>6, <2>7 DEF WalkSound, WalkAt
<1> QED
  BY <1>5, <1>6, <1>7

\* A step of a walk keeps what the walk knows, and what it writes is of its tree.
LEMMA WalkProceeds ==
  ASSUME IsTreeWalk(job), TreeTyped, WalkSound(job, tree), ReadFile
  PROVE  /\ tree' = tree /\ now' = now /\ catalog' = catalog /\ plan' = plan
         /\ job' = NoJob \/ (IsTreeWalk(job') /\ WalkSound(job', tree))
         /\ docs' = docs \/ \E d : /\ docs' = docs \cup {d} /\ DocumentSound(d)
                                   /\ d.kind \in {"scope", "inventory", "inference"}
         /\ refused' = refused \/ \E d : refused' = {d} /\ AtABoundary(d)
<1> DEFINE n == job.next - 1
<1>1. PICK j : /\ ReadsOn(job, tree[job.next], j) /\ Proceeds(j)
               /\ tree' = tree /\ now' = now /\ catalog' = catalog /\ plan' = plan
  BY ReadFileDoes
<1>2. LastFile \in Nat /\ LastFile > 0 /\ DOMAIN Files = 1..LastFile
  BY FilesAreRead
<1>3. tree \in [1..LastFile -> Nat] /\ \A i \in 1..LastFile : tree[i] \in DOMAIN Holds[Files[i]]
  BY <1>2 DEF TreeTyped
<1>4. job.next \in 1..LastFile /\ WalkAt(job, n, tree) /\ n + 1 = job.next /\ n < LastFile
  BY <1>2 DEF WalkSound
<1> HIDE DEF n
<1>5. WalkAt(j, n + 1, tree)
  <2>1. tree[n + 1] \in DOMAIN Holds[Files[n + 1]] /\ ReadsOn(job, tree[n + 1], j)
    BY <1>1, <1>3, <1>4
  <2> QED
    BY <1>3, <1>4, <2>1, WalkReadsOn
<1>6. j.next = (n + 1) + 1 /\ n + 1 \in 1..LastFile /\ TaskSound(j) /\ IsTreeWalk(j)
  BY <1>1, <1>4, <1>5 DEF WalkAt, ReadsOn, SameTask
<1>7. CASE j.next <= Len(Files)
  <2>1. job' = j /\ docs' = docs /\ refused' = refused
    BY <1>1, <1>7 DEF Proceeds
  <2>2. j.next \in 1..LastFile /\ j.next - 1 = n + 1
    BY <1>2, <1>6, <1>7 DEF LastFile
  <2>3. WalkSound(j, tree)
    BY <1>5, <2>2 DEF WalkSound
  <2> QED
    BY <1>1, <1>6, <2>1, <2>3
<1>8. CASE ~(j.next <= Len(Files))
  <2>1. n + 1 = LastFile
    BY <1>2, <1>6, <1>8 DEF LastFile
  <2>2. WalkAt(j, LastFile, tree)
    BY <1>5, <2>1
  <2>3. CASE job' = NoJob /\ docs' = docs /\ refused' = refused
    BY <1>1, <2>3
  <2>4. CASE /\ job' = NoJob /\ refused' = refused
             /\ docs' = docs \cup {SealScope({TreeHash(j.sum)}, j.until, now)}
    <3> DEFINE d == SealScope({TreeHash(j.sum)}, j.until, now)
    <3>1. d.kind = "scope"
      BY DEF SealScope
    <3>2. docs' = docs \cup {d}
      BY <2>4
    <3> HIDE DEF d
    <3>3. DocumentSound(d)
      BY <3>1 DEF DocumentSound
    <3> QED
      BY <1>1, <2>4, <3>1, <3>2, <3>3
  <2>5. CASE /\ j.pass = "root" /\ j.command # "scope" /\ RootAuthorized(j, j.sum)
             /\ Begins(j, "before", j.sum, j.found, job') /\ docs' = docs /\ refused' = refused
    <3>1. WalkSound(job', tree)
      BY <2>2, <2>5, PassBegins
    <3>2. IsTreeWalk(job')
      BY <2>5 DEF Begins, SameTask
    <3> QED
      BY <1>1, <2>5, <3>1, <3>2
  <2>6. CASE /\ j.pass = "before" /\ j.sum = j.root
             /\ Begins(j, "read", j.root,
                       IF j.command = "inventory" THEN {NothingFound} ELSE {Gathering(i) : i \in j.inventory},
                       job')
             /\ docs' = docs /\ refused' = refused
    <3>1. WalkSound(job', tree)
      BY <2>2, <2>6, PassBegins
    <3>2. IsTreeWalk(job')
      BY <2>6 DEF Begins, SameTask
    <3> QED
      BY <1>1, <2>6, <3>1, <3>2
  <2>7. CASE /\ j.pass = "read" /\ DerivedValid(Derived(j))
             /\ Begins(j, "after", j.root, j.found, job') /\ docs' = docs /\ refused' = refused
    <3>1. WalkSound(job', tree)
      BY <2>2, <2>7, PassBegins
    <3>2. IsTreeWalk(job')
      BY <2>7 DEF Begins, SameTask
    <3> QED
      BY <1>1, <2>7, <3>1, <3>2
  <2>8. CASE /\ j.pass = "read" /\ ~DerivedValid(Derived(j))
             /\ job' = NoJob /\ docs' = docs /\ refused' = {Derived(j)}
    <3>1. PICK vs \in [1..LastFile -> Nat] : ReadSound(j, vs, LastFile, tree)
      BY <2>2, <2>8 DEF WalkAt
    <3>2. AtABoundary(Derived(j))
      BY <1>6, <2>8, <3>1, DerivedFailsAtABoundary
    <3> QED
      BY <1>1, <2>8, <3>2
  <2>9. CASE /\ j.pass = "after" /\ j.sum = j.root
             /\ job' = NoJob /\ docs' = docs \cup {Derived(j)} /\ refused' = refused
    <3>1. PICK vs \in [1..LastFile -> Nat] :
            ReadSound(j, vs, LastFile, tree) /\ \A k \in 1..LastFile : vs[k] <= j.sum[k]
      BY <2>2, <2>9 DEF WalkAt
    <3>2. RootSound(j, tree)
      BY <2>2, <2>9 DEF WalkAt
    <3>3. DocumentSound(Derived(j)) /\ Derived(j).kind \in {"inventory", "inference"}
      BY <1>6, <2>9, <3>1, <3>2, DerivedIsOfItsTree
    <3> QED
      BY <1>1, <2>9, <3>3
  <2> QED
    BY <1>1, <1>8, <2>3, <2>4, <2>5, <2>6, <2>7, <2>8, <2>9 DEF Proceeds
<1> QED
  BY <1>7, <1>8

(***************************************************************************)
(* The invariant: what is typed, and what a walk has read.                 *)
(***************************************************************************)
EvidenceTyped ==
  TreeTyped /\ CatalogTyped /\ JobTyped /\ DocsSound /\ (IsTreeWalk(job) => WalkSound(job, tree))

\* Before the first command there is nothing but the tree.
LEMMA EvidenceTypedInit == Init => EvidenceTyped
<1> SUFFICES ASSUME Init PROVE EvidenceTyped
  OBVIOUS
<1>1. tree = [i \in DOMAIN Files |-> 1] /\ docs = {} /\ job = NoJob
      /\ catalog = [snapshots |-> {"first"}, deltas |-> 0, preparing |-> FALSE, rows |-> {}]
  BY DEF Init, FirstTree
<1>2. \A i \in DOMAIN Files : 1 \in DOMAIN Holds[Files[i]]
  BY TreeIsTyped, EmptySeq, LenProperties DEF IsList
<1>3. TreeTyped
  BY <1>1, <1>2 DEF TreeTyped
<1>4. CatalogTyped
  <2> DEFINE none == {}
  <2>1. none \in SUBSET (FirstRows \cup NextRows) /\ {"first"} \in SUBSET {"first"}
    OBVIOUS
  <2>2. catalog = [snapshots |-> {"first"}, deltas |-> 0, preparing |-> FALSE, rows |-> none]
    BY <1>1
  <2> HIDE DEF none
  <2> QED
    BY <2>1, <2>2 DEF CatalogTyped
<1> QED
  BY <1>1, <1>3, <1>4, JobsDiffer DEF EvidenceTyped, JobTyped, DocsSound

\* A new walk has read nothing.
LEMMA WalkBegins ==
  ASSUME NEW command \in {"scope", "inventory", "inference"}, NEW scope, NEW inventory,
         command # "scope" => \E s : scope = {s},
         command = "inference" => \E i : inventory = {i} /\ RoutesTyped(i.routes),
         NEW j, \/ j = Walk(command, scope, inventory)
                \/ \E x : j = [Walk(command, scope, inventory) EXCEPT !.until = x]
  PROVE  IsTreeWalk(j) /\ WalkSound(j, tree)
<1> DEFINE none == <<>>
<1>1. none \in Seq(Nat) /\ Len(none) = 0 /\ \A k \in 1..0 : none[k] <= tree[k]
  OBVIOUS
<1>2. LastFile \in Nat /\ LastFile > 0 /\ 0 \in 0..LastFile /\ 1 \in 1..LastFile /\ 1 - 1 = 0 /\ 0 + 1 = 1
  BY FilesAreRead
<1> DEFINE w == [command |-> command, scope |-> scope, inventory |-> inventory, until |-> 0,
                 pass |-> "root", sum |-> none, next |-> 1, root |-> none, found |-> {}]
<1>3. j = w \/ \E x : j = [w EXCEPT !.until = x]
  BY DEF Walk
<1> HIDE DEF none
<1>4. /\ j.command = command /\ j.scope = scope /\ j.inventory = inventory /\ j.pass = "root"
      /\ j.sum = none /\ j.next = 1
  BY <1>3
<1>5. j = [y \in WalkFields |-> j[y]]
  BY <1>3 DEF WalkFields
<1>6. IsTreeWalk(j)
  BY <1>4, <1>5 DEF IsTreeWalk
<1>7. TaskSound(j)
  BY <1>4 DEF TaskSound
<1>8. WalkAt(j, 0, tree)
  BY <1>1, <1>2, <1>4, <1>7 DEF WalkAt
<1> QED
  BY <1>2, <1>4, <1>6, <1>8 DEF WalkSound

\* The commands that begin a walk.
LEMMA WalkCommandDoes ==
  ASSUME DocsSound, WebScopeCreate \/ WebInventoryNextjs \/ WebInfer
  PROVE  /\ IsTreeWalk(job') /\ WalkSound(job', tree)
         /\ tree' = tree /\ now' = now /\ catalog' = catalog /\ docs' = docs /\ plan' = plan
         /\ refused' = refused
<1>1. CASE WebScopeCreate
  <2>1. PICK until : job' = [Walk("scope", {}, {}) EXCEPT !.until = until]
    BY <1>1 DEF WebScopeCreate
  <2> DEFINE j == job'
  <2>2. j = [Walk("scope", {}, {}) EXCEPT !.until = until]
    BY <2>1
  <2> HIDE DEF j
  <2>3. IsTreeWalk(j) /\ WalkSound(j, tree)
    BY <2>2, WalkBegins
  <2> QED
    BY <1>1, <2>3 DEF WebScopeCreate, j
<1>3. CASE WebInventoryNextjs
  <2>1. PICK s : job' = Walk("inventory", {s}, {})
    BY <1>3 DEF WebInventoryNextjs
  <2> DEFINE scope == {s}
             none == {}
             j == job'
  <2>2. j = Walk("inventory", scope, none) /\ \E x : scope = {x}
    BY <2>1
  <2> HIDE DEF j, scope, none
  <2>3. IsTreeWalk(j) /\ WalkSound(j, tree)
    BY <2>2, WalkBegins
  <2> QED
    BY <1>3, <2>3 DEF WebInventoryNextjs, j
<1>4. CASE WebInfer
  <2>1. PICK s \in docs, i \in OfKind("inventory") : job' = Walk("inference", {s}, {i})
    BY <1>4 DEF WebInfer, OfKind
  <2>2. RoutesTyped(i.routes)
    BY <2>1 DEF OfKind, DocsSound, DocumentSound
  <2> DEFINE scope == {s}
             inventory == {i}
             j == job'
  <2>3. /\ j = Walk("inference", scope, inventory)
        /\ \E x : scope = {x}
        /\ \E x : inventory = {x} /\ RoutesTyped(x.routes)
    BY <2>1, <2>2
  <2> HIDE DEF j, scope, inventory
  <2>4. IsTreeWalk(j) /\ WalkSound(j, tree)
    BY <2>3, WalkBegins
  <2> QED
    BY <1>4, <2>4 DEF WebInfer, j
<1> QED
  BY <1>1, <1>3, <1>4

\* The steps of a correlation read nothing of the tree.
LEMMA CorrelationStepDoes ==
  ASSUME CatalogTyped, JobTyped, CatalogWork
  PROVE  /\ tree' = tree /\ now' = now /\ plan' = plan /\ CatalogTyped'
         /\ job' = NoJob \/ job' \in Correlations
         /\ \/ docs' = docs /\ refused' = refused
            \/ /\ SearchPackageVersion
               /\ \E c : c.kind = "correlation" /\ WriteNew(c, CorrelationValid(c))
<1>1. CASE CorrelatePackage
  <2>1. PICK q \in Questions, complete \in SUBSET catalog.snapshots : \E i \in DOMAIN q[1].findings :
          /\ job' = [command |-> "correlate", step |-> "check", manifest |-> q[1], finding |-> i,
                     requested |-> q[2], hit |-> FALSE,
                     catalog |-> [snapshots |-> complete, deltas |-> catalog.deltas]]
          /\ catalog' = [catalog EXCEPT !.rows = {q[3]}, !.snapshots = complete]
    BY <1>1 DEF CorrelatePackage
  <2>2. PICK i \in DOMAIN q[1].findings :
          /\ job' = [command |-> "correlate", step |-> "check", manifest |-> q[1], finding |-> i,
                     requested |-> q[2], hit |-> FALSE,
                     catalog |-> [snapshots |-> complete, deltas |-> catalog.deltas]]
          /\ catalog' = [catalog EXCEPT !.rows = {q[3]}, !.snapshots = complete]
    BY <2>1
  <2>3. q[1] \in Manifests /\ q[2] \in Requests /\ q[3] \in FirstRows
    BY DEF Questions, FirstOf, RunsCorrelated
  <2>4. complete \in SUBSET {"first"} /\ catalog.deltas \in Nat
    BY DEF CatalogTyped
  <2>5. i \in UNION {DOMAIN m.findings : m \in Manifests}
    BY <2>3
  <2>6. job' \in Correlations
    BY <2>2, <2>3, <2>4, <2>5 DEF Correlations
  <2>7. CatalogTyped'
    <3> DEFINE held == {q[3]}
    <3>1. held \in SUBSET (FirstRows \cup NextRows)
      BY <2>3
    <3>2. catalog' = [catalog EXCEPT !.rows = held, !.snapshots = complete]
      BY <2>2
    <3> HIDE DEF held
    <3> QED
      BY <2>4, <3>1, <3>2 DEF CatalogTyped
  <2> QED
    BY <1>1, <2>6, <2>7 DEF CorrelatePackage
<1>2. CASE SearchPackage
  <2>1. job \in Correlations
    BY <1>2, JobsDiffer DEF SearchPackage, JobTyped
  <2>2. job' = NoJob \/ job' \in Correlations
    <3> DEFINE hit == \E rows \in catalog.rows : rows # <<>>
    <3>1. hit \in BOOLEAN
      OBVIOUS
    <3>2. \/ job' = NoJob \/ job' = [job EXCEPT !.step = "search"]
          \/ job' = [job EXCEPT !.step = "evaluate", !.hit = hit]
      BY <1>2 DEF SearchPackage
    <3> HIDE DEF hit
    <3> QED
      BY <2>1, <3>1, <3>2, ZenonT(30) DEF Correlations
  <2>3. CatalogTyped'
    BY <1>2 DEF SearchPackage, CatalogTyped
  <2> QED
    BY <1>2, <2>2, <2>3 DEF SearchPackage
<1>3. CASE SearchPackageVersion
  <2> DEFINE rows == CHOOSE r \in catalog.rows : TRUE
             hits == IF job.hit THEN {[assessment |-> EvaluatePackageVersion(job.requested, rows)]} ELSE {}
             c == BuildCorrelation(job.manifest, job.finding, job.requested, job.catalog, hits,
                                   [still |-> Still, held |-> rows])
  <2>1. c.kind = "correlation" /\ WriteNew(c, CorrelationValid(c))
    <3>1. c.kind = "correlation"
      BY DEF BuildCorrelation
    <3>2. WriteNew(c, CorrelationValid(c))
      BY <1>3 DEF SearchPackageVersion
    <3> QED
      BY <3>1, <3>2
  <2> HIDE DEF c
  <2>2. CatalogTyped'
    BY <1>3 DEF SearchPackageVersion, CatalogTyped
  <2> QED
    BY <1>3, <2>1, <2>2 DEF SearchPackageVersion
<1> QED
  BY <1>1, <1>2, <1>3 DEF CatalogWork

\* What goes on around the commands.
LEMMA AroundDoes ==
  ASSUME TreeTyped, CatalogTyped, Around
  PROVE  /\ TreeTyped' /\ CatalogTyped' /\ docs' = docs /\ job' = job /\ plan' = plan
         /\ refused' = refused /\ \A k \in 1..LastFile : tree[k] <= tree'[k]
<1>1. LastFile \in Nat /\ DOMAIN Files = 1..LastFile /\ \A k \in 1..LastFile : tree[k] \in Nat
  BY FilesAreRead DEF TreeTyped
<1>2. CASE Edit
  <2>1. PICK i \in DOMAIN Files : tree[i] + 1 \in DOMAIN Holds[Files[i]] /\ tree' = [tree EXCEPT ![i] = @ + 1]
    BY <1>2 DEF Edit
  <2>2. TreeTyped'
    BY <1>1, <2>1 DEF TreeTyped
  <2>3. \A k \in 1..LastFile : tree[k] <= tree'[k]
    BY <1>1, <2>1 DEF TreeTyped
  <2> QED
    BY <1>2, <2>2, <2>3 DEF Edit, CatalogTyped
<1>3. CASE Tick
  BY <1>1, <1>3 DEF Tick, TreeTyped, CatalogTyped
<1>4. CASE DeltaImport
  <2>1. \/ catalog' = [catalog EXCEPT !.preparing = TRUE]
        \/ \E rows \in NextRows : catalog' = [catalog EXCEPT !.rows = {rows}]
        \/ catalog' = [catalog EXCEPT !.preparing = FALSE, !.deltas = @ + 1]
    BY <1>4 DEF DeltaImport
  <2>2. CatalogTyped'
    <3>1. CASE \E rows \in NextRows : catalog' = [catalog EXCEPT !.rows = {rows}]
      <4>1. PICK rows \in NextRows : catalog' = [catalog EXCEPT !.rows = {rows}]
        BY <3>1
      <4> DEFINE held == {rows}
      <4>2. held \in SUBSET (FirstRows \cup NextRows) /\ catalog' = [catalog EXCEPT !.rows = held]
        BY <4>1
      <4> HIDE DEF held
      <4> QED
        BY <4>2 DEF CatalogTyped
    <3>2. CASE catalog' = [catalog EXCEPT !.preparing = TRUE]
      BY <3>2 DEF CatalogTyped
    <3>3. CASE catalog' = [catalog EXCEPT !.preparing = FALSE, !.deltas = @ + 1]
      <4> DEFINE more == catalog.deltas + 1
      <4>1. more \in Nat
        BY DEF CatalogTyped
      <4>2. catalog' = [catalog EXCEPT !.preparing = FALSE, !.deltas = more]
        BY <3>3
      <4> HIDE DEF more
      <4> QED
        BY <4>1, <4>2 DEF CatalogTyped
    <3> QED
      BY <2>1, <3>1, <3>2, <3>3
  <2> QED
    BY <1>1, <1>4, <2>2 DEF DeltaImport, TreeTyped
<1> QED
  BY <1>2, <1>3, <1>4 DEF Around

\* A document more, of the right kind, keeps the documents what they are of.
LEMMA OneMoreDocument ==
  ASSUME DocsSound, NEW d, DocumentSound(d), docs' = docs \/ docs' = docs \cup {d}
  PROVE  DocsSound'
BY DEF DocsSound

\* Type correctness, what the walks have read, and that what was written of a tree is of it.
LEMMA EvidenceTypedStep ==
  ASSUME EvidenceTyped, [Next]_vars
  PROVE  EvidenceTyped'
<1>0. LastFile \in Nat /\ DOMAIN Files = 1..LastFile
  BY FilesAreRead
<1> USE DEF EvidenceTyped
<1>1. CASE Around
  <2>1. /\ TreeTyped' /\ CatalogTyped' /\ docs' = docs /\ job' = job
        /\ \A k \in 1..LastFile : tree[k] <= tree'[k]
    BY <1>1, AroundDoes
  <2>2. JobTyped' /\ DocsSound'
    BY <2>1 DEF JobTyped, DocsSound
  <2>3. ASSUME IsTreeWalk(job) PROVE WalkSound(job, tree')
    <3>1. tree \in [1..LastFile -> Nat] /\ tree' \in [1..LastFile -> Nat]
      BY <1>0, <2>1 DEF TreeTyped
    <3>2. WalkAt(job, job.next - 1, tree) /\ job.next \in 1..LastFile
      BY <2>3 DEF WalkSound
    <3>3. WalkAt(job, job.next - 1, tree')
      BY <2>1, <3>1, <3>2, EditsKeepWalks
    <3> QED
      BY <3>2, <3>3 DEF WalkSound
  <2> QED
    BY <2>1, <2>2, <2>3
<1>2. CASE WebScopeCreate \/ WebInventoryNextjs \/ WebInfer
  <2>1. /\ IsTreeWalk(job') /\ WalkSound(job', tree)
        /\ tree' = tree /\ catalog' = catalog /\ docs' = docs
    BY <1>2, WalkCommandDoes
  <2> QED
    BY <2>1 DEF TreeTyped, CatalogTyped, JobTyped, DocsSound
<1>3. CASE WebScopeSeal \/ DocumentWork
  <2>1. /\ tree' = tree /\ catalog' = catalog /\ job' = job
        /\ \E d : Writes(d)
    BY <1>3, DocumentCommandDoes
  <2>2. PICK d : Writes(d)
    BY <2>1
  <2>3. DocumentSound(d) /\ (docs' = docs \/ docs' = docs \cup {d})
    BY <2>2 DEF Writes, OtherKinds, DocumentSound
  <2>4. DocsSound'
    BY <2>3, OneMoreDocument
  <2> QED
    BY <2>1, <2>4 DEF TreeTyped, CatalogTyped, JobTyped
<1>4. CASE ReadFile
  <2>1. IsTreeWalk(job)
    BY <1>4, JobsDiffer DEF ReadFile, JobTyped
  <2>2. /\ tree' = tree /\ catalog' = catalog
        /\ job' = NoJob \/ (IsTreeWalk(job') /\ WalkSound(job', tree))
        /\ docs' = docs \/ \E d : /\ docs' = docs \cup {d} /\ DocumentSound(d)
                                  /\ d.kind \in {"scope", "inventory", "inference"}
    BY <1>4, <2>1, WalkProceeds
  <2>3. DocsSound'
    <3>1. CASE docs' = docs
      BY <3>1 DEF DocsSound
    <3>2. CASE \E d : docs' = docs \cup {d} /\ DocumentSound(d)
      BY <3>2, OneMoreDocument
    <3> QED
      BY <2>2, <3>1, <3>2
  <2> QED
    BY <2>2, <2>3, JobsDiffer DEF TreeTyped, CatalogTyped, JobTyped
<1>5. CASE CatalogWork
  <2>1. /\ tree' = tree /\ CatalogTyped' /\ (job' = NoJob \/ job' \in Correlations)
        /\ docs' = docs \/ \E c : c.kind = "correlation" /\ WriteNew(c, CorrelationValid(c))
    BY <1>5, CorrelationStepDoes
  <2>2. DocsSound'
    <3>1. CASE docs' = docs
      BY <3>1 DEF DocsSound
    <3>2. CASE \E c : c.kind = "correlation" /\ WriteNew(c, CorrelationValid(c))
      <4>1. PICK c : c.kind = "correlation" /\ WriteNew(c, CorrelationValid(c))
        BY <3>2
      <4>2. DocumentSound(c) /\ (docs' = docs \/ docs' = docs \cup {c})
        BY <4>1 DEF DocumentSound, WriteNew
      <4> QED
        BY <4>2, OneMoreDocument
    <3> QED
      BY <2>1, <3>1, <3>2
  <2> QED
    BY <2>1, <2>2, JobsDiffer DEF TreeTyped, JobTyped
<1>6. CASE OrchestratePlan \/ UNCHANGED vars
  <2>1. tree' = tree /\ catalog' = catalog /\ docs' = docs /\ job' = job
    BY <1>6 DEF OrchestratePlan, vars
  <2> QED
    BY <2>1 DEF TreeTyped, CatalogTyped, JobTyped, DocsSound
<1> QED
  BY <1>1, <1>2, <1>3, <1>4, <1>5, <1>6 DEF Next, TreeWork

\* The trees, the catalog, the commands and the documents are what their readers expect, and
\* a walk has read what it says: in one version of each file, between its digests.
THEOREM EvidenceIsTyped == Spec => []EvidenceTyped
<1>1. Init => EvidenceTyped
  BY EvidenceTypedInit
<1>2. EvidenceTyped /\ [Next]_vars => EvidenceTyped'
  BY EvidenceTypedStep
<1> QED
  BY <1>1, <1>2, PTL DEF Spec

(***************************************************************************)
(* A plan links evidence of the tree of its run.                           *)
(***************************************************************************)
PlanSound ==
  \A p \in plan : /\ p.evidence \subseteq docs
                  /\ \E m \in Manifests : p.target = m.target /\ Linked(m, p.evidence)
EvidenceLinked == EvidenceTyped /\ PlanSound

\* Documents stay, and one command makes plans.
LEMMA DocumentsStay ==
  ASSUME EvidenceTyped, [Next]_vars
  PROVE  docs \subseteq docs' /\ (plan' = plan \/ OrchestratePlan)
<1> USE DEF EvidenceTyped
<1>1. CASE Around
  BY <1>1, AroundDoes
<1>2. CASE WebScopeCreate \/ WebInventoryNextjs \/ WebInfer
  BY <1>2, WalkCommandDoes
<1>3. CASE WebScopeSeal \/ DocumentWork
  BY <1>3, DocumentCommandDoes DEF Writes
<1>4. CASE ReadFile
  <2>1. IsTreeWalk(job)
    BY <1>4, JobsDiffer DEF ReadFile, JobTyped
  <2> QED
    BY <1>4, <2>1, WalkProceeds
<1>5. CASE CatalogWork
  BY <1>5, CorrelationStepDoes DEF WriteNew
<1>6. CASE OrchestratePlan \/ UNCHANGED vars
  BY <1>6 DEF OrchestratePlan, vars
<1> QED
  BY <1>1, <1>2, <1>3, <1>4, <1>5, <1>6 DEF Next, TreeWork

\* Only orchestrate-plan makes a plan, and it links evidence of the tree of its run.
LEMMA PlanSoundStep ==
  ASSUME EvidenceLinked, [Next]_vars
  PROVE  PlanSound'
<1>1. docs \subseteq docs' /\ (plan' = plan \/ OrchestratePlan)
  BY DocumentsStay DEF EvidenceLinked
<1>2. CASE plan' = plan
  BY <1>1, <1>2 DEF EvidenceLinked, PlanSound
<1>3. CASE OrchestratePlan
  <2>1. PICK m \in Manifests : \E evidence \in SUBSET {d \in docs : d.kind # "scope"} :
          /\ Linked(m, evidence)
          /\ plan' = plan \/ plan' = {DerivePlan(m, evidence)}
    BY <1>3 DEF OrchestratePlan
  <2>2. PICK evidence \in SUBSET {d \in docs : d.kind # "scope"} :
          Linked(m, evidence) /\ (plan' = plan \/ plan' = {DerivePlan(m, evidence)})
    BY <2>1
  <2>3. DerivePlan(m, evidence).evidence = evidence /\ DerivePlan(m, evidence).target = m.target
    BY DEF DerivePlan
  <2>4. evidence \subseteq docs'
    BY <1>1, <2>2
  <2> QED
    BY <1>1, <1>2, <2>2, <2>3, <2>4 DEF PlanSound
<1> QED
  BY <1>1, <1>2, <1>3

\* What a plan links leads to inventories and inferences of the tree of its run.
LEMMA LinkedIsOfOneTree ==
  ASSUME EvidenceLinked
  PROVE  EvidenceIsOfOneTree
<1>1. \A d \in docs : d.kind = "inventory" => InventoryIsOf(d, d.root)
  BY DEF EvidenceLinked, EvidenceTyped, DocsSound, DocumentSound
<1>2. \A d \in docs : d.kind = "inference" => InferenceIsOf(d, d.root)
  BY DEF EvidenceLinked, EvidenceTyped, DocsSound, DocumentSound
<1>3. ASSUME NEW p \in plan, NEW d \in p.evidence
      PROVE  /\ d.kind = "inventory" => InventoryIsOf(d, p.target)
             /\ d.kind = "inference" => InferenceIsOf(d, p.target)
             /\ d.kind = "assessment" => \E i \in d.inventories : InventoryIsOf(i, p.target)
             /\ d.kind \in {"lab-result", "corpus-result"} => InventoryIsOf(d.inventory, p.target)
  <2>1. PICK m \in Manifests : p.target = m.target /\ Linked(m, p.evidence)
    BY DEF EvidenceLinked, PlanSound
  <2>2. p.evidence \subseteq docs
    BY DEF EvidenceLinked, PlanSound
  <2> DEFINE Of(kind) == {e \in p.evidence : e.kind = kind}
  <2>3. /\ \A e \in Of("inventory") : e.root = p.target
        /\ \A e \in Of("inference") : e.root = p.target
        /\ \A e \in Of("assessment") : \E i \in Of("inventory") : i \in e.inventories
        /\ \A e \in Of("lab-result") : e.inventory \in Of("inventory")
        /\ \A e \in Of("corpus-result") : e.inventory \in Of("inventory")
    BY <2>1 DEF Linked
  <2>4. \A i \in Of("inventory") : InventoryIsOf(i, p.target)
    BY <1>1, <2>2, <2>3
  <2>5. d.kind = "inventory" => InventoryIsOf(d, p.target)
    BY <2>4
  <2>6. d.kind = "inference" => InferenceIsOf(d, p.target)
    BY <1>2, <2>2, <2>3
  <2>7. d.kind = "assessment" => \E i \in d.inventories : InventoryIsOf(i, p.target)
    BY <2>3, <2>4
  <2>8. d.kind \in {"lab-result", "corpus-result"} => InventoryIsOf(d.inventory, p.target)
    BY <2>3, <2>4
  <2> QED
    BY <2>5, <2>6, <2>7, <2>8
<1> QED
  BY <1>1, <1>2, <1>3 DEF EvidenceIsOfOneTree, OfKind

\* An inventory has the routes of exactly the tree its root names, an inference the mentions
\* of exactly that tree, however the tree is edited while it is read; and what a plan links
\* is of the tree of its run (discover_nextjs, infer_local_apis, orchestrate-plan).
THEOREM EvidenceIsOfTheTreeItNames == Spec => []EvidenceIsOfOneTree
<1>1. Init => EvidenceLinked
  BY EvidenceTypedInit DEF Init, EvidenceLinked, PlanSound
<1>2. EvidenceLinked /\ [Next]_vars => EvidenceLinked'
  BY EvidenceTypedStep, PlanSoundStep DEF EvidenceLinked
<1>3. EvidenceLinked => EvidenceIsOfOneTree
  BY LinkedIsOfOneTree
<1> QED
  BY <1>1, <1>2, <1>3, PTL DEF Spec

(***************************************************************************)
(* What a correlation says of the catalog, and what commands refuse.       *)
(***************************************************************************)

\* An evaluation passes its own check when there are rows to evaluate.
LEMMA EvaluationFits ==
  ASSUME NEW requested, requested.given \in BOOLEAN, NEW rows, IsList(rows)
  PROVE  LET a == EvaluatePackageVersion(requested, rows)
         IN rows # <<>> => AssessmentFits(a, requested)
<1> DEFINE a == EvaluatePackageVersion(requested, rows)
           data == ToSet(rows)
           issues == UNION {RowIssues(requested.version, rows[i]) : i \in DOMAIN rows}
           given == IF issues = {} THEN {"missing-version-data"} ELSE issues
           none == {}
<1>1. rows # <<>> => data # {}
  <2>1. rows # <<>> => 1 \in DOMAIN rows
    BY EmptySeq, LenProperties DEF IsList
  <2> QED
    BY <2>1 DEF ToSet
<1>2. \/ requested.given = FALSE /\ a = [status |-> "not-evaluated", issues |-> none, data |-> data]
      \/ requested.given = TRUE /\ \E s \in {"affected", "not-affected"} :
            a = [status |-> s, issues |-> none, data |-> data]
      \/ requested.given = TRUE /\ a = [status |-> "unknown", issues |-> given, data |-> data]
  BY DEF EvaluatePackageVersion
<1>3. given # {} /\ none = {}
  OBVIOUS
<1> HIDE DEF a, data, issues, given, none
<1>4. /\ a.data = data /\ (a.status = "not-evaluated" <=> ~requested.given)
      /\ a.status = "unknown" <=> a.issues # {}
  BY <1>2, <1>3
<1> QED
  BY <1>1, <1>4 DEF AssessmentFits, a

\* The document of a correlation.
LEMMA CorrelationIs ==
  \A m, i, requested, cat, advisories, seen :
    LET c == BuildCorrelation(m, i, requested, cat, advisories, seen)
    IN /\ c.kind = "correlation" /\ c.requested = requested /\ c.catalog = cat
       /\ c.advisories = advisories /\ c.seen = seen /\ c.summary = VersionSummary(advisories)
BY DEF BuildCorrelation

\* It says what its rows call for, and is refused only when a delta took its rows away or
\* when there is no complete snapshot.
LEMMA CorrelationSays ==
  ASSUME CatalogTyped, JobTyped, CorrelationReads, VerdictsMatchTheCatalog, SearchPackageVersion
  PROVE  VerdictsMatchTheCatalog' /\ (refused' = refused \/ \A d \in refused' : AtABoundary(d))
<1>1. job \in Correlations /\ job.step = "evaluate"
  BY JobsDiffer DEF SearchPackageVersion, JobTyped
<1>2. job.requested \in Requests
  BY <1>1 DEF Correlations
<1>3. PICK rows \in FirstRows \cup NextRows :
        catalog.rows = {rows} /\ (Still => (job.hit <=> rows # <<>>))
  BY <1>1 DEF CorrelationReads
<1> DEFINE given == job.requested
           a == EvaluatePackageVersion(given, rows)
           hits == IF job.hit THEN {[assessment |-> a]} ELSE {}
           seen == [still |-> Still, held |-> rows]
           c == BuildCorrelation(job.manifest, job.finding, given, job.catalog, hits, seen)
<1>4. WriteNew(c, CorrelationValid(c))
  <2>1. (CHOOSE r \in catalog.rows : TRUE) = rows
    BY <1>3, OnlyMember
  <2> QED
    BY <2>1 DEF SearchPackageVersion
<1>5. given.given \in BOOLEAN /\ given.version \in Int
  BY <1>2, RequestsAreTyped
<1>6. RowsTyped(rows)
  BY <1>3, RowsAreTyped
<1>7. a.status = IF given.given THEN ReferenceStatus(given.version, rows) ELSE "not-evaluated"
  <2> HIDE DEF given
  <2> QED
    BY <1>5, <1>6, VersionsAreJudgedByTheRows
<1>8. rows # <<>> => AssessmentFits(a, given)
  <2>1. IsList(rows)
    BY <1>6 DEF RowsTyped
  <2> HIDE DEF given
  <2> QED
    BY <1>5, <2>1, EvaluationFits
<1>9. \A h \in hits : h.assessment = a /\ job.hit
  OBVIOUS
<1>10. hits = {} <=> ~job.hit
  <2> HIDE DEF a
  <2> QED
    BY <1>1 DEF Correlations
<1>11. seen.still = Still /\ seen.held = rows
  OBVIOUS
<1> HIDE DEF a, hits, seen
<1>12. /\ c.kind = "correlation" /\ c.requested = given /\ c.catalog = job.catalog
       /\ c.advisories = hits /\ c.seen = seen /\ c.summary = VersionSummary(hits)
  BY CorrelationIs
<1> HIDE DEF c, given
<1>13. docs' = docs \/ docs' = docs \cup {c}
  BY <1>4 DEF WriteNew
<1>14. c.seen.still =>
         /\ (c.advisories = {}) <=> (c.seen.held = <<>>)
         /\ \A h \in c.advisories :
              h.assessment.status = IF c.requested.given THEN ReferenceStatus(c.requested.version, c.seen.held)
                                    ELSE "not-evaluated"
  BY <1>3, <1>7, <1>9, <1>10, <1>11, <1>12
<1>15. VerdictsMatchTheCatalog'
  BY <1>13, <1>14 DEF VerdictsMatchTheCatalog, OfKind
<1>16. ASSUME ~CorrelationValid(c) PROVE AtABoundary(c)
  <2>1. SUFFICES ASSUME c.catalog.snapshots # {} PROVE AtABoundary(c)
    BY <1>12 DEF AtABoundary
  <2>2. c.summary = VersionSummary(c.advisories)
    BY <1>12
  <2>3. PICK h \in c.advisories : ~AssessmentFits(h.assessment, c.requested)
    BY <1>16, <2>1, <2>2 DEF CorrelationValid
  <2>4. job.hit /\ rows = <<>>
    BY <1>8, <1>9, <1>12, <2>3
  <2>5. ~Still
    BY <1>3, <2>4
  <2>6. ~c.seen.still /\ c.seen.held = <<>>
    BY <1>11, <1>12, <2>4, <2>5
  <2> QED
    BY <1>12, <2>6 DEF AtABoundary
<1>17. refused' = refused \/ (refused' = {c} /\ ~CorrelationValid(c))
  BY <1>4 DEF WriteNew
<1> QED
  BY <1>15, <1>16, <1>17

\* What a correlation has read stays true of the catalog, or the catalog is another one.
LEMMA CorrelationReadsStep ==
  ASSUME EvidenceTyped, CorrelationReads, [Next]_vars
  PROVE  CorrelationReads'
<1> USE DEF EvidenceTyped
<1> SUFFICES ASSUME job' \in Correlations PROVE CorrelationReads'
  BY DEF CorrelationReads
<1>1. CASE job' = job /\ catalog' = catalog
  BY <1>1 DEF CorrelationReads, Still
<1>2. CASE DeltaImport
  <2>1. job' = job /\ job \in Correlations
    BY <1>2 DEF DeltaImport
  <2>2. PICK rows \in FirstRows \cup NextRows : catalog.rows = {rows}
    BY <2>1 DEF CorrelationReads
  <2>3. job.catalog.deltas <= catalog.deltas /\ job.catalog.deltas \in Nat /\ catalog.deltas \in Nat
    BY <2>1 DEF CorrelationReads, Correlations, CatalogTyped
  <2>4. CASE catalog' = [catalog EXCEPT !.preparing = TRUE]
    <3>1. catalog'.rows = {rows} /\ catalog'.deltas = catalog.deltas /\ catalog'.preparing
      BY <2>2, <2>4 DEF CatalogTyped
    <3> QED
      BY <2>1, <2>3, <3>1 DEF CorrelationReads, Still
  <2>5. CASE catalog.preparing /\ \E more \in NextRows : catalog' = [catalog EXCEPT !.rows = {more}]
    <3>1. PICK more \in NextRows : catalog' = [catalog EXCEPT !.rows = {more}]
      BY <2>5
    <3>2. catalog'.rows = {more} /\ catalog'.deltas = catalog.deltas /\ catalog'.preparing
      BY <2>5, <3>1 DEF CatalogTyped
    <3> QED
      BY <2>1, <2>3, <3>2 DEF CorrelationReads, Still
  <2>6. CASE catalog' = [catalog EXCEPT !.preparing = FALSE, !.deltas = @ + 1]
    <3>1. catalog'.rows = {rows} /\ catalog'.deltas = catalog.deltas + 1
      BY <2>2, <2>6 DEF CatalogTyped
    <3>2. job.catalog.deltas <= catalog'.deltas /\ job.catalog.deltas # catalog'.deltas
      BY <2>3, <3>1
    <3> QED
      BY <2>1, <3>1, <3>2 DEF CorrelationReads, Still
  <2> QED
    BY <1>2, <2>4, <2>5, <2>6 DEF DeltaImport
<1>3. CASE CorrelatePackage
  <2>1. PICK q \in Questions, complete \in SUBSET catalog.snapshots : \E i \in DOMAIN q[1].findings :
          /\ job' = [command |-> "correlate", step |-> "check", manifest |-> q[1], finding |-> i,
                     requested |-> q[2], hit |-> FALSE,
                     catalog |-> [snapshots |-> complete, deltas |-> catalog.deltas]]
          /\ catalog' = [catalog EXCEPT !.rows = {q[3]}, !.snapshots = complete]
    BY <1>3 DEF CorrelatePackage
  <2>2. q[3] \in FirstRows
    BY DEF Questions, FirstOf, RunsCorrelated
  <2>3. job'.step = "check" /\ job'.catalog.deltas = catalog.deltas /\ catalog'.rows = {q[3]}
        /\ catalog'.deltas = catalog.deltas /\ catalog.deltas \in Nat
    BY <2>1 DEF CatalogTyped
  <2> QED
    BY <2>2, <2>3 DEF CorrelationReads
<1>4. CASE SearchPackage
  <2>1. job \in Correlations /\ catalog' = catalog
    BY <1>4, JobsDiffer DEF SearchPackage, JobTyped
  <2>2. PICK rows \in FirstRows \cup NextRows : catalog.rows = {rows}
    BY <2>1 DEF CorrelationReads
  <2>3. job.catalog.deltas <= catalog.deltas
    BY <2>1 DEF CorrelationReads
  <2> DEFINE hit == \E r \in catalog.rows : r # <<>>
  <2>4. hit \in BOOLEAN /\ (hit <=> rows # <<>>)
    BY <2>2
  <2>5. job' = [job EXCEPT !.step = "search"] \/ job' = [job EXCEPT !.step = "evaluate", !.hit = hit]
    BY <1>4, JobsDiffer DEF SearchPackage
  <2> HIDE DEF hit
  <2>6. job'.catalog = job.catalog
    BY <2>1, <2>5 DEF Correlations
  <2>7. job'.step = "evaluate" => job'.hit = hit
    BY <2>1, <2>5 DEF Correlations
  <2> QED
    BY <2>1, <2>2, <2>3, <2>4, <2>6, <2>7 DEF CorrelationReads
<1>5. CASE SearchPackageVersion
  BY <1>5, JobsDiffer DEF SearchPackageVersion
<1>6. CASE WebScopeCreate \/ WebInventoryNextjs \/ WebInfer
  BY <1>6, WalkCommandDoes, JobsDiffer
<1>7. CASE ReadFile
  <2>1. IsTreeWalk(job)
    BY <1>7, JobsDiffer DEF ReadFile, JobTyped
  <2> QED
    BY <1>7, <2>1, WalkProceeds, JobsDiffer
<1>8. CASE WebScopeSeal \/ DocumentWork
  BY <1>1, <1>8, DocumentCommandDoes
<1>9. CASE Edit \/ Tick \/ OrchestratePlan \/ UNCHANGED vars
  BY <1>1, <1>9 DEF Edit, Tick, OrchestratePlan, vars
<1> QED
  BY <1>2, <1>3, <1>4, <1>5, <1>6, <1>7, <1>8, <1>9 DEF Next, Around, TreeWork, CatalogWork

\* The verdicts stay those of the rows, and a command refuses nothing but at a boundary.
LEMMA CommandsSay ==
  ASSUME EvidenceTyped, CorrelationReads, VerdictsMatchTheCatalog, [Next]_vars, ~OrchestratePlan
  PROVE  VerdictsMatchTheCatalog' /\ (refused' = refused \/ \A d \in refused' : AtABoundary(d))
<1> USE DEF EvidenceTyped
<1>1. CASE Around
  BY <1>1, AroundDoes, OtherDocumentsKeepVerdicts
<1>2. CASE WebScopeCreate \/ WebInventoryNextjs \/ WebInfer
  BY <1>2, WalkCommandDoes, OtherDocumentsKeepVerdicts
<1>3. CASE WebScopeSeal \/ DocumentWork
  <2>1. PICK d : Writes(d)
    BY <1>3, DocumentCommandDoes
  <2>2. d.kind # "correlation" /\ (docs' = docs \/ docs' = docs \cup {d})
    BY <2>1 DEF Writes, OtherKinds
  <2>3. VerdictsMatchTheCatalog'
    BY <2>2, OtherDocumentsKeepVerdicts
  <2> QED
    BY <2>1, <2>3 DEF Writes
<1>4. CASE ReadFile
  <2>1. IsTreeWalk(job)
    BY <1>4, JobsDiffer DEF ReadFile, JobTyped
  <2>2. /\ docs' = docs \/ \E d : docs' = docs \cup {d} /\ d.kind \in {"scope", "inventory", "inference"}
        /\ refused' = refused \/ \E d : refused' = {d} /\ AtABoundary(d)
    BY <1>4, <2>1, WalkProceeds
  <2>3. \A c \in docs' : c \in docs \/ c.kind # "correlation"
    BY <2>2
  <2> QED
    BY <2>2, <2>3, OtherDocumentsKeepVerdicts
<1>5. CASE CorrelatePackage \/ SearchPackage \/ UNCHANGED vars
  <2>1. docs' = docs /\ refused' = refused
    BY <1>5 DEF CorrelatePackage, SearchPackage, vars
  <2> QED
    BY <2>1, OtherDocumentsKeepVerdicts
<1>6. CASE SearchPackageVersion
  BY <1>6, CorrelationSays
<1> QED
  BY <1>1, <1>2, <1>3, <1>4, <1>5, <1>6 DEF Next, TreeWork, CatalogWork

EvidenceJudged == EvidenceTyped /\ CorrelationReads /\ VerdictsMatchTheCatalog

\* No verdict is given before the first correlation.
LEMMA EvidenceJudgedInit == Init => EvidenceJudged
<1> SUFFICES ASSUME Init PROVE EvidenceJudged
  OBVIOUS
<1>1. docs = {} /\ job \notin Correlations
  BY JobsDiffer DEF Init
<1> QED
  BY <1>1, EvidenceTypedInit DEF EvidenceJudged, CorrelationReads, VerdictsMatchTheCatalog, OfKind

\* A step that writes a correlation writes the verdict the rows it read call for.
LEMMA EvidenceJudgedStep ==
  ASSUME EvidenceJudged, [Next]_vars
  PROVE  EvidenceJudged'
<1> USE DEF EvidenceJudged
<1>1. EvidenceTyped' /\ CorrelationReads'
  BY EvidenceTypedStep, CorrelationReadsStep
<1>2. CASE OrchestratePlan
  <2>1. docs' = docs
    BY <1>2 DEF OrchestratePlan
  <2> QED
    BY <1>1, <2>1, OtherDocumentsKeepVerdicts
<1> QED
  BY <1>1, <1>2, CommandsSay

\* The verdict of a correlation is the one the stored ranges call for, in the meaning the OSV
\* schema gives them, unless a delta was imported while it was made; and no advisory is named
\* exactly when there are no rows (evaluate_package_version, search_package_version).
THEOREM VerdictsAreOfTheCatalog == Spec => []VerdictsMatchTheCatalog
<1>1. Init => EvidenceJudged
  BY EvidenceJudgedInit
<1>2. EvidenceJudged /\ [Next]_vars => EvidenceJudged'
  BY EvidenceJudgedStep
<1>3. EvidenceJudged => VerdictsMatchTheCatalog
  BY DEF EvidenceJudged
<1> QED
  BY <1>1, <1>2, <1>3, PTL DEF Spec

\* What a plan counts of a manifest.
LEMMA RunStateCounts ==
  ASSUME NEW m, IsList(m.findings)
  PROVE  LET s == RunState(m)
         IN /\ s.pending + s.terminal = s.candidates
            /\ s.aiCompleted + s.aiUnfinished <= s.candidates
<1> DEFINE D == DOMAIN m.findings
           P == {i \in D : m.findings[i].review.decision = "pending"}
           A == {i \in D : m.findings[i].ai.status \in {"completed"}}
           U == {i \in D : m.findings[i].ai.status \in {"failed", "queued"}}
           s == RunState(m)
<1>1. /\ s.candidates = Len(m.findings) /\ s.pending = Cardinality(P)
      /\ s.terminal = Len(m.findings) - Cardinality(P)
      /\ s.aiCompleted = Cardinality(A) /\ s.aiUnfinished = Cardinality(U)
  BY DEF RunState, Counting
<1>2. Len(m.findings) \in Nat /\ D = 1..Len(m.findings)
  BY LenProperties DEF IsList
<1>3. IsFiniteSet(D) /\ Cardinality(D) = Len(m.findings)
  BY <1>2, FS_Interval
<1>4. P \subseteq D /\ A \subseteq D /\ U \subseteq D /\ A \cap U = {}
  OBVIOUS
<1> HIDE DEF D, P, A, U, s
<1>5. /\ IsFiniteSet(P) /\ IsFiniteSet(A) /\ IsFiniteSet(U) /\ A \cup U \subseteq D
      /\ Cardinality(A \cup U) <= Cardinality(D)
  BY <1>3, <1>4, FS_Subset
<1>6. Cardinality(P) \in Nat /\ Cardinality(A) \in Nat /\ Cardinality(U) \in Nat
  BY <1>5, FS_CardinalityType
<1>7. Cardinality(A \cup U) = Cardinality(A) + Cardinality(U)
  <2>1. Cardinality(A \cap U) = 0
    BY <1>4, FS_EmptySet
  <2>2. Cardinality(A \cup U) = Cardinality(A) + Cardinality(U) - Cardinality(A \cap U)
    BY <1>5, FS_Union
  <2> QED
    BY <1>6, <2>1, <2>2
<1>8. s.pending + s.terminal = s.candidates /\ s.aiCompleted + s.aiUnfinished <= s.candidates
  BY <1>1, <1>2, <1>3, <1>5, <1>6, <1>7
<1> QED
  BY <1>8 DEF s

\* A plan passes its own check but of a manifest that is prioritized and not analysed.
LEMMA PlanIsValid ==
  ASSUME NEW m, IsList(m.findings), NEW evidence
  PROVE  PlanValid(DerivePlan(m, evidence)) \/ AtABoundary(DerivePlan(m, evidence))
<1> DEFINE p == DerivePlan(m, evidence)
           s == RunState(m)
           prioritized == m.prioritization = "completed"
<1>1. /\ p.kind = "plan" /\ p.manifest = m /\ p.evidence = evidence /\ p.state = s
      /\ p.phases = DerivePhases(m, evidence) /\ p.claim = Claim(s)
      /\ p.next = NextAction(m.deterministic = "completed", prioritized, s, evidence)
  BY DEF DerivePlan
<1>2. /\ p.phases.analysis = PhaseOf(m.deterministic)
      /\ p.phases.prioritization = IF m.deterministic # "completed" THEN "blocked"
                                   ELSE PhaseOf(m.prioritization)
      /\ p.phases.context = ContextPhase(prioritized, evidence)
      /\ p.phases.ai = AiPhase(s)
      /\ p.phases.validation = ValidationPhase(prioritized, s)
      /\ p.phases.evaluation = EvaluationPhase(prioritized, s, evidence)
  BY <1>1 DEF DerivePhases
<1>3. \A x : PhaseOf(x) = "completed" <=> x = "completed"
  BY DEF PhaseOf
<1>4. /\ s.pending + s.terminal = s.candidates
      /\ s.aiCompleted + s.aiUnfinished <= s.candidates
  BY RunStateCounts
<1>5. CASE m.deterministic # "completed" /\ m.prioritization = "completed"
  BY <1>1, <1>5 DEF AtABoundary
<1>6. CASE ~(m.deterministic # "completed" /\ m.prioritization = "completed")
  <2>1. (p.phases.analysis = "completed") = (m.deterministic = "completed")
    BY <1>2, <1>3
  <2>2. (p.phases.prioritization = "completed") = prioritized
    BY <1>2, <1>3, <1>6
  <2>3. p.phases.analysis # "completed" => p.phases.prioritization = "blocked"
    BY <1>2, <2>1
  <2> HIDE DEF p, s, prioritized
  <2>4. p.next = NextAction(p.phases.analysis = "completed", p.phases.prioritization = "completed",
                            p.state, p.evidence)
    BY <1>1, <2>1, <2>2
  <2>5. /\ p.phases.context = ContextPhase(p.phases.prioritization = "completed", p.evidence)
        /\ p.phases.validation = ValidationPhase(p.phases.prioritization = "completed", p.state)
        /\ p.phases.evaluation
             = EvaluationPhase(p.phases.prioritization = "completed", p.state, p.evidence)
    BY <1>1, <1>2, <2>2
  <2>6. p.phases.ai = AiPhase(p.state) /\ p.claim = Claim(p.state)
    BY <1>1, <1>2
  <2>7. /\ p.state.pending + p.state.terminal = p.state.candidates
        /\ p.state.aiCompleted + p.state.aiUnfinished <= p.state.candidates
    BY <1>1, <1>4
  <2>8. PlanValid(p)
    BY <2>3, <2>4, <2>5, <2>6, <2>7, Zenon DEF PlanValid
  <2> QED
    BY <2>8 DEF p
<1> QED
  BY <1>5, <1>6

\* A step refuses only what is at a boundary.
LEMMA OwnChecksStep ==
  ASSUME EvidenceJudged, OwnChecksPass, [Next]_vars
  PROVE  OwnChecksPass'
<1>1. ASSUME refused' = refused \/ \A d \in refused' : AtABoundary(d)
      PROVE  OwnChecksPass'
  BY <1>1 DEF OwnChecksPass
<1>2. CASE OrchestratePlan
  <2>1. PICK m \in Manifests : \E evidence \in SUBSET {d \in docs : d.kind # "scope"} :
          LET p == DerivePlan(m, evidence)
          IN IF PlanValid(p) THEN plan' = {p} /\ UNCHANGED refused
             ELSE refused' = {p} /\ UNCHANGED plan
    BY <1>2 DEF OrchestratePlan
  <2>2. PICK evidence \in SUBSET {d \in docs : d.kind # "scope"} :
          LET p == DerivePlan(m, evidence)
          IN IF PlanValid(p) THEN plan' = {p} /\ UNCHANGED refused
             ELSE refused' = {p} /\ UNCHANGED plan
    BY <2>1
  <2>3. IsList(m.findings)
    BY ManifestsAreTyped
  <2> DEFINE p == DerivePlan(m, evidence)
  <2>4. PlanValid(p) \/ AtABoundary(p)
    BY <2>3, PlanIsValid
  <2>5. refused' = refused \/ (refused' = {p} /\ ~PlanValid(p))
    BY <2>2
  <2> HIDE DEF p
  <2> QED
    BY <1>1, <2>4, <2>5
<1> QED
  BY <1>1, <1>2, CommandsSay DEF EvidenceJudged

\* Whatever the trees, their paths and texts, the coverage tables, the catalogs and the manifests,
\* a document that a command derived and its own checks refuse is at one of the boundaries that
\* AtABoundary names: of the checks that are modelled (counts, summaries, derivations, lineage,
\* applicability, numbers of references, lengths of derived texts) no other is ever failed
\* (discover_nextjs, infer_local_apis, assess_routes, record_human_validation, compare_inventory,
\* evaluate_corpus, build_correlation_v2, derive_plan and their validate functions).
THEOREM CommandsPassTheirOwnChecks == Spec => []OwnChecksPass
<1>1. Init => EvidenceJudged /\ OwnChecksPass
  BY EvidenceJudgedInit DEF Init, OwnChecksPass
<1>2. EvidenceJudged /\ OwnChecksPass /\ [Next]_vars => (EvidenceJudged /\ OwnChecksPass)'
  BY EvidenceJudgedStep, OwnChecksStep
<1> QED
  BY <1>1, <1>2, PTL DEF Spec
=============================================================================
