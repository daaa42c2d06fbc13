---------------------------- MODULE ReleaseLedger ----------------------------
(***************************************************************************)
(* What the trust store promises its operator, with no processes, locks,   *)
(* metadata or files: per profile the newest release it has accepted only  *)
(* moves forward, at most one installation is reserved at a time and only  *)
(* for an accepted release, and a reservation ends as an installation or   *)
(* as nothing.  Recorded installations are never forgotten.                *)
(***************************************************************************)
EXTENDS Integers

CONSTANTS Profiles, NoManifest

VARIABLES floor, reserved, installed

ledger == <<floor, reserved, installed>>

\* A later release, or the same one again.
Follows(new, old) ==
  \/ new.sequence > old.sequence
  \/ new.sequence = old.sequence /\ old.manifest \in {NoManifest, new.manifest}
  \/ new = old

LedgerInit ==
  /\ \A p \in Profiles : floor[p].manifest = NoManifest
  /\ reserved = {} /\ installed = {}

\* Accepted metadata moves any number of floors forward together.
Observe ==
  /\ \A p \in Profiles : Follows(floor'[p], floor[p])
  /\ UNCHANGED <<reserved, installed>>

Accepted(r) == floor[r.profile] = [sequence |-> r.sequence, manifest |-> r.manifest]

Reserve ==
  /\ reserved = {}
  /\ \E r \in reserved' : reserved' = {r} /\ r \notin installed /\ Accepted(r)
  /\ UNCHANGED <<floor, installed>>

Settle ==
  /\ reserved # {} /\ reserved' = {}
  /\ installed' \in {installed, installed \cup reserved}
  /\ UNCHANGED floor

\* A reservation that reached the ledger only when its outcome did.
Install ==
  /\ reserved = {}
  /\ \E r \in installed' : installed' = installed \cup {r} /\ Accepted(r)
  /\ UNCHANGED <<floor, reserved>>

LedgerNext == Observe \/ Reserve \/ Settle \/ Install

LedgerSpec == LedgerInit /\ [][LedgerNext]_ledger
=============================================================================
