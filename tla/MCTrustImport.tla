---------------------------- MODULE MCTrustImport ----------------------------
(***************************************************************************)
(* Metadata import and verification with a publisher that rotates keys,    *)
(* equivocates, replays and re-signs; no installation path.                *)
(***************************************************************************)
EXTENDS TrustStore, TLC

CONSTANTS m1, m2, m3

KeySets(ts) == [root |-> {"r1", "r2", "r3"}, targets |-> {"g1", "g2", "g3"},
                snapshot |-> {"s1", "s2"}, timestamp |-> ts]
Thresholds == [root |-> 2, targets |-> 2, snapshot |-> 1, timestamp |-> 1]
Root(version, expires, ts, signers) ==
  [version |-> version, expires |-> expires, keys |-> KeySets(ts),
   threshold |-> Thresholds, signers |-> signers]

\* The initial root, a rotation of the timestamp keys, and the same version again
\* with other content; the third is not signed by a quorum.
Root1 == Root(1, 4, {"t1", "t2"}, {"r1", "r2"})
MCRoots == {Root(2, 4, {"t3", "t4"}, {"r1", "r3"}),
            Root(2, 3, {"t3", "t4"}, {"r1", "r2"}),
            Root(2, 4, {"t5", "t6"}, {"r1", "t5"})}

SignedTargets(version, expires, entries) ==
  [version |-> version, expires |-> expires, entries |-> entries, signers |-> {"g1", "g2"}]
Parent(version, child, signers) ==
  [version |-> version, expires |-> 4, child |-> child, signers |-> signers]
Release(sequence, manifest) == [sequence |-> sequence, manifest |-> manifest]

Core1 == [core |-> Release(1, m1)]
Both2 == [core |-> Release(2, m2), full |-> Release(1, m1)]
Fork2 == [core |-> Release(2, m3)]
G1 == SignedTargets(1, 3, Core1)
G2 == SignedTargets(2, 4, Both2)
G3 == SignedTargets(3, 4, Fork2)
G4 == SignedTargets(2, 4, Core1)
S1 == Parent(1, G1, {"s1"})
S2 == Parent(2, G2, {"s2"})
S3 == Parent(3, G3, {"s1"})
S4 == Parent(2, G4, {"s1"})
S5 == Parent(4, G1, {"s1"})
MCTimestamps ==
  {Parent(1, S1, {"t1"}), Parent(2, S2, {"t1", "t3"}), Parent(3, S3, {"t1", "t3"}),
   Parent(3, S4, {"t2"}), Parent(4, S1, {"t3"}), Parent(4, S5, {"t2"}), Parent(2, S2, {"t9"})}

\* Processes are interchangeable, and no liveness is checked here.
ProcSymmetry == Permutations(Procs)

MCProfiles == {"core", "full"}
MCHorizon == [root |-> 3, targets |-> 3, snapshot |-> 3, timestamp |-> 3]
=============================================================================
