--------------------------- MODULE MCTrustInstall ---------------------------
(***************************************************************************)
(* Installations of two successive releases, and an attempt at two         *)
(* manifests under one sequence, with crashes, power losses, a root        *)
(* rotation that revokes a timestamp key, and files that other programs    *)
(* put at an output path, one of them with the very bytes of a release.    *)
(***************************************************************************)
EXTENDS TrustStore

CONSTANTS m1, m2, other

KeySets(ts) == [root |-> {"r1", "r2", "r3"}, targets |-> {"g1", "g2", "g3"},
                snapshot |-> {"s1", "s2"}, timestamp |-> ts]
Thresholds == [root |-> 2, targets |-> 2, snapshot |-> 1, timestamp |-> 1]
Root(version, ts) ==
  [version |-> version, expires |-> 3, keys |-> KeySets(ts),
   threshold |-> Thresholds, signers |-> {"r1", "r2"}]
Root1 == Root(1, {"t1", "t2"})
MCRoots == {Root(2, {"t3", "t4"})}

SignedTargets(version, sequence, manifest) ==
  [version |-> version, expires |-> 3, signers |-> {"g1", "g2"},
   entries |-> [core |-> [sequence |-> sequence, manifest |-> manifest]]]
Parent(version, child, signers) ==
  [version |-> version, expires |-> 3, child |-> child, signers |-> signers]
Chain(version, targets, signers) ==
  Parent(version, Parent(version, targets, {"s1"}), signers)

MCTimestamps == {Chain(1, SignedTargets(1, 1, m1), {"t1"}),
                 Chain(2, SignedTargets(2, 1, m2), {"t1", "t3"}),
                 Chain(3, SignedTargets(3, 2, m2), {"t1"})}
MCProfiles == {"core"}
MCHorizon == [root |-> 3, targets |-> 3, snapshot |-> 3, timestamp |-> 3]
=============================================================================
