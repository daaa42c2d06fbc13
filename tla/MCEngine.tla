------------------------------ MODULE MCEngine ------------------------------
(***************************************************************************)
(* A run with a timeout of two ticks, with and without an expiry that      *)
(* shortens it, two chunks of output allowed and more than that written,   *)
(* and one delay and one edit anywhere.                                    *)
(***************************************************************************)
EXTENDS EngineRun

MCValidities == {NoExpiry, 3}
MCMaxWritten == [stdout |-> 2, stderr |-> 1]
=============================================================================
