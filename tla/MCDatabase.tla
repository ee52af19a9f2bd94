----------------------------- MODULE MCDatabase -----------------------------
(***************************************************************************)
(* Instances of Database for TLC.  The hashes of k2 are among those of k1: *)
(* the Bloom filter of a table with k1 reports k2, that of a table with    *)
(* only k2 does not report k1.                                             *)
(***************************************************************************)
EXTENDS Database

CONSTANTS k1, k2

NestedBits == [k \in Key |-> IF k = k1 THEN {1, 2} ELSE {2}]
=============================================================================
