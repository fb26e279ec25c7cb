---------------------------- MODULE MCKeyMigration ----------------------------
(* One path of two spellings, two sources that an upload may owe, and two   *)
(* launches; sources are alike, and launches are.                           *)
EXTENDS KeyMigration, TLC

CONSTANTS p, q, n, s, t

Alike == Permutations({p, q}) \cup Permutations({s, t})
=============================================================================
