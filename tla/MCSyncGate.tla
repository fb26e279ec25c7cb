----------------------------- MODULE MCSyncGate -----------------------------
(***************************************************************************)
(* Two renames beside a placeholder the user opens and a change the long   *)
(* poll hears of; the buffer holds one rename; a tick runs one job.        *)
(***************************************************************************)
EXTENDS SyncGate, TLC

CONSTANTS a, b, x, y, z, w

MCPath  == {x, y, z, w}
MCRemote == {x}
MCBatch == {a, b}
MCFrom  == a :> x @@ b :> z
MCTo    == a :> y @@ b :> w

=============================================================================
