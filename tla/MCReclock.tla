----------------------------- MODULE MCReclock -----------------------------
(* Two replicas' handles on one remap shard, times up to MCMaxTime.        *)
EXTENDS Reclock

CONSTANTS h1, h2

MCHandles == {h1, h2}
====
