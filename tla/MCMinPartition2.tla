---- MODULE MCMinPartition2 ----
(* MinPartition2 on the machines of SmallMachines. *)
EXTENDS MinPartition2, SmallMachines
====
