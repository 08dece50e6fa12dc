---- MODULE MCMinMark ----
(* MinMark on the machines of SmallMachines. *)
EXTENDS MinMark, SmallMachines
====
