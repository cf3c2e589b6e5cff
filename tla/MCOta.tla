---- MODULE MCOta ----
(* Small instances of Ota. *)
EXTENDS Ota
====
