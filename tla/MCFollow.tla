---- MODULE MCFollow ----
(* Small instances of Follow. *)
EXTENDS Follow
====
