---- MODULE MCApp ----
(* Small instances of App. *)
EXTENDS App
====
