---- MODULE MCCollection ----
(* Collection, for TLC. *)
EXTENDS Collection
====
