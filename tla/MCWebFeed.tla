------------------------------ MODULE MCWebFeed ------------------------------
(* Two socket numbers, and a table with room for fewer pages than may open. *)
EXTENDS WebFeed
=============================================================================
