------------------------------- MODULE MCEvents -------------------------------
(* Events with a demo of two tags and two events. *)
EXTENDS Events, TLC

MCTagTable == <<"home", "work">>
MCRows == <<{"home", "work"}>>
=============================================================================
