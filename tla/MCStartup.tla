----------------------------- MODULE MCStartup ------------------------------
(* Values of the constants for TLC: two numbers that are no default, and    *)
(* no quarter of one another.                                               *)
EXTENDS Startup
MCValues == {40, 60}
=============================================================================
