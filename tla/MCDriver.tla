------------------------------- MODULE MCDriver -------------------------------
(* Instances of Driver for TLC. *)
EXTENDS DriverProps

\* The program: the parser gives no module a name.
Unnamed == {"unnamed"}

\* Two types stand for the nine that have a function with a static.
Types == {"i32", "bool"}

=============================================================================
