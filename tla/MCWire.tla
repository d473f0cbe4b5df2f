------------------------------- MODULE MCWire -------------------------------
(* Binary bytes, a length of three of them, a ceiling of three and a         *)
(* connection that holds two bytes: a body at the ceiling takes several      *)
(* reads, and one byte more is over it.                                      *)
EXTENDS Wire

MCMessage == {"short", "full", "over"}

MCBody == [m \in MCMessage |-> CASE m = "short" -> <<1>>
                                 [] m = "full"  -> <<0, 1, 1>>
                                 [] m = "over"  -> <<1, 1, 1, 1>>]

=============================================================================
