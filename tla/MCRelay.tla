------------------------------ MODULE MCRelay ------------------------------
(* Small instances of Relay for TLC: a child that succeeds, fails or is    *)
(* killed by a signal.                                                     *)
EXTENDS Relay

Code(n) == [kind |-> "code", number |-> n]
Killed == [kind |-> "signal", number |-> 15]

AllStatus == {Code(0), Code(3), Killed}
OneStatus == {Killed}

\* Enough for the child to block on one stream while the other is in use; and
\* on one stream alone, where liveness is checked.
Writes == [s \in Stream |-> IF s = "stdout" THEN 2 ELSE 1]
LiveWrites == [s \in Stream |-> IF s = "stdout" THEN 2 ELSE 0]
=============================================================================
