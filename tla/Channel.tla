------------------------------ MODULE Channel -------------------------------
(***************************************************************************)
(* What one direction of a connection promises to the code that uses       *)
(* write_frame and read_frame (src/protocol.rs): messages come out as they *)
(* went in, in order, none twice, none invented, and when the connection   *)
(* is cut the reader has had every message that was written to its end.    *)
(***************************************************************************)
EXTENDS Naturals, Sequences

CONSTANT Message

VARIABLES
    sent,   \* messages written to their end
    got,    \* messages read
    open    \* the reader goes on

vars == <<sent, got, open>>

Init == sent = <<>> /\ got = <<>> /\ open = TRUE

Send(m) == sent' = Append(sent, m) /\ UNCHANGED <<got, open>>

Deliver ==
    /\ open /\ Len(got) < Len(sent)
    /\ got' = Append(got, sent[Len(got) + 1])
    /\ UNCHANGED <<sent, open>>

\* The reader gives up only when there is nothing left for it.
End == open /\ got = sent /\ open' = FALSE /\ UNCHANGED <<sent, got>>

Next == (\E m \in Message : Send(m)) \/ Deliver \/ End

Spec == Init /\ [][Next]_vars

=============================================================================
