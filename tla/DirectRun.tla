----------------------------- MODULE DirectRun -----------------------------
(***************************************************************************)
(* What `ghbrk git` and `ghbrk gh` promise their caller about a command    *)
(* the broker agreed to run: it is as if the caller ran the command itself *)
(* with its own standard streams.  The command reads what the caller gave, *)
(* in order; the caller sees what the command wrote, in order; and an exit *)
(* code is reported only when it is the command's own and all output has   *)
(* been delivered.  A run can also be cut (the caller, the broker or the   *)
(* connection goes away, or the command closes its output): only then does *)
(* the command meet an end of file its caller did not send.                *)
(***************************************************************************)
EXTENDS Naturals, Sequences

CONSTANTS
    Status,    \* how a process can end: with a code, or by a signal
    NoStatus   \* it has not ended

Stream == {"stdout", "stderr"}

\* The code a shell would give its user.
ShellCode(s) == IF s.kind = "code" THEN s.number ELSE 128 + s.number

ErrorCode == 1

VARIABLES
    given,      \* chunks the caller's standard input handed over: 1, 2, ... given
    sourceEnd,  \* the caller's standard input is at its end
    got,        \* chunks the command read
    gotEof,     \* the command read an end of file
    produced,   \* per stream, chunks written: 1, 2, ... produced[s]
    delivered,  \* per stream, chunks the caller received
    status,     \* how the command ended
    cut,        \* the run was cut
    outcome,    \* "none" yet, the command's "status" or an "error" of the broker's
    code        \* the exit code the caller was given with it

runVars ==
    <<given, sourceEnd, got, gotEof, produced, delivered, status, cut, outcome, code>>

Init ==
    /\ given = 0 /\ sourceEnd = FALSE
    /\ got = <<>> /\ gotEof = FALSE
    /\ produced = [s \in Stream |-> 0] /\ delivered = [s \in Stream |-> <<>>]
    /\ status = NoStatus /\ outcome = "none" /\ code = 0
    /\ cut \in BOOLEAN

Give ==
    /\ ~sourceEnd
    /\ given' = given + 1
    /\ UNCHANGED <<sourceEnd, got, gotEof, produced, delivered, status, cut, outcome, code>>

EndSource ==
    /\ sourceEnd' = TRUE
    /\ UNCHANGED <<given, got, gotEof, produced, delivered, status, cut, outcome, code>>

Take ==
    /\ ~gotEof /\ status = NoStatus
    /\ Len(got) < given
    /\ got' = Append(got, Len(got) + 1)
    /\ UNCHANGED <<given, sourceEnd, gotEof, produced, delivered, status, cut, outcome, code>>

\* An end of file means that all input was read, unless the run was cut.
SeeEof ==
    /\ cut \/ (sourceEnd /\ Len(got) = given)
    /\ gotEof' = TRUE
    /\ UNCHANGED <<given, sourceEnd, got, produced, delivered, status, cut, outcome, code>>

\* A command's descendants can go on writing after it ended, but not after its
\* status was reported.
Produce(s) ==
    /\ outcome # "status"
    /\ produced' = [produced EXCEPT ![s] = @ + 1]
    /\ UNCHANGED <<given, sourceEnd, got, gotEof, delivered, status, cut, outcome, code>>

Deliver(s) ==
    /\ outcome = "none"
    /\ Len(delivered[s]) < produced[s]
    /\ delivered' = [delivered EXCEPT ![s] = Append(@, Len(@) + 1)]
    /\ UNCHANGED <<given, sourceEnd, got, gotEof, produced, status, cut, outcome, code>>

End ==
    /\ status = NoStatus
    /\ status' \in Status
    /\ UNCHANGED <<given, sourceEnd, got, gotEof, produced, delivered, cut, outcome, code>>

Cut ==
    /\ cut' = TRUE
    /\ UNCHANGED <<given, sourceEnd, got, gotEof, produced, delivered, status, outcome, code>>

\* The command's own status, and only after all of its output.
ReportStatus ==
    /\ outcome = "none" /\ status # NoStatus
    /\ \A s \in Stream : Len(delivered[s]) = produced[s]
    /\ outcome' = "status" /\ code' = ShellCode(status) /\ cut' = TRUE
    /\ UNCHANGED <<given, sourceEnd, got, gotEof, produced, delivered, status>>

\* The run was cut short: the caller gets an error, never a success.
ReportError ==
    /\ outcome = "none"
    /\ outcome' = "error" /\ code' = ErrorCode /\ cut' = TRUE
    /\ UNCHANGED <<given, sourceEnd, got, gotEof, produced, delivered, status>>

Next ==
    \/ Give \/ EndSource \/ Take \/ SeeEof \/ End \/ Cut
    \/ ReportStatus \/ ReportError
    \/ \E s \in Stream : Produce(s) \/ Deliver(s)

Spec == Init /\ [][Next]_runVars
=============================================================================
