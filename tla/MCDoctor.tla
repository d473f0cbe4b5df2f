------------------------------ MODULE MCDoctor ------------------------------
(* Small instances of DoctorRun: a healthy machine and every machine with at *)
(* most two things changed.                                                  *)
EXTENDS DoctorRun

P(owner, mode) == [stat |-> "ok", owner |-> owner, mode |-> mode]
Missing == [stat |-> "missing", owner |-> "root", mode |-> {}]
Unstatable == [stat |-> "error", owner |-> "root", mode |-> {}]

Healthy ==
    [listening |-> TRUE, admits |-> TRUE, userNameOk |-> TRUE, oldDaemon |-> FALSE,
     ownerKnown |-> TRUE, tokenReadable |-> TRUE, github |-> "Ok",
     dir |-> P("ghbrk", Mode700), key |-> P("ghbrk", Mode600), token |-> P("ghbrk", Mode600),
     policy |-> P("ghbrk", Mode600), policyOpens |-> "denied", policyParses |-> TRUE,
     configDir |-> P("root", Mode755), socket |-> P("ghbrk", Mode660),
     callerTmp |-> <<1, 2>>, brokerTmp |-> <<1, 2>>]

FilePaths(base) ==
    {Missing, Unstatable, P("other", base), P("ghbrk", base \cup {"gr"}),
     P("ghbrk", base \cup {"gw"}), P("ghbrk", {"ur"})}

Changes ==
    {[f |-> "listening", v |-> FALSE], [f |-> "admits", v |-> FALSE],
     [f |-> "userNameOk", v |-> FALSE], [f |-> "oldDaemon", v |-> TRUE],
     [f |-> "ownerKnown", v |-> FALSE], [f |-> "tokenReadable", v |-> FALSE],
     [f |-> "policyParses", v |-> FALSE]}
    \cup {[f |-> "github", v |-> g] : g \in {"InvalidToken", "Unreachable"}}
    \cup {[f |-> "policyOpens", v |-> o] : o \in {"yes", "missing", "error"}}
    \cup {[f |-> file, v |-> p] : file \in {"key", "token", "policy"}, p \in FilePaths(Mode600)}
    \cup {[f |-> "dir", v |-> p] : p \in FilePaths(Mode700)}
    \cup {[f |-> "configDir", v |-> p] :
            p \in {Missing, P("other", Mode755), P("root", Mode755 \cup {"gw"}), P("root", Mode700)}}
    \cup {[f |-> "socket", v |-> p] :
            p \in {Missing, P("other", Mode660), P("ghbrk", Mode660 \cup {"ow"})}}
    \cup {[f |-> tmp, v |-> i] : tmp \in {"callerTmp", "brokerTmp"}, i \in {NoTmp, <<1, 3>>}}

Apply(h, c) == [h EXCEPT ![c.f] = c.v]

MCHosts == {Apply(Apply(Healthy, c), d) : c \in Changes, d \in Changes} \cup {Healthy}
=============================================================================
