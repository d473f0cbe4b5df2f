----------------------------- MODULE DoctorRun ------------------------------
(***************************************************************************)
(* One run of `ghbrk doctor`: the client's steps, the broker's frames and  *)
(* the connection between them, which may end after any frame.             *)
(***************************************************************************)
EXTENDS Doctor

VARIABLES
    host,      \* the machine, unchanged during the run
    pc,        \* the client's place
    sent,      \* the /tmp identity the request carries, or NoTmp
    broker,    \* the handler's place: "idle", "asked", "reported", "audited", "closed"
    wire,      \* frames on the way to the client
    lines,     \* status lines collected from the broker
    complete,  \* an Exit frame arrived
    verdicts,  \* one verdict per subsystem, and the set for the credential paths
    exit       \* the exit status, or "running"

vars == <<host, pc, sent, broker, wire, lines, complete, verdicts, exit>>

Subsystem ==
    {"daemon", "credentials", "shared", "policy", "policy permissions", "config dir", "socket"}

Init ==
    /\ host \in Hosts
    /\ pc = "tmp" /\ sent = NoTmp /\ broker = "idle" /\ wire = <<>>
    /\ lines = {} /\ complete = FALSE
    /\ verdicts = [subsystem |-> [s \in Subsystem |-> "Ok"], paths |-> {}]
    /\ exit = "running"

Judge(s, verdict) == [verdicts EXCEPT !.subsystem[s] = verdict]

\* caller_tmp_identity: a /tmp that cannot be stat'd sends no identity.
StatOwnTmp ==
    /\ pc = "tmp"
    /\ sent' = host.callerTmp
    /\ pc' = "connect"
    /\ UNCHANGED <<host, broker, wire, lines, complete, verdicts, exit>>

\* The credential result of a check that did not finish.
credentials_unresolved == Judge("credentials", "Error")

\* Seeded fault: the client waits for an answer it never asked for.
SendRequest_Lost ==
    /\ pc = "send"
    /\ pc' = "receive"
    /\ UNCHANGED <<host, sent, broker, wire, lines, complete, verdicts, exit>>

\* Without a daemon the credentials cannot be resolved.
Connect ==
    /\ pc = "connect"
    /\ IF host.listening THEN pc' = "send" /\ UNCHANGED verdicts
       ELSE /\ verdicts' = [credentials_unresolved EXCEPT !.subsystem["daemon"] = "Error"]
            /\ pc' = "policy"
    /\ UNCHANGED <<host, sent, broker, wire, lines, complete, exit>>

\* The request is written, or the write fails on a connection that is gone.
SendRequest ==
    /\ pc = "send"
    /\ IF broker = "closed" THEN /\ verdicts' = credentials_unresolved
                                 /\ pc' = "policy" /\ UNCHANGED broker
       ELSE pc' = "receive" /\ broker' = "asked" /\ UNCHANGED verdicts
    /\ UNCHANGED <<host, sent, wire, lines, complete, exit>>

\* The connection handler refuses a caller it cannot name, or a frame it
\* cannot read.
DenyCaller ==
    /\ pc \in {"send", "receive"} /\ broker \in {"idle", "asked"} /\ ~host.admits
    /\ wire' = Append(wire, [type |-> "denied"])
    /\ broker' = "closed"
    /\ UNCHANGED <<host, pc, sent, lines, complete, verdicts, exit>>

\* handle_check_request, one frame at a time.  An older daemon ignores the
\* identity.
SendReport ==
    /\ broker = "asked" /\ host.admits
    /\ wire' = Append(wire, [type |-> "stdout", lines |-> run_checks(host, sent)])
    /\ broker' = "reported"
    /\ UNCHANGED <<host, pc, sent, lines, complete, verdicts, exit>>

SendAudit ==
    /\ broker = "reported"
    /\ wire' = Append(wire, [type |-> "audit", entries |-> audit_credential_paths(host)])
    /\ broker' = "audited"
    /\ UNCHANGED <<host, pc, sent, lines, complete, verdicts, exit>>

SendExit ==
    /\ broker = "audited"
    /\ wire' = Append(wire, [type |-> "exit", code |-> IF AllOk(run_checks(host, sent)) THEN 0 ELSE 1])
    /\ broker' = "closed"
    /\ UNCHANGED <<host, pc, sent, lines, complete, verdicts, exit>>

\* The daemon dies: what it had written may or may not still arrive.
LoseConnection ==
    /\ pc \in {"send", "receive"} /\ broker # "closed"
    /\ \E n \in 0..Len(wire) : wire' = SubSeq(wire, 1, n)
    /\ broker' = "closed"
    /\ UNCHANGED <<host, pc, sent, lines, complete, verdicts, exit>>

Receiving(type) == pc = "receive" /\ wire # <<>> /\ Head(wire).type = type /\ wire' = Tail(wire)

ReceiveReport ==
    /\ Receiving("stdout")
    /\ lines' = lines \cup Head(wire).lines
    /\ UNCHANGED <<host, pc, sent, broker, complete, verdicts, exit>>

ReceiveAudit ==
    /\ Receiving("audit")
    /\ verdicts' = [verdicts EXCEPT !.paths = classify_credential_audit(host, Head(wire).entries)]
    /\ UNCHANGED <<host, pc, sent, broker, lines, complete, exit>>

\* The credentials verdict is drawn from the lines that are left once the
\* shared-filesystem line is taken out.
ReceiveExit ==
    /\ Receiving("exit")
    /\ LET passed == credentials_passed(Head(wire).code, lines \ SharedLines(lines), verdicts.paths)
       IN  verdicts' = [verdicts EXCEPT
                !.subsystem["credentials"] = IF passed THEN "Ok" ELSE "Error",
                !.subsystem["shared"] = shared_filesystem_verdict(lines, sent)]
    /\ complete' = TRUE
    /\ pc' = "policy"
    /\ UNCHANGED <<host, sent, broker, lines, exit>>

ReceiveDenied ==
    /\ Receiving("denied")
    /\ verdicts' = credentials_unresolved
    /\ pc' = "policy"
    /\ UNCHANGED <<host, sent, broker, lines, complete, exit>>

\* Seeded fault: the loop ends quietly when the connection does.
ReceiveError_Quiet ==
    /\ pc = "receive" /\ wire = <<>> /\ broker = "closed"
    /\ pc' = "policy"
    /\ UNCHANGED <<host, sent, broker, wire, lines, complete, verdicts, exit>>

\* The stream ends before an Exit frame.
ReceiveError ==
    /\ pc = "receive" /\ wire = <<>> /\ broker = "closed"
    /\ verdicts' = credentials_unresolved
    /\ pc' = "policy"
    /\ UNCHANGED <<host, sent, broker, wire, lines, complete, exit>>

\* Every other check runs whatever the ones before found.
CheckPolicy ==
    /\ pc = "policy"
    /\ verdicts' = Judge("policy", check_policy(host))
    /\ pc' = "permissions"
    /\ UNCHANGED <<host, sent, broker, wire, lines, complete, exit>>

CheckPermissions ==
    /\ pc = "permissions"
    /\ verdicts' = [verdicts EXCEPT
            !.subsystem["policy permissions"] = check_policy_permissions(host),
            !.subsystem["config dir"] = check_config_dir_permissions(host),
            !.subsystem["socket"] = check_socket_permissions(host)]
    /\ pc' = "aggregate"
    /\ UNCHANGED <<host, sent, broker, wire, lines, complete, exit>>

\* Only errors fail the command.
aggregate_exit(v) ==
    IF (\E s \in Subsystem : v.subsystem[s] = "Error") \/ "Error" \in v.paths THEN "1" ELSE "0"

Aggregate ==
    /\ pc = "aggregate"
    /\ exit' = aggregate_exit(verdicts)
    /\ pc' = "done"
    /\ UNCHANGED <<host, sent, broker, wire, lines, complete, verdicts>>

Client ==
    \/ StatOwnTmp \/ Connect \/ SendRequest
    \/ ReceiveReport \/ ReceiveAudit \/ ReceiveExit \/ ReceiveDenied \/ ReceiveError
    \/ CheckPolicy \/ CheckPermissions \/ Aggregate

Handler == DenyCaller \/ SendReport \/ SendAudit \/ SendExit

Next == Client \/ Handler \/ LoseConnection

Spec == Init /\ [][Next]_vars

\* The client waits for no one but the broker; a handler that is asked answers
\* or its connection ends, since the only call it waits for, the GitHub probe,
\* runs under `timeout 10`.
LiveSpec == Spec /\ WF_vars(Client) /\ WF_vars(Handler)

-----------------------------------------------------------------------------
(* Properties. *)

\* A clean bill is true and complete: after exit 0 the broker's answer had come to
\* its Exit frame, a brokered request of this caller finds a daemon and loads its
\* credentials, and a policy the caller can read parses.  (A token the broker
\* cannot read as text passes as skipped; that case is left out.)
CleanBillTrue ==
    exit = "0" =>
        /\ complete /\ host.listening
        /\ host.tokenReadable => load_credentials(host)
        /\ host.policyOpens = "yes" => host.policyParses

CredentialFault ==
    \/ ~host.userNameOk \/ ~load_credentials(host)
    \/ host.github # "Ok"
    \/ "Error" \in classify_credential_audit(host, audit_credential_paths(host))

TmpFault == ~host.oldDaemon /\ host.callerTmp # NoTmp /\ host.callerTmp # host.brokerTmp

\* The right subsystem is blamed: a check that ran to its end fails the
\* credentials only for a fault of the credentials, and the file system only
\* for two known /tmp directories that differ.  The command fails for these and
\* for the paths the client judges itself, and never for a warning: neither an
\* older daemon nor a caller without a /tmp fails it.  (A fault is what the code
\* takes for one: a credential of mode 0640 and a socket of an unexpected owner are
\* among them, though the doctor-permissions specification asks for warnings there.)
RightSubsystemBlamed ==
    complete =>
        /\ verdicts.subsystem["credentials"] = "Error" => CredentialFault
        /\ verdicts.subsystem["shared"] = "Error" => TmpFault
        /\ exit = "1" =>
             \/ CredentialFault \/ TmpFault \/ check_policy(host) = "Error"
             \/ "Error" \in {check_policy_permissions(host), check_config_dir_permissions(host),
                             check_socket_permissions(host)}

\* The command always comes to an end, whenever the broker goes away.
DoctorFinishes == <>(exit # "running")
=============================================================================
