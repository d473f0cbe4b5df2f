------------------------------- MODULE Doctor -------------------------------
(***************************************************************************)
(* `ghbrk doctor` and the broker's check handler (src/cmd/doctor.rs,       *)
(* src/health_check.rs, handle_check_request in src/broker.rs), beside the *)
(* credential loading they are meant to predict (src/credentials.rs).      *)
(* The client asks the broker over the socket, collects its frames, judges *)
(* the paths it can stat itself and folds every verdict into one exit      *)
(* code; the connection may end after any frame, and either side may be a  *)
(* release that does not know the shared-filesystem check.                 *)
(*                                                                         *)
(* Data abstraction.  A mode is the set of its permission bits, so "beyond *)
(* the expected mode" is set difference.  Of a status line the label and   *)
(* the verdict word are kept.  An owner is "ghbrk", "root" or "other".     *)
(***************************************************************************)
EXTENDS Naturals, Sequences

CONSTANTS
    Hosts,     \* the states of the machine doctor may be run on
    NoTmp      \* a /tmp that cannot be stat'd, or an identity that was not sent

UserBits == {"ur", "uw", "ux"}
GroupBits == {"gr", "gw", "gx"}
OtherBits == {"or", "ow", "ox"}
Bit == UserBits \cup GroupBits \cup OtherBits
PathKind == {"File", "Directory", "Socket"}
Verdict == {"Ok", "Warning", "Error"}

Mode600 == {"ur", "uw"}
Mode700 == UserBits
Mode660 == {"ur", "uw", "gr", "gw"}
Mode755 == UserBits \cup {"gr", "gx", "or", "ox"}

\* What a stat of a path gives: [stat, owner, mode].
PathState == [stat : {"ok", "missing", "error"}, owner : {"ghbrk", "root", "other"},
              mode : SUBSET Bit]

ASSUME HostAssumption ==
    \A h \in Hosts :
        /\ h.listening \in BOOLEAN /\ h.admits \in BOOLEAN /\ h.userNameOk \in BOOLEAN
        /\ h.oldDaemon \in BOOLEAN /\ h.ownerKnown \in BOOLEAN /\ h.tokenReadable \in BOOLEAN
        /\ {h.dir, h.key, h.token, h.policy, h.configDir, h.socket} \subseteq PathState
        /\ h.github \in {"Ok", "InvalidToken", "Unreachable"}
        /\ h.policyOpens \in {"yes", "missing", "denied", "error"} /\ h.policyParses \in BOOLEAN

-----------------------------------------------------------------------------
(* What a brokered request needs: load_credentials. *)

verify_ssh_key(host) == host.key.stat = "ok" /\ host.key.mode = Mode600

read_token(host) ==
    host.token.stat = "ok" /\ host.token.mode = Mode600 /\ host.tokenReadable

load_credentials(host) == host.userNameOk /\ verify_ssh_key(host) /\ read_token(host)

-----------------------------------------------------------------------------
(* The broker's checks: a set of status lines and whether all is well. *)

StatusLine(label, verdict) == [label |-> label, verdict |-> verdict]

check_file(label, path) ==
    StatusLine(label, CASE path.stat = "missing"                        -> "MISSING"
                        [] path.stat = "error"                          -> "ERROR"
                        [] path.stat = "ok" /\ path.mode = Mode600      -> "OK"
                        [] OTHER                                        -> "BAD PERMISSIONS")

check_shared_filesystem(host, caller_tmp) ==
    StatusLine("Shared filesystem",
               IF host.brokerTmp # NoTmp /\ host.brokerTmp = caller_tmp THEN "OK" ELSE "ERROR")

\* A token that cannot be read as text is only skipped here.
check_github_api(host) ==
    StatusLine("GitHub API",
        IF host.token.stat # "ok" \/ ~host.tokenReadable THEN "SKIPPED"
        ELSE CASE host.github = "Ok"           -> "OK"
               [] host.github = "InvalidToken" -> "INVALID TOKEN"
               [] OTHER                        -> "UNREACHABLE")

\* The shared-filesystem line comes whenever an identity was sent, and before
\* the credential checks can end the list.
run_checks(host, caller_tmp) ==
    (IF caller_tmp # NoTmp /\ ~host.oldDaemon
     THEN {check_shared_filesystem(host, caller_tmp)} ELSE {})
    \cup (IF ~host.userNameOk THEN {StatusLine("ghbrk check", "invalid")}
          ELSE {check_file("SSH key", host.key), check_file("Token", host.token),
                check_github_api(host)})

AllOk(lines) == \A line \in lines : line.verdict \in {"OK", "SKIPPED"}

\* One entry for the directory, then one per file; none for a refused name.
audit_credential_paths(host) ==
    IF host.userNameOk THEN <<host.dir, host.key, host.token>> ELSE <<>>

-----------------------------------------------------------------------------
(* The client's classifier. *)

\* Only bits beyond the expected mode are an exposure, and a wrong owner
\* dominates the mode.
classify_permissions(kind, expected_owner, owner, expected, mode) ==
    LET excess == mode \ expected
        writes == CASE kind = "File"      -> {"gw", "ow"}
                    [] kind = "Directory" -> {"gw", "ow", "gx", "ox"}
                    [] OTHER              -> {"or", "ow"}
    IN  IF owner # expected_owner \/ excess \cap writes # {} THEN "Error"
        ELSE IF kind # "Socket" /\ excess \cap {"gr", "or"} # {} THEN "Warning"
        ELSE "Ok"

classify_path_audit(entry, kind, expected) ==
    IF entry.stat # "ok" THEN "Error"
    ELSE classify_permissions(kind, "ghbrk", entry.owner, expected, entry.mode)

\* Without a ghbrk account nothing can be compared: one warning.
classify_credential_audit(host, entries) ==
    IF ~host.ownerKnown THEN {"Warning"}
    ELSE {classify_path_audit(entries[i], IF i = 1 THEN "Directory" ELSE "File",
                              IF i = 1 THEN Mode700 ELSE Mode600) : i \in DOMAIN entries}

CheckedStat(path, kind, expected_owner, expected) ==
    IF path.stat # "ok" THEN "Error"
    ELSE classify_permissions(kind, expected_owner, path.owner, expected, path.mode)

check_policy_permissions(host) ==
    IF ~host.ownerKnown THEN "Warning" ELSE CheckedStat(host.policy, "File", "ghbrk", Mode600)

check_config_dir_permissions(host) ==
    CheckedStat(host.configDir, "Directory", "root", Mode755)

check_socket_permissions(host) ==
    IF ~host.ownerKnown THEN "Warning" ELSE CheckedStat(host.socket, "Socket", "ghbrk", Mode660)

\* A policy the caller may not open is not the caller's to check.
check_policy(host) ==
    CASE host.policyOpens = "denied" -> "Ok"
      [] host.policyOpens = "yes" /\ host.policyParses -> "Ok"
      [] OTHER -> "Error"

\* Only the words for passed and not run count as a pass.
status_line_passes(line) == line.verdict \in {"OK", "SKIPPED"}

\* Seeded fault: the exit code of the whole check is the credentials verdict.
credentials_passed_ExitOnly(code, lines, paths) == code = 0 /\ "Error" \notin paths

\* A zero exit is conclusive, a non-zero one names no subsystem: then the
\* credential lines decide.
credentials_passed(code, lines, paths) ==
    (code = 0 \/ \A line \in lines : status_line_passes(line)) /\ "Error" \notin paths

SharedLines(lines) == {line \in lines : line.label = "Shared filesystem"}

\* No line although an identity was sent: version skew, no more than a warning.
shared_filesystem_verdict(lines, sent) ==
    CASE SharedLines(lines) # {} ->
            IF \A line \in SharedLines(lines) : status_line_passes(line) THEN "Ok" ELSE "Error"
      [] SharedLines(lines) = {} /\ sent # NoTmp -> "Warning"
      [] OTHER -> "Ok"
=============================================================================
