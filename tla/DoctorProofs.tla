---------------------------- MODULE DoctorProofs ----------------------------
(***************************************************************************)
(* What holds of the permission classifier (src/cmd/doctor.rs) for every   *)
(* path, owner and mode, and of a run of doctor on every machine.          *)
(*                                                                         *)
(* The two properties of a run speak of its end: of the verdicts and of    *)
(* the exit code.  They follow from what the client has in hand before,    *)
(* which the invariant keeps: what it has read and what is still on the    *)
(* wire is, in order, a beginning of the one answer the broker gives for   *)
(* this machine (InAnswer), and what it has judged it has judged of the    *)
(* whole of that answer or not at all (Judgements).                        *)
(***************************************************************************)
EXTENDS DoctorRun, SequenceTheorems, TLAPS

Rank(verdict) == CASE verdict = "Ok" -> 0 [] verdict = "Warning" -> 1 [] OTHER -> 2

\* A verdict is one of three, and they are ranked by how they end the command.
LEMMA RankOfVerdict == Rank("Ok") = 0 /\ Rank("Warning") = 1 /\ Rank("Error") = 2
  BY DEF Rank

\* Granting more never softens the verdict on a path: whatever the kind of path,
\* its owner and the mode expected of it, a mode with more bits is judged no
\* milder (classify_permissions looks at the bits beyond the expected mode, and
\* at the ones that can be written before the ones that can be read).
THEOREM WideningNeverSoftens ==
  ASSUME NEW kind \in PathKind, NEW expected_owner, NEW owner,
         NEW expected \in SUBSET Bit, NEW mode \in SUBSET Bit,
         NEW wider \in SUBSET Bit, mode \subseteq wider
  PROVE  Rank(classify_permissions(kind, expected_owner, owner, expected, mode))
           <= Rank(classify_permissions(kind, expected_owner, owner, expected, wider))
<1> DEFINE writes == CASE kind = "File"      -> {"gw", "ow"}
                       [] kind = "Directory" -> {"gw", "ow", "gx", "ox"}
                       [] OTHER              -> {"or", "ow"}
           reads == {"gr", "or"}
           Fails(m) == owner # expected_owner \/ (m \ expected) \cap writes # {}
           Warns(m) == kind # "Socket" /\ (m \ expected) \cap reads # {}
           verdict(m) == IF Fails(m) THEN "Error" ELSE IF Warns(m) THEN "Warning" ELSE "Ok"
<1>1. \A m : classify_permissions(kind, expected_owner, owner, expected, m) = verdict(m)
  BY DEF classify_permissions
<1>2. Fails(mode) => Fails(wider)
  OBVIOUS
<1>3. Warns(mode) => Warns(wider)
  OBVIOUS
<1> HIDE DEF Fails, Warns
<1>4. Rank(verdict(mode)) <= Rank(verdict(wider))
  BY <1>2, <1>3, RankOfVerdict
<1> QED
  BY <1>1, <1>4

-----------------------------------------------------------------------------
(* The verdicts of a run.                                                  *)

\* The frames of a whole answer, and the only other one.
Report == [type |-> "stdout", lines |-> run_checks(host, sent)]
PathAudit == [type |-> "audit", entries |-> audit_credential_paths(host)]
ExitFrame == [type |-> "exit", code |-> IF AllOk(run_checks(host, sent)) THEN 0 ELSE 1]
Answer == <<Report, PathAudit, ExitFrame>>
Denied == [type |-> "denied"]

\* What the classifier makes of the whole audit of the credential paths.
PathVerdicts == classify_credential_audit(host, audit_credential_paths(host))

\* The values of the variables.
DoctorTypes ==
    /\ host \in Hosts
    /\ pc \in {"tmp", "connect", "send", "receive", "policy", "permissions", "aggregate", "done"}
    /\ broker \in {"idle", "asked", "reported", "audited", "closed"}
    /\ complete \in BOOLEAN /\ exit \in {"running", "0", "1"}
    /\ verdicts \in [subsystem : [Subsystem -> Verdict], paths : SUBSET Verdict]

\* The steps at which the answer is over.
Judging == {"policy", "permissions", "aggregate", "done"}

\* Before the answer.
Unasked ==
    /\ pc \in {"tmp", "connect"} => broker = "idle" /\ wire = <<>> /\ lines = {} /\ verdicts.paths = {}
    /\ pc = "send" => broker \in {"idle", "closed"}
    /\ pc # "tmp" => sent = host.callerTmp
    /\ pc \in {"send", "receive"} \/ complete => host.listening
    /\ pc \notin Judging => ~complete
    /\ pc # "done" => exit = "running"
    /\ host.listening => verdicts.subsystem["daemon"] = "Ok"

\* The client has read k frames of the answer and the connection holds frames
\* that follow them; the broker is as far as both together.
Reading(k) ==
    /\ lines = (IF k = 0 THEN {} ELSE run_checks(host, sent))
    /\ verdicts.paths = (IF k = 2 THEN PathVerdicts ELSE {})
    /\ wire \in Seq({Report, PathAudit, ExitFrame})
    /\ k + Len(wire) <= 3 /\ \A i \in 1..Len(wire) : wire[i] = Answer[k + i]
    /\ broker \in {"idle", "asked"} => k + Len(wire) = 0
    /\ broker = "reported" => k + Len(wire) = 1
    /\ broker = "audited" => k + Len(wire) = 2

\* While the answer may still come: the denial, or some beginning of the answer.
InAnswer ==
    pc \in {"send", "receive"} =>
        \/ ~host.admits /\ wire \in {<<>>, <<Denied>>}
             /\ lines = {} /\ verdicts.paths = {} /\ broker \in {"idle", "asked", "closed"}
             /\ (broker # "closed" => wire = <<>>)
        \/ host.admits /\ \E k \in 0..2 : Reading(k)

\* Once the answer is over: what was judged, and from what.
Judgements ==
    /\ pc \in Judging =>
         IF complete
         THEN /\ lines = run_checks(host, sent) /\ verdicts.paths = PathVerdicts
              /\ verdicts.subsystem["credentials"] =
                   IF credentials_passed(ExitFrame.code, lines \ SharedLines(lines), PathVerdicts)
                   THEN "Ok" ELSE "Error"
              /\ verdicts.subsystem["shared"] = shared_filesystem_verdict(lines, sent)
         ELSE verdicts.subsystem["credentials"] = "Error"
    /\ pc \in {"permissions", "aggregate", "done"} =>
         verdicts.subsystem["policy"] = check_policy(host)
    /\ pc \in {"aggregate", "done"} =>
         /\ verdicts.subsystem["policy permissions"] = check_policy_permissions(host)
         /\ verdicts.subsystem["config dir"] = check_config_dir_permissions(host)
         /\ verdicts.subsystem["socket"] = check_socket_permissions(host)
    /\ pc = "done" => exit = aggregate_exit(verdicts)

DoctorInv == DoctorTypes /\ Unasked /\ InAnswer /\ Judgements

\* The classifiers give verdicts.
LEMMA Verdicts ==
    /\ check_policy(host) \in Verdict /\ check_policy_permissions(host) \in Verdict
    /\ check_config_dir_permissions(host) \in Verdict /\ check_socket_permissions(host) \in Verdict
    /\ \A ls, s : shared_filesystem_verdict(ls, s) \in Verdict
    /\ \A es : classify_credential_audit(host, es) \in SUBSET Verdict
<1>1. \A kind, eo, o, e, m : classify_permissions(kind, eo, o, e, m) \in Verdict
  BY DEF classify_permissions, Verdict
<1>2. \A path, kind, eo, e : CheckedStat(path, kind, eo, e) \in Verdict /\ classify_path_audit(path, kind, e) \in Verdict
  BY <1>1 DEF CheckedStat, classify_path_audit, Verdict
<1>3. \A es : classify_credential_audit(host, es) \in SUBSET Verdict
  BY <1>2 DEF classify_credential_audit, Verdict
<1>4. \A ls, s : shared_filesystem_verdict(ls, s) \in Verdict
  BY DEF shared_filesystem_verdict, Verdict
<1>5. check_policy(host) \in Verdict
  BY DEF check_policy, Verdict
<1> QED
  BY <1>2, <1>3, <1>4, <1>5 DEF check_policy_permissions, check_config_dir_permissions, check_socket_permissions, Verdict

\* What an action does to the verdicts.
LEMMA JudgeOne ==
    ASSUME NEW v \in [subsystem : [Subsystem -> Verdict], paths : SUBSET Verdict],
           NEW s \in Subsystem, NEW x \in Verdict
    PROVE  LET w == [v EXCEPT !.subsystem[s] = x] IN
           /\ w \in [subsystem : [Subsystem -> Verdict], paths : SUBSET Verdict]
           /\ w.subsystem[s] = x /\ w.paths = v.paths
           /\ \A t \in Subsystem : t # s => w.subsystem[t] = v.subsystem[t]
OBVIOUS

\* The beginning.
LEMMA DoctorStart == Init => DoctorInv
<1> SUFFICES ASSUME Init PROVE DoctorInv
  OBVIOUS
<1>1. /\ host \in Hosts /\ pc = "tmp" /\ broker = "idle" /\ wire = <<>> /\ lines = {} /\ complete = FALSE
      /\ verdicts = [subsystem |-> [s \in Subsystem |-> "Ok"], paths |-> {}] /\ exit = "running"
  BY DEF Init
<1>2. verdicts \in [subsystem : [Subsystem -> Verdict], paths : SUBSET Verdict]
      /\ verdicts.paths = {} /\ verdicts.subsystem["daemon"] = "Ok"
  BY <1>1 DEF Verdict, Subsystem
<1>3. DoctorTypes
  BY <1>1, <1>2 DEF DoctorTypes
<1>4. Unasked
  BY <1>1, <1>2 DEF Unasked
<1>5. InAnswer
  BY <1>1 DEF InAnswer
<1>6. Judgements
  BY <1>1 DEF Judgements, Judging
<1> QED
  BY <1>3, <1>4, <1>5, <1>6 DEF DoctorInv

\* No step changes the machine.
LEMMA SameHost == [Next]_vars => host' = host
BY DEF Next, Client, Handler, StatOwnTmp, Connect, SendRequest, ReceiveReport, ReceiveAudit, ReceiveExit,
       ReceiveDenied, ReceiveError, CheckPolicy, CheckPermissions, Aggregate, DenyCaller, SendReport,
       SendAudit, SendExit, LoseConnection, vars

\* While it reads, the frame in front is the next one of the answer, or the
\* denial of a caller that is not admitted.
LEMMA NextFrame ==
    ASSUME InAnswer, pc = "receive", wire # <<>>
    PROVE  \/ ~host.admits /\ Head(wire) = Denied
           \/ host.admits /\ \E k \in 0..2 : Reading(k) /\ Head(wire) = Answer[k + 1]
<1>1. CASE ~host.admits
  BY <1>1 DEF InAnswer
<1>2. CASE host.admits
  <2>1. PICK k \in 0..2 : Reading(k)
    BY <1>2 DEF InAnswer
  <2>2. wire \in Seq({Report, PathAudit, ExitFrame}) /\ \A i \in 1..Len(wire) : wire[i] = Answer[k + i]
    BY <2>1 DEF Reading
  <2>3. 1 \in 1..Len(wire) /\ Head(wire) = wire[1]
    BY <2>2
  <2> QED
    BY <1>2, <2>1, <2>2, <2>3
<1> QED
  BY <1>1, <1>2

\* The type of a frame of the answer is its place in it.
LEMMA FrameTypes ==
    /\ Answer[1] = Report /\ Answer[2] = PathAudit /\ Answer[3] = ExitFrame
    /\ Report.type = "stdout" /\ Report.lines = run_checks(host, sent)
    /\ PathAudit.type = "audit" /\ PathAudit.entries = audit_credential_paths(host)
    /\ ExitFrame.type = "exit" /\ Denied.type = "denied"
BY DEF Answer, Report, PathAudit, ExitFrame, Denied

\* A frame read leaves the ones behind it.
LEMMA ReadOne ==
    ASSUME NEW k \in 0..2, Reading(k), wire # <<>>
    PROVE  /\ Tail(wire) \in Seq({Report, PathAudit, ExitFrame}) /\ (k + 1) + Len(Tail(wire)) = k + Len(wire)
           /\ \A i \in 1..Len(Tail(wire)) : Tail(wire)[i] = Answer[(k + 1) + i]
<1>1. /\ wire \in Seq({Report, PathAudit, ExitFrame})
      /\ \A i \in 1..Len(wire) : wire[i] = Answer[k + i]
  BY DEF Reading
<1>2. /\ Tail(wire) \in Seq({Report, PathAudit, ExitFrame}) /\ Len(Tail(wire)) = Len(wire) - 1 /\ Len(wire) \in Nat
      /\ \A i \in 1..Len(Tail(wire)) : Tail(wire)[i] = wire[i + 1]
  BY <1>1
<1>3. \A i \in 1..Len(Tail(wire)) : i + 1 \in 1..Len(wire) /\ k + (i + 1) = (k + 1) + i
  BY <1>2
<1>4. \A i \in 1..Len(Tail(wire)) : Tail(wire)[i] = Answer[(k + 1) + i]
  BY <1>1, <1>2, <1>3, Zenon
<1>5. (k + 1) + Len(Tail(wire)) = k + Len(wire)
  BY <1>2
<1> QED
  BY <1>2, <1>4, <1>5

\* A frame written stands behind the others.
LEMMA WriteOne ==
    ASSUME NEW k \in 0..2, Reading(k), k + Len(wire) < 3, NEW f \in {Report, PathAudit, ExitFrame},
           f = Answer[k + Len(wire) + 1]
    PROVE  /\ Append(wire, f) \in Seq({Report, PathAudit, ExitFrame})
           /\ Len(Append(wire, f)) = Len(wire) + 1 /\ k + Len(Append(wire, f)) <= 3
           /\ \A i \in 1..Len(Append(wire, f)) : Append(wire, f)[i] = Answer[k + i]
<1>1. /\ wire \in Seq({Report, PathAudit, ExitFrame})
      /\ \A i \in 1..Len(wire) : wire[i] = Answer[k + i]
  BY DEF Reading
<1>2. /\ Append(wire, f) \in Seq({Report, PathAudit, ExitFrame}) /\ Len(Append(wire, f)) = Len(wire) + 1
      /\ Len(wire) \in Nat
      /\ \A i \in 1..Len(wire) : Append(wire, f)[i] = wire[i]
      /\ Append(wire, f)[Len(wire) + 1] = f
  BY <1>1
<1>3. \A i \in 1..Len(Append(wire, f)) : i \in 1..Len(wire) \/ i = Len(wire) + 1
  BY <1>2
<1>4. k + (Len(wire) + 1) = k + Len(wire) + 1 /\ k + (Len(wire) + 1) <= 3
  BY <1>2
<1>5. \A i \in 1..Len(Append(wire, f)) : Append(wire, f)[i] = Answer[k + i]
  BY <1>1, <1>2, <1>3, <1>4, Zenon
<1> QED
  BY <1>2, <1>4, <1>5, Zenon

\* The frames that still arrive of a connection that is lost.
LEMMA LoseSome ==
    ASSUME NEW k \in 0..2, Reading(k), NEW n \in 0..Len(wire)
    PROVE  /\ SubSeq(wire, 1, n) \in Seq({Report, PathAudit, ExitFrame})
           /\ k + Len(SubSeq(wire, 1, n)) <= 3
           /\ \A i \in 1..Len(SubSeq(wire, 1, n)) : SubSeq(wire, 1, n)[i] = Answer[k + i]
<1> DEFINE S == {Report, PathAudit, ExitFrame}
<1>1. /\ wire \in Seq(S) /\ k + Len(wire) <= 3
      /\ \A i \in 1..Len(wire) : wire[i] = Answer[k + i]
  BY DEF Reading
<1> HIDE DEF S
<1>2. /\ SubSeq(wire, 1, n) \in Seq(S) /\ Len(SubSeq(wire, 1, n)) = n /\ n \in Nat /\ Len(wire) \in Nat /\ n <= Len(wire)
      /\ \A i \in 1..n : SubSeq(wire, 1, n)[i] = wire[i]
  BY <1>1
<1>3. \A i \in 1..n : i \in 1..Len(wire)
  BY <1>2
<1>4. k + n <= 3
  BY <1>1, <1>2
<1> QED
  BY <1>1, <1>2, <1>3, <1>4 DEF S

-----------------------------------------------------------------------------
(* The steps. *)

\* The answer depends on the machine and the request only.
LEMMA SameAnswer ==
    ASSUME host' = host, sent' = sent
    PROVE  Report' = Report /\ PathAudit' = PathAudit /\ ExitFrame' = ExitFrame /\ Answer' = Answer
           /\ PathVerdicts' = PathVerdicts
BY DEF Report, PathAudit, ExitFrame, Answer, PathVerdicts

\* So do the parts of the invariant that a step of the broker leaves alone.
LEMMA BrokerOnly ==
    ASSUME DoctorInv, UNCHANGED <<host, pc, sent, lines, complete, verdicts, exit>>, pc \notin {"tmp", "connect"},
           broker' \in {"idle", "asked", "reported", "audited", "closed"}, pc = "send" => broker' = "closed"
    PROVE  DoctorTypes' /\ Unasked' /\ Judgements'
<1>1. DoctorTypes'
  BY DEF DoctorInv, DoctorTypes
<1>2. Unasked'
  BY DEF DoctorInv, Unasked
<1>3. Judgements'
  BY SameAnswer DEF DoctorInv, Judgements
<1> QED
  BY <1>1, <1>2, <1>3

\* A broker that writes the next frame of its answer.
LEMMA Writes ==
    ASSUME DoctorInv, UNCHANGED <<host, pc, sent, lines, complete, verdicts, exit>>, host.admits,
           NEW n \in {0, 1, 2}, NEW f \in {Report, PathAudit, ExitFrame}, f = Answer[n + 1],
           broker = (CASE n = 0 -> "asked" [] n = 1 -> "reported" [] OTHER -> "audited"),
           broker' = (CASE n = 0 -> "reported" [] n = 1 -> "audited" [] OTHER -> "closed"),
           wire' = Append(wire, f)
    PROVE  DoctorInv'
<1>1. /\ broker \in {"asked", "reported", "audited"} /\ broker' \in {"reported", "audited", "closed"}
      /\ (broker = "asked" <=> n = 0) /\ (broker = "reported" <=> n = 1) /\ (broker = "audited" <=> n = 2)
      /\ (broker' = "reported" <=> n = 0) /\ (broker' = "audited" <=> n = 1)
  OBVIOUS
<1>2. pc \notin {"tmp", "connect", "send"}
  BY <1>1 DEF DoctorInv, Unasked
<1>3. DoctorTypes' /\ Unasked' /\ Judgements'
  BY <1>1, <1>2, BrokerOnly
<1>4. InAnswer'
  <2> SUFFICES ASSUME pc = "receive" PROVE host.admits /\ \E k \in 0..2 : Reading(k)'
    BY <1>2 DEF InAnswer
  <2>1. PICK k \in 0..2 : Reading(k)
    BY DEF DoctorInv, InAnswer
  <2>2. k + Len(wire) = n
    BY <1>1, <2>1 DEF Reading
  <2>3. f = Answer[k + Len(wire) + 1] /\ k + Len(wire) < 3
    BY <2>2
  <2>4. /\ Append(wire, f) \in Seq({Report, PathAudit, ExitFrame})
        /\ Len(Append(wire, f)) = Len(wire) + 1 /\ k + Len(Append(wire, f)) <= 3
        /\ \A i \in 1..Len(Append(wire, f)) : Append(wire, f)[i] = Answer[k + i]
    BY <2>1, <2>3, WriteOne
  <2>5. Len(wire) \in Nat
    BY <2>1 DEF Reading
  <2>6. k + Len(wire') = n + 1
    BY <2>2, <2>4, <2>5
  <2>7. /\ broker' \in {"idle", "asked"} => FALSE
        /\ broker' = "reported" => k + Len(wire') = 1
        /\ broker' = "audited" => k + Len(wire') = 2
    BY <1>1, <2>6
  <2>8. /\ Report' = Report /\ PathAudit' = PathAudit /\ ExitFrame' = ExitFrame /\ Answer' = Answer
        /\ PathVerdicts' = PathVerdicts
    BY SameAnswer
  <2>9. /\ wire' \in Seq({Report, PathAudit, ExitFrame}) /\ k + Len(wire') <= 3
        /\ \A i \in 1..Len(wire') : wire'[i] = Answer[k + i]
    BY <2>4
  <2>10. /\ lines' = (IF k = 0 THEN {} ELSE run_checks(host', sent'))
         /\ verdicts'.paths = (IF k = 2 THEN PathVerdicts ELSE {})
    BY <2>1 DEF Reading
  <2>11. Reading(k)'
    BY <2>7, <2>8, <2>9, <2>10 DEF Reading
  <2> QED
    BY <2>11
<1> QED
  BY <1>3, <1>4 DEF DoctorInv

\* The handler's steps: it takes the request, writes the three frames of its
\* answer one after the other, or the denial, and closes.
LEMMA HandlerStep ==
    ASSUME DoctorInv, Handler
    PROVE  DoctorInv'
<1>1. CASE DenyCaller
  <2>1. /\ UNCHANGED <<host, pc, sent, lines, complete, verdicts, exit>> /\ ~host.admits /\ broker' = "closed"
        /\ wire' = Append(wire, Denied) /\ pc \in {"send", "receive"} /\ broker \in {"idle", "asked"}
    BY <1>1 DEF DenyCaller, Denied
  <2>2. DoctorTypes' /\ Unasked' /\ Judgements'
    BY <2>1, BrokerOnly
  <2>3. wire = <<>> /\ lines = {} /\ verdicts.paths = {}
    BY <2>1 DEF DoctorInv, InAnswer
  <2>4. wire' = <<Denied>> /\ Denied' = Denied
    BY <2>1, <2>3 DEF Denied
  <2>5. InAnswer'
    BY <2>1, <2>3, <2>4 DEF InAnswer
  <2> QED
    BY <2>2, <2>5 DEF DoctorInv
<1>2. CASE SendReport
  <2>1. /\ UNCHANGED <<host, pc, sent, lines, complete, verdicts, exit>> /\ host.admits
        /\ broker = "asked" /\ broker' = "reported" /\ wire' = Append(wire, Report)
    BY <1>2 DEF SendReport, Report
  <2>2. Report = Answer[0 + 1]
    BY DEF Answer
  <2> QED
    BY <2>1, <2>2, Writes
<1>3. CASE SendAudit \/ SendExit
  <2>1. /\ UNCHANGED <<host, pc, sent, lines, complete, verdicts, exit>>
        /\ \/ broker = "reported" /\ broker' = "audited" /\ wire' = Append(wire, PathAudit)
           \/ broker = "audited" /\ broker' = "closed" /\ wire' = Append(wire, ExitFrame)
    BY <1>3 DEF SendAudit, SendExit, PathAudit, ExitFrame
  <2>2. PathAudit = Answer[1 + 1] /\ ExitFrame = Answer[2 + 1]
    BY DEF Answer
  <2>3. CASE host.admits
    BY <2>1, <2>2, <2>3, Writes
  <2>4. CASE ~host.admits
    <3>1. pc \notin {"tmp", "connect", "send", "receive"}
      BY <2>1, <2>4 DEF DoctorInv, Unasked, InAnswer
    <3>2. DoctorTypes' /\ Unasked' /\ Judgements'
      BY <2>1, <3>1, BrokerOnly
    <3>3. InAnswer'
      BY <2>1, <3>1 DEF InAnswer
    <3> QED
      BY <3>2, <3>3 DEF DoctorInv
  <2> QED
    BY <2>3, <2>4
<1> QED
  BY <1>1, <1>2, <1>3 DEF Handler

\* However much still arrives, it is a beginning of the answer.
LEMMA LoseStep ==
    ASSUME DoctorInv, LoseConnection
    PROVE  DoctorInv'
<1>1. /\ UNCHANGED <<host, pc, sent, lines, complete, verdicts, exit>> /\ broker' = "closed"
      /\ pc \in {"send", "receive"}
  BY DEF LoseConnection
<1>2. PICK n \in 0..Len(wire) : wire' = SubSeq(wire, 1, n)
  BY DEF LoseConnection
<1>3. DoctorTypes' /\ Unasked' /\ Judgements'
  BY <1>1, BrokerOnly
<1>4. InAnswer'
  <2>1. CASE ~host.admits
    <3>1. wire \in {<<>>, <<Denied>>} /\ lines = {} /\ verdicts.paths = {}
      BY <1>1, <2>1 DEF DoctorInv, InAnswer
    <3>2. wire' \in {<<>>, <<Denied>>}
      <4>1. CASE wire = <<>>
        BY <1>2, <4>1
      <4>2. CASE wire = <<Denied>>
        <5>1. n = 0 \/ n = 1
          BY <4>2
        <5>2. SubSeq(<<Denied>>, 1, 0) = <<>> /\ SubSeq(<<Denied>>, 1, 1) = <<Denied>>
          <6>1. <<Denied>> \in Seq({Denied}) /\ Len(<<Denied>>) = 1
            OBVIOUS
          <6>2. SubSeq(<<Denied>>, 1, Len(<<Denied>>)) = <<Denied>>
            BY <6>1, SubSeqFull
          <6>3. SubSeq(<<Denied>>, 1, 0) = <<>>
            BY <6>1, SubSeqEmpty
          <6> QED
            BY <6>1, <6>2, <6>3
        <5> QED
          BY <1>2, <4>2, <5>1, <5>2
      <4> QED
        BY <3>1, <4>1, <4>2
    <3>3. Denied' = Denied
      BY DEF Denied
    <3> QED
      BY <1>1, <2>1, <3>1, <3>2, <3>3 DEF InAnswer
  <2>2. CASE host.admits
    <3>1. PICK k \in 0..2 : Reading(k)
      BY <1>1, <2>2 DEF DoctorInv, InAnswer
    <3>2. /\ wire' \in Seq({Report, PathAudit, ExitFrame}) /\ k + Len(wire') <= 3
          /\ \A i \in 1..Len(wire') : wire'[i] = Answer[k + i]
      BY <1>2, <3>1, LoseSome
    <3>3. /\ Report' = Report /\ PathAudit' = PathAudit /\ ExitFrame' = ExitFrame /\ Answer' = Answer
          /\ PathVerdicts' = PathVerdicts
      BY <1>1, SameAnswer
    <3>4. /\ lines' = (IF k = 0 THEN {} ELSE run_checks(host', sent'))
          /\ verdicts'.paths = (IF k = 2 THEN PathVerdicts ELSE {})
      BY <1>1, <3>1 DEF Reading
    <3>5. Reading(k)'
      BY <1>1, <3>2, <3>3, <3>4 DEF Reading
    <3> QED
      BY <1>1, <2>2, <3>5 DEF InAnswer
  <2> QED
    BY <2>1, <2>2
<1> QED
  BY <1>3, <1>4 DEF DoctorInv

\* A check that is given up leaves the credentials an error.
LEMMA Unresolved ==
    ASSUME DoctorInv, pc \in {"send", "receive"}, pc' = "policy", verdicts' = credentials_unresolved,
           host' = host, sent' = sent, lines' = lines, complete' = complete, exit' = exit, broker' = broker
    PROVE  DoctorInv'
<1>1. verdicts \in [subsystem : [Subsystem -> Verdict], paths : SUBSET Verdict]
  BY DEF DoctorInv, DoctorTypes
<1>2. "credentials" \in Subsystem /\ "daemon" \in Subsystem /\ "Error" \in Verdict /\ "daemon" # "credentials"
  BY DEF Subsystem, Verdict
<1>3. /\ verdicts' \in [subsystem : [Subsystem -> Verdict], paths : SUBSET Verdict]
      /\ verdicts'.subsystem["credentials"] = "Error" /\ verdicts'.subsystem["daemon"] = verdicts.subsystem["daemon"]
  BY <1>1, <1>2 DEF credentials_unresolved, Judge
<1>4. complete = FALSE /\ exit = "running"
  BY DEF DoctorInv, DoctorTypes, Unasked, Judging
<1>5. DoctorTypes'
  BY <1>3 DEF DoctorInv, DoctorTypes
<1>6. Unasked'
  BY <1>3, <1>4 DEF DoctorInv, Unasked, Judging
<1>7. InAnswer' /\ Judgements'
  BY <1>3, <1>4 DEF InAnswer, Judgements, Judging
<1> QED
  BY <1>5, <1>6, <1>7 DEF DoctorInv

\* The client's steps up to the request.
LEMMA RequestStep ==
    ASSUME DoctorInv, StatOwnTmp \/ Connect \/ SendRequest
    PROVE  DoctorInv'
<1> USE DEF DoctorInv
<1>1. CASE StatOwnTmp
  <2>1. /\ pc = "tmp" /\ pc' = "connect" /\ sent' = host.callerTmp
        /\ UNCHANGED <<host, broker, wire, lines, complete, verdicts, exit>>
    BY <1>1 DEF StatOwnTmp
  <2>2. DoctorTypes'
    BY <2>1 DEF DoctorTypes
  <2>3. Unasked'
    BY <2>1 DEF Unasked, Judging
  <2>4. InAnswer' /\ Judgements'
    BY <2>1 DEF InAnswer, Judgements, Judging
  <2> QED
    BY <2>2, <2>3, <2>4
<1>2. CASE Connect /\ host.listening
  <2>1. /\ pc = "connect" /\ pc' = "send"
        /\ UNCHANGED <<host, sent, broker, wire, lines, complete, verdicts, exit>>
    BY <1>2 DEF Connect
  <2>2. broker = "idle" /\ wire = <<>> /\ lines = {} /\ verdicts.paths = {}
    BY <2>1 DEF Unasked
  <2>3. DoctorTypes'
    BY <2>1 DEF DoctorTypes
  <2>4. Unasked'
    BY <1>2, <2>1, <2>2 DEF Unasked, Judging
  <2>5. Reading(0)'
    BY <2>1, <2>2 DEF Reading
  <2>6. InAnswer'
    BY <2>1, <2>2, <2>5 DEF InAnswer
  <2>7. Judgements'
    BY <2>1 DEF Judgements, Judging
  <2> QED
    BY <2>3, <2>4, <2>6, <2>7
<1>3. CASE Connect /\ ~host.listening
  <2> DEFINE v == credentials_unresolved
  <2>1. /\ pc = "connect" /\ pc' = "policy" /\ verdicts' = [v EXCEPT !.subsystem["daemon"] = "Error"]
        /\ UNCHANGED <<host, sent, broker, wire, lines, complete, exit>>
    BY <1>3 DEF Connect
  <2>2. verdicts \in [subsystem : [Subsystem -> Verdict], paths : SUBSET Verdict]
    BY DEF DoctorTypes
  <2>3. /\ "credentials" \in Subsystem /\ "daemon" \in Subsystem /\ "Error" \in Verdict
    BY DEF Subsystem, Verdict
  <2>4. v \in [subsystem : [Subsystem -> Verdict], paths : SUBSET Verdict] /\ v.subsystem["credentials"] = "Error"
    BY <2>2, <2>3 DEF credentials_unresolved, Judge
  <2> HIDE DEF v
  <2>5. /\ verdicts' \in [subsystem : [Subsystem -> Verdict], paths : SUBSET Verdict]
        /\ verdicts'.subsystem["credentials"] = "Error"
    BY <2>1, <2>3, <2>4
  <2>6. complete = FALSE /\ exit = "running" /\ sent = host.callerTmp
    BY <2>1 DEF Unasked, Judging, DoctorTypes
  <2>7. DoctorTypes'
    BY <2>1, <2>5 DEF DoctorTypes
  <2>8. Unasked'
    BY <1>3, <2>1, <2>6 DEF Unasked, Judging
  <2>9. InAnswer' /\ Judgements'
    BY <2>1, <2>5, <2>6 DEF InAnswer, Judgements, Judging
  <2> QED
    BY <2>7, <2>8, <2>9
<1>4. CASE SendRequest /\ broker # "closed"
  <2>1. /\ pc = "send" /\ pc' = "receive" /\ broker' = "asked"
        /\ UNCHANGED <<host, sent, wire, lines, complete, verdicts, exit>>
    BY <1>4 DEF SendRequest
  <2>2. broker = "idle"
    BY <1>4, <2>1 DEF Unasked
  <2>3. DoctorTypes' /\ Unasked'
    BY <2>1 DEF DoctorTypes, Unasked, Judging
  <2>4. InAnswer'
    <3>1. CASE ~host.admits
      BY <2>1, <2>2, <3>1 DEF InAnswer, Denied
    <3>2. CASE host.admits
      <4>1. PICK k \in 0..2 : Reading(k)
        BY <2>1, <3>2 DEF InAnswer
      <4>2. Reading(k)'
        BY <2>1, <2>2, <4>1, SameAnswer DEF Reading
      <4> QED
        BY <2>1, <3>2, <4>2 DEF InAnswer
    <3> QED
      BY <3>1, <3>2
  <2>5. Judgements'
    BY <2>1 DEF Judgements, Judging
  <2> QED
    BY <2>3, <2>4, <2>5
<1>5. CASE SendRequest /\ broker = "closed"
  <2>1. /\ pc = "send" /\ pc' = "policy" /\ verdicts' = credentials_unresolved
        /\ UNCHANGED <<host, sent, broker, wire, lines, complete, exit>>
    BY <1>5 DEF SendRequest
  <2>2. pc \in {"send", "receive"}
    BY <2>1
  <2> QED
    BY <2>1, <2>2, Unresolved
<1> QED
  BY <1>1, <1>2, <1>3, <1>4, <1>5

\* The client reads a frame that is not the last: the next of the answer.
LEMMA ReceiveStep ==
    ASSUME DoctorInv, ReceiveReport \/ ReceiveAudit
    PROVE  DoctorInv'
<1>1. /\ pc = "receive" /\ wire # <<>> /\ wire' = Tail(wire)
      /\ UNCHANGED <<host, pc, sent, broker, complete, exit>>
      /\ \/ /\ Head(wire).type = "stdout" /\ lines' = lines \cup Head(wire).lines /\ verdicts' = verdicts
         \/ /\ Head(wire).type = "audit" /\ lines' = lines
            /\ verdicts' = [verdicts EXCEPT !.paths = classify_credential_audit(host, Head(wire).entries)]
  BY DEF ReceiveReport, ReceiveAudit, Receiving
<1>2. Head(wire) # Denied
  BY <1>1, FrameTypes
<1>3. host.admits
  BY <1>1, <1>2, NextFrame DEF DoctorInv
<1>4. PICK k \in 0..2 : Reading(k) /\ Head(wire) = Answer[k + 1]
  BY <1>1, <1>2, NextFrame DEF DoctorInv
<1>5. \/ k = 0 /\ Head(wire) = Report
      \/ k = 1 /\ Head(wire) = PathAudit
      \/ k = 2 /\ Head(wire) = ExitFrame
  BY <1>4, FrameTypes
<1>6. verdicts \in [subsystem : [Subsystem -> Verdict], paths : SUBSET Verdict]
  BY DEF DoctorInv, DoctorTypes
<1>7. \/ k = 0 /\ lines' = run_checks(host, sent) /\ verdicts' = verdicts /\ verdicts.paths = {}
      \/ /\ k = 1 /\ lines' = run_checks(host, sent) /\ verdicts'.paths = PathVerdicts
         /\ verdicts'.subsystem = verdicts.subsystem
         /\ verdicts' \in [subsystem : [Subsystem -> Verdict], paths : SUBSET Verdict]
  <2>1. CASE k = 0
    <3>1. lines = {} /\ verdicts.paths = {}
      BY <1>4, <2>1 DEF Reading
    <3> QED
      BY <1>1, <1>5, <2>1, <3>1, FrameTypes
  <2>2. CASE k = 1
    <3>1. lines = run_checks(host, sent)
      BY <1>4, <2>2 DEF Reading
    <3>2. verdicts' = [verdicts EXCEPT !.paths = PathVerdicts] /\ lines' = lines
      BY <1>1, <1>5, <2>2, FrameTypes DEF PathVerdicts
    <3>3. PathVerdicts \in SUBSET Verdict
      BY Verdicts DEF PathVerdicts
    <3> QED
      BY <1>6, <2>2, <3>1, <3>2, <3>3
  <2>3. k # 2
    BY <1>1, <1>5, FrameTypes
  <2> QED
    BY <2>1, <2>2, <2>3
<1>8. DoctorTypes' /\ Unasked'
  BY <1>1, <1>6, <1>7 DEF DoctorInv, DoctorTypes, Unasked
<1>9. Judgements'
  BY <1>1 DEF Judgements, Judging
<1>10. InAnswer'
  <2> DEFINE j == k + 1
  <2>1. /\ wire' \in Seq({Report, PathAudit, ExitFrame}) /\ j + Len(wire') = k + Len(wire)
        /\ \A i \in 1..Len(wire') : wire'[i] = Answer[j + i]
    BY <1>1, <1>4, ReadOne
  <2>2. /\ k + Len(wire) <= 3 /\ (broker \in {"idle", "asked"} => k + Len(wire) = 0)
        /\ (broker = "reported" => k + Len(wire) = 1) /\ (broker = "audited" => k + Len(wire) = 2)
    BY <1>4 DEF Reading
  <2>3. /\ Report' = Report /\ PathAudit' = PathAudit /\ ExitFrame' = ExitFrame /\ Answer' = Answer
        /\ PathVerdicts' = PathVerdicts
    BY <1>1, SameAnswer
  <2>4. j \in 1..2 /\ j \in 0..2 /\ j # 0 /\ (j = 2 <=> k = 1)
    BY <1>7
  <2>5. /\ lines' = (IF j = 0 THEN {} ELSE run_checks(host', sent'))
        /\ verdicts'.paths = (IF j = 2 THEN PathVerdicts ELSE {})
    BY <1>1, <1>7, <2>4
  <2> HIDE DEF j
  <2>6. Reading(j)'
    BY <1>1, <2>1, <2>2, <2>3, <2>5 DEF Reading
  <2> QED
    BY <1>1, <1>3, <2>4, <2>6 DEF InAnswer
<1> QED
  BY <1>8, <1>9, <1>10 DEF DoctorInv

\* The last frame: the whole answer has been read, and is judged.
LEMMA ReceiveExitStep ==
    ASSUME DoctorInv, ReceiveExit
    PROVE  DoctorInv'
<1> DEFINE passed == credentials_passed(Head(wire).code, lines \ SharedLines(lines), verdicts.paths)
           creds == IF passed THEN "Ok" ELSE "Error"
           shared == shared_filesystem_verdict(lines, sent)
<1>1. /\ pc = "receive" /\ wire # <<>> /\ Head(wire).type = "exit" /\ pc' = "policy" /\ complete' = TRUE
      /\ UNCHANGED <<host, sent, broker, lines, exit>>
      /\ verdicts' = [verdicts EXCEPT !.subsystem["credentials"] = creds, !.subsystem["shared"] = shared]
  BY DEF ReceiveExit, Receiving
<1>2. Head(wire) # Denied
  BY <1>1, FrameTypes
<1>3. PICK k \in 0..2 : Reading(k) /\ Head(wire) = Answer[k + 1]
  BY <1>1, <1>2, NextFrame DEF DoctorInv
<1>4. k = 2 /\ Head(wire) = ExitFrame
  BY <1>1, <1>3, FrameTypes
<1>5. lines = run_checks(host, sent) /\ verdicts.paths = PathVerdicts
  BY <1>3, <1>4 DEF Reading
<1>6. creds = IF credentials_passed(ExitFrame.code, lines \ SharedLines(lines), PathVerdicts) THEN "Ok" ELSE "Error"
  BY <1>4, <1>5
<1>7. creds \in Verdict /\ shared \in Verdict
  BY Verdicts DEF Verdict
<1>8. verdicts \in [subsystem : [Subsystem -> Verdict], paths : SUBSET Verdict]
  BY DEF DoctorInv, DoctorTypes
<1>9. "credentials" \in Subsystem /\ "shared" \in Subsystem /\ "daemon" \in Subsystem
  BY DEF Subsystem
<1> HIDE DEF creds, shared, passed
<1>10. /\ verdicts' \in [subsystem : [Subsystem -> Verdict], paths : SUBSET Verdict]
       /\ verdicts'.paths = verdicts.paths
       /\ verdicts'.subsystem["credentials"] = creds /\ verdicts'.subsystem["shared"] = shared
       /\ verdicts'.subsystem["daemon"] = verdicts.subsystem["daemon"]
  BY <1>1, <1>7, <1>8, <1>9
<1>11. DoctorTypes'
  BY <1>1, <1>10 DEF DoctorInv, DoctorTypes
<1>12. Unasked'
  BY <1>1, <1>10 DEF DoctorInv, Unasked, Judging
<1>13. InAnswer'
  BY <1>1 DEF InAnswer
<1>14. Judgements'
  <2>1. /\ ExitFrame' = ExitFrame /\ PathVerdicts' = PathVerdicts
    BY <1>1, SameAnswer
  <2> QED
    BY <1>1, <1>5, <1>6, <1>10, <2>1 DEF Judgements, Judging, shared
<1> QED
  BY <1>11, <1>12, <1>13, <1>14 DEF DoctorInv

\* The steps after the answer: each sets its own verdicts and no other.
LEMMA JudgeStep ==
    ASSUME DoctorInv, CheckPolicy \/ CheckPermissions \/ Aggregate
    PROVE  DoctorInv'
<1> USE DEF DoctorInv
<1>1. verdicts \in [subsystem : [Subsystem -> Verdict], paths : SUBSET Verdict]
  BY DEF DoctorTypes
<1>2. \A s \in {"daemon", "credentials", "shared", "policy", "policy permissions", "config dir", "socket"} : s \in Subsystem
  BY DEF Subsystem
<1>3. /\ host' = host /\ sent' = sent /\ lines' = lines /\ complete' = complete /\ broker' = broker /\ wire' = wire
      /\ pc \in Judging /\ pc' \in Judging
  BY DEF CheckPolicy, CheckPermissions, Aggregate, Judging
<1>4. Report' = Report /\ ExitFrame' = ExitFrame /\ PathVerdicts' = PathVerdicts
  BY <1>3, SameAnswer
<1>5. InAnswer'
  BY <1>3 DEF InAnswer, Judging
<1>6. CASE CheckPolicy
  <2>1. /\ pc = "policy" /\ pc' = "permissions" /\ exit' = exit
        /\ verdicts' = [verdicts EXCEPT !.subsystem["policy"] = check_policy(host)]
    BY <1>6 DEF CheckPolicy, Judge
  <2>2. /\ verdicts' \in [subsystem : [Subsystem -> Verdict], paths : SUBSET Verdict]
        /\ verdicts'.paths = verdicts.paths /\ verdicts'.subsystem["policy"] = check_policy(host)
        /\ verdicts'.subsystem["credentials"] = verdicts.subsystem["credentials"]
        /\ verdicts'.subsystem["shared"] = verdicts.subsystem["shared"]
        /\ verdicts'.subsystem["daemon"] = verdicts.subsystem["daemon"]
    BY <1>1, <1>2, <2>1, Verdicts
  <2>3. DoctorTypes' /\ Unasked'
    BY <1>3, <2>1, <2>2 DEF DoctorTypes, Unasked, Judging
  <2>4. Judgements'
    BY <1>3, <1>4, <2>1, <2>2 DEF Judgements, Judging
  <2> QED
    BY <1>5, <2>3, <2>4
<1>7. CASE CheckPermissions
  <2>1. /\ pc = "permissions" /\ pc' = "aggregate" /\ exit' = exit
        /\ verdicts' = [verdicts EXCEPT
                !.subsystem["policy permissions"] = check_policy_permissions(host),
                !.subsystem["config dir"] = check_config_dir_permissions(host),
                !.subsystem["socket"] = check_socket_permissions(host)]
    BY <1>7 DEF CheckPermissions
  <2>2. /\ verdicts' \in [subsystem : [Subsystem -> Verdict], paths : SUBSET Verdict]
        /\ verdicts'.paths = verdicts.paths /\ verdicts'.subsystem["policy"] = verdicts.subsystem["policy"]
        /\ verdicts'.subsystem["credentials"] = verdicts.subsystem["credentials"]
        /\ verdicts'.subsystem["shared"] = verdicts.subsystem["shared"]
        /\ verdicts'.subsystem["daemon"] = verdicts.subsystem["daemon"]
        /\ verdicts'.subsystem["policy permissions"] = check_policy_permissions(host)
        /\ verdicts'.subsystem["config dir"] = check_config_dir_permissions(host)
        /\ verdicts'.subsystem["socket"] = check_socket_permissions(host)
    BY <1>1, <1>2, <2>1, Verdicts
  <2>3. DoctorTypes' /\ Unasked'
    BY <1>3, <2>1, <2>2 DEF DoctorTypes, Unasked, Judging
  <2>4. Judgements'
    BY <1>3, <1>4, <2>1, <2>2 DEF Judgements, Judging
  <2> QED
    BY <1>5, <2>3, <2>4
<1>8. CASE Aggregate
  <2>1. pc = "aggregate" /\ pc' = "done" /\ exit' = aggregate_exit(verdicts) /\ verdicts' = verdicts
    BY <1>8 DEF Aggregate
  <2>2. aggregate_exit(verdicts) \in {"0", "1"}
    BY DEF aggregate_exit
  <2>3. DoctorTypes' /\ Unasked'
    BY <1>3, <2>1, <2>2 DEF DoctorTypes, Unasked, Judging
  <2>4. Judgements'
    BY <1>3, <1>4, <2>1 DEF Judgements, Judging
  <2> QED
    BY <1>5, <2>3, <2>4
<1> QED
  BY <1>6, <1>7, <1>8

\* The invariant is inductive.
LEMMA DoctorStep == DoctorInv /\ [Next]_vars => DoctorInv'
<1> SUFFICES ASSUME DoctorInv, [Next]_vars PROVE DoctorInv'
  OBVIOUS
<1>1. CASE StatOwnTmp \/ Connect \/ SendRequest
  BY <1>1, RequestStep
<1>2. CASE ReceiveReport \/ ReceiveAudit
  BY <1>2, ReceiveStep
<1>3. CASE ReceiveExit
  BY <1>3, ReceiveExitStep
<1>4. CASE ReceiveDenied \/ ReceiveError
  <2>1. /\ pc \in {"send", "receive"} /\ pc' = "policy" /\ verdicts' = credentials_unresolved
        /\ UNCHANGED <<host, sent, lines, complete, exit, broker>>
    BY <1>4 DEF ReceiveDenied, ReceiveError, Receiving
  <2> QED
    BY <2>1, Unresolved
<1>5. CASE CheckPolicy \/ CheckPermissions \/ Aggregate
  BY <1>5, JudgeStep
<1>6. CASE Handler
  BY <1>6, HandlerStep
<1>7. CASE LoseConnection
  BY <1>7, LoseStep
<1>8. CASE UNCHANGED vars
  <2>1. UNCHANGED <<host, pc, sent, broker, wire, lines, complete, verdicts, exit>>
    BY <1>8 DEF vars
  <2>2. /\ Report' = Report /\ PathAudit' = PathAudit /\ ExitFrame' = ExitFrame /\ Answer' = Answer
        /\ PathVerdicts' = PathVerdicts /\ Denied' = Denied
    BY <2>1, SameAnswer DEF Denied
  <2>3. DoctorTypes' /\ Unasked'
    BY <2>1 DEF DoctorInv, DoctorTypes, Unasked
  <2>4. InAnswer'
    BY <2>1, <2>2 DEF DoctorInv, InAnswer, Reading
  <2>5. Judgements'
    BY <2>1, <2>2 DEF DoctorInv, Judgements
  <2> QED
    BY <2>3, <2>4, <2>5 DEF DoctorInv
<1> QED
  BY <1>1, <1>2, <1>3, <1>4, <1>5, <1>6, <1>7, <1>8 DEF Next, Client

\* At every moment of a run the client has read a beginning of the broker's
\* answer, and what it has judged it has judged of the whole of it.
THEOREM DoctorInvariant == Spec => []DoctorInv
BY DoctorStart, DoctorStep, PTL DEF Spec

-----------------------------------------------------------------------------
(* What the verdicts are worth.                                            *)

\* The lines of a broker whose user name is refused, and of any other.
LEMMA LinesOf ==
    /\ ~host.userNameOk => StatusLine("ghbrk check", "invalid") \in run_checks(host, sent)
    /\ host.userNameOk => {check_file("SSH key", host.key), check_file("Token", host.token)} \subseteq run_checks(host, sent)
    /\ \A line \in run_checks(host, sent) \ SharedLines(run_checks(host, sent)) :
          \/ ~host.userNameOk
          \/ line \in {check_file("SSH key", host.key), check_file("Token", host.token), check_github_api(host)}
    /\ \A line \in SharedLines(run_checks(host, sent)) :
          sent # NoTmp /\ ~host.oldDaemon /\ line = check_shared_filesystem(host, sent)
<1>1. /\ check_file("SSH key", host.key).label = "SSH key" /\ check_file("Token", host.token).label = "Token"
      /\ check_github_api(host).label = "GitHub API" /\ StatusLine("ghbrk check", "invalid").label = "ghbrk check"
      /\ check_shared_filesystem(host, sent).label = "Shared filesystem"
  BY DEF check_file, check_github_api, check_shared_filesystem, StatusLine
<1>2. run_checks(host, sent) =
        (IF sent # NoTmp /\ ~host.oldDaemon THEN {check_shared_filesystem(host, sent)} ELSE {})
        \cup (IF ~host.userNameOk THEN {StatusLine("ghbrk check", "invalid")}
              ELSE {check_file("SSH key", host.key), check_file("Token", host.token), check_github_api(host)})
  BY DEF run_checks
<1> QED
  BY <1>1, <1>2 DEF SharedLines

\* The line of a file passes exactly when the file is there with its mode.
LEMMA FilePasses ==
    ASSUME NEW label, NEW path \in PathState
    PROVE  status_line_passes(check_file(label, path)) <=> (path.stat = "ok" /\ path.mode = Mode600)
<1>1. path.stat \in {"ok", "missing", "error"}
  BY DEF PathState
<1>2. CASE path.stat \in {"missing", "error"}
  <2>1. CASE path.stat = "missing"
    <3>1. check_file(label, path).verdict = "MISSING"
      BY <2>1 DEF check_file, StatusLine
    <3> QED
      BY <2>1, <3>1 DEF status_line_passes
  <2>2. CASE path.stat = "error"
    <3>1. check_file(label, path).verdict = "ERROR"
      BY <2>2 DEF check_file, StatusLine
    <3> QED
      BY <2>2, <3>1 DEF status_line_passes
  <2> QED
    BY <1>2, <2>1, <2>2
<1>3. CASE path.stat = "ok" /\ path.mode = Mode600
  <2>1. check_file(label, path).verdict = "OK"
    BY <1>3 DEF check_file, StatusLine
  <2> QED
    BY <1>3, <2>1 DEF status_line_passes
<1>4. CASE path.stat = "ok" /\ path.mode # Mode600
  <2>1. check_file(label, path).verdict = "BAD PERMISSIONS"
    BY <1>4 DEF check_file, StatusLine
  <2> QED
    BY <1>4, <2>1 DEF status_line_passes
<1> QED
  BY <1>1, <1>2, <1>3, <1>4

\* A run that passes the credentials has found the caller's name, key and token
\* in order: whether the exit code or the lines decided.
LEMMA PassIsLoadable ==
    ASSUME host \in Hosts, NEW paths,
           credentials_passed(ExitFrame.code, run_checks(host, sent) \ SharedLines(run_checks(host, sent)), paths)
    PROVE  host.tokenReadable => load_credentials(host)
<1> DEFINE ls == run_checks(host, sent)
           own == ls \ SharedLines(ls)
<1>1. \A line \in own : status_line_passes(line)
  <2>1. CASE ExitFrame.code = 0
    <3>1. AllOk(ls)
      BY <2>1 DEF ExitFrame
    <3> QED
      BY <3>1 DEF AllOk, status_line_passes
  <2>2. CASE ExitFrame.code # 0
    BY <2>2 DEF credentials_passed
  <2> QED
    BY <2>1, <2>2
<1>2. host.userNameOk
  <2>1. StatusLine("ghbrk check", "invalid") \notin SharedLines(ls) /\ ~status_line_passes(StatusLine("ghbrk check", "invalid"))
    BY DEF SharedLines, StatusLine, status_line_passes
  <2>2. host.userNameOk \in BOOLEAN
    BY HostAssumption
  <2> QED
    BY <1>1, <2>1, <2>2, LinesOf
<1>3. /\ check_file("SSH key", host.key) \in own /\ check_file("Token", host.token) \in own
  <2>1. /\ check_file("SSH key", host.key).label # "Shared filesystem"
        /\ check_file("Token", host.token).label # "Shared filesystem"
    BY DEF check_file, StatusLine
  <2> QED
    BY <1>2, <2>1, LinesOf DEF SharedLines
<1>4. host.key \in PathState /\ host.token \in PathState
  BY HostAssumption
<1>5. /\ host.key.stat = "ok" /\ host.key.mode = Mode600
      /\ host.token.stat = "ok" /\ host.token.mode = Mode600
  BY <1>1, <1>3, <1>4, FilePasses
<1> QED
  BY <1>2, <1>5 DEF load_credentials, verify_ssh_key, read_token

\* A clean bill of `ghbrk doctor` is true and complete: the exit status is 0 only
\* after the broker's whole answer, with a daemon that listens, credentials that
\* a brokered request can load (a token that is not text aside, which the checks
\* skip), and a policy that parses when it can be read.
THEOREM CleanBillIsTrue == Spec => []CleanBillTrue
<1>1. DoctorInv => CleanBillTrue
  <2> SUFFICES ASSUME DoctorInv, exit = "0"
               PROVE  /\ complete /\ host.listening
                      /\ host.tokenReadable => load_credentials(host)
                      /\ host.policyOpens = "yes" => host.policyParses
    BY DEF CleanBillTrue
  <2>1. pc = "done" /\ exit = aggregate_exit(verdicts) /\ host \in Hosts /\ pc \in Judging
    BY DEF DoctorInv, DoctorTypes, Unasked, Judgements, Judging
  <2>2. \A s \in Subsystem : verdicts.subsystem[s] # "Error"
    BY <2>1 DEF aggregate_exit
  <2>3. verdicts.subsystem["credentials"] # "Error" /\ verdicts.subsystem["policy"] # "Error"
    BY <2>2 DEF Subsystem
  <2>4. complete
    BY <2>1, <2>3 DEF DoctorInv, Judgements
  <2>5. host.listening
    BY <2>4 DEF DoctorInv, Unasked
  <2>6. credentials_passed(ExitFrame.code, run_checks(host, sent) \ SharedLines(run_checks(host, sent)), PathVerdicts)
    BY <2>1, <2>3, <2>4 DEF DoctorInv, Judgements
  <2>7. host.tokenReadable => load_credentials(host)
    BY <2>1, <2>6, PassIsLoadable
  <2>8. host.policyOpens = "yes" => host.policyParses
    <3>1. check_policy(host) # "Error"
      BY <2>1, <2>3 DEF DoctorInv, Judgements
    <3> QED
      BY <3>1 DEF check_policy
  <2> QED
    BY <2>4, <2>5, <2>7, <2>8
<1> QED
  BY <1>1, DoctorInvariant, PTL

\* A check that fails the credentials has found a fault of theirs.
LEMMA FailIsFault ==
    ASSUME host \in Hosts,
           ~credentials_passed(ExitFrame.code, run_checks(host, sent) \ SharedLines(run_checks(host, sent)), PathVerdicts)
    PROVE  CredentialFault
<1> DEFINE ls == run_checks(host, sent)
<1>1. CASE "Error" \in PathVerdicts
  BY <1>1 DEF CredentialFault, PathVerdicts
<1>2. CASE "Error" \notin PathVerdicts
  <2>1. PICK line \in ls \ SharedLines(ls) : ~status_line_passes(line)
    BY <1>2 DEF credentials_passed
  <2>2. CASE ~host.userNameOk
    BY <2>2 DEF CredentialFault
  <2>3. CASE line = check_github_api(host)
    BY <2>1, <2>3 DEF check_github_api, StatusLine, status_line_passes, CredentialFault
  <2>4. CASE line \in {check_file("SSH key", host.key), check_file("Token", host.token)}
    <3>1. host.key \in PathState /\ host.token \in PathState
      BY HostAssumption
    <3>2. ~(host.key.stat = "ok" /\ host.key.mode = Mode600) \/ ~(host.token.stat = "ok" /\ host.token.mode = Mode600)
      BY <2>1, <2>4, <3>1, FilePasses
    <3> QED
      BY <3>2 DEF CredentialFault, load_credentials, verify_ssh_key, read_token
  <2> QED
    BY <2>1, <2>2, <2>3, <2>4, LinesOf
<1> QED
  BY <1>1, <1>2

\* A check that fails the file system has found two /tmp directories.
LEMMA SharedErrorIsFault ==
    ASSUME sent = host.callerTmp, shared_filesystem_verdict(run_checks(host, sent), sent) = "Error"
    PROVE  TmpFault
<1> DEFINE ls == run_checks(host, sent)
<1>1. PICK line \in SharedLines(ls) : ~status_line_passes(line)
  BY DEF shared_filesystem_verdict
<1>2. sent # NoTmp /\ ~host.oldDaemon /\ line = check_shared_filesystem(host, sent)
  BY <1>1, LinesOf
<1>3. ~(host.brokerTmp # NoTmp /\ host.brokerTmp = sent)
  BY <1>1, <1>2 DEF check_shared_filesystem, StatusLine, status_line_passes
<1> QED
  BY <1>2, <1>3 DEF TmpFault

\* A finished check blames the credentials only for a fault of theirs, the file
\* system only for two different /tmp, and fails for nothing that is not an error.
THEOREM BlameIsRight == Spec => []RightSubsystemBlamed
<1>1. DoctorInv => RightSubsystemBlamed
  <2> SUFFICES ASSUME DoctorInv, complete
               PROVE  /\ verdicts.subsystem["credentials"] = "Error" => CredentialFault
                      /\ verdicts.subsystem["shared"] = "Error" => TmpFault
                      /\ exit = "1" =>
                           \/ CredentialFault \/ TmpFault \/ check_policy(host) = "Error"
                           \/ "Error" \in {check_policy_permissions(host), check_config_dir_permissions(host),
                                           check_socket_permissions(host)}
    BY DEF RightSubsystemBlamed
  <2>1. host \in Hosts /\ pc \in Judging /\ sent = host.callerTmp /\ verdicts.subsystem["daemon"] = "Ok"
    BY DEF DoctorInv, DoctorTypes, Unasked, Judging
  <2>2. verdicts.subsystem["credentials"] = "Error" => CredentialFault
    <3>1. verdicts.subsystem["credentials"] =
            IF credentials_passed(ExitFrame.code, run_checks(host, sent) \ SharedLines(run_checks(host, sent)), PathVerdicts)
            THEN "Ok" ELSE "Error"
      BY <2>1 DEF DoctorInv, Judgements
    <3> QED
      BY <2>1, <3>1, FailIsFault
  <2>3. verdicts.subsystem["shared"] = "Error" => TmpFault
    <3>1. verdicts.subsystem["shared"] = shared_filesystem_verdict(run_checks(host, sent), sent)
      BY <2>1 DEF DoctorInv, Judgements
    <3> QED
      BY <2>1, <3>1, SharedErrorIsFault
  <2>4. ASSUME exit = "1"
        PROVE  \/ CredentialFault \/ TmpFault \/ check_policy(host) = "Error"
               \/ "Error" \in {check_policy_permissions(host), check_config_dir_permissions(host),
                               check_socket_permissions(host)}
    <3>1. pc = "done" /\ exit = aggregate_exit(verdicts)
      BY <2>4 DEF DoctorInv, Unasked, Judgements
    <3>2. CASE "Error" \in verdicts.paths
      <4>1. "Error" \in PathVerdicts
        BY <2>1, <3>2 DEF DoctorInv, Judgements
      <4> QED
        BY <4>1 DEF CredentialFault, PathVerdicts
    <3>3. CASE "Error" \notin verdicts.paths
      <4>1. PICK s \in Subsystem : verdicts.subsystem[s] = "Error"
        BY <2>4, <3>1, <3>3 DEF aggregate_exit
      <4>2. /\ verdicts.subsystem["policy"] = check_policy(host)
            /\ verdicts.subsystem["policy permissions"] = check_policy_permissions(host)
            /\ verdicts.subsystem["config dir"] = check_config_dir_permissions(host)
            /\ verdicts.subsystem["socket"] = check_socket_permissions(host)
        BY <3>1 DEF DoctorInv, Judgements
      <4> QED
        BY <2>1, <2>2, <2>3, <4>1, <4>2 DEF Subsystem
    <3> QED
      BY <3>2, <3>3
  <2> QED
    BY <2>2, <2>3, <2>4
<1> QED
  BY <1>1, DoctorInvariant, PTL
=============================================================================
