------------------------------- MODULE Broker -------------------------------
(***************************************************************************)
(* The ghbrk daemon: start-up (src/cmd/daemon.rs), the accept loop, one    *)
(* task per connection, the privileged `allow` handler and shutdown        *)
(* (src/broker.rs), with the audit log it writes (src/audit.rs).           *)
(*                                                                         *)
(* Every connection is a process with its own program counter.  What the   *)
(* tasks share is the swappable policy handle, the policy file, the audit  *)
(* logger and the socket; one action touches one of them once, so every    *)
(* interleaving the multi-threaded runtime and its blocking pool can       *)
(* produce is a behaviour.  Memory (handle, snapshots, tasks, the          *)
(* BufWriter of the logger) dies with the process; the policy file, the    *)
(* audit file and the socket's directory entry do not.                     *)
(***************************************************************************)
EXTENDS AllowOperands, FiniteSets, Functions

CONSTANTS
    Conn,           \* connections; each is used once
    Peer,           \* what SO_PEERCRED and the password database say of a client
    Requests,       \* the wire requests clients send
    InitialPolicy,  \* the policy file the operator installed
    Edits,          \* what the operator may later replace it with, by hand
    NoDoc,          \* no document held
    MaxStarts,      \* bound: how often the daemon is started
    MaxFaults,      \* bound: how often it dies, or start or shutdown meet a system error
    MaxAuditErrors  \* bound: how many writes or flushes of the audit log fail

-----------------------------------------------------------------------------
(* Wire requests.  `form` is what the classifiers of the broker and the    *)
(* resolver make of the arguments, `target` what they resolve to, `grant`  *)
(* the operands of an `allow`.                                             *)

Tool == {"git", "gh", "check", "explain", "policy", "allow"}

Form == {"local", "passthrough", "unresolved", "resolved", "malformed", "wellformed"}

Target ==
    [org : Org, repo : Repo, operation : Operation, branch : Branch \cup {NoBranch}]

\* A word on the command line of `ghbrk allow`: an operation, a role or neither.
Word == Operation \cup RoleName \cup {"frobnicate"}

Grant == [user : User, org : Org, repo : Repo, operands : Seq(Word)]

WireRequest == [tool : Tool, form : Form, target : Target, grant : Grant]

PeerIdentity == [known : BOOLEAN, user : User, uid : Nat]

ASSUME BrokerAssumption ==
    /\ Peer \subseteq PeerIdentity
    /\ Requests \subseteq WireRequest
    /\ InitialPolicy \in Document /\ validate(InitialPolicy)
    /\ Edits \subseteq Document
    /\ NoDoc \notin Document
    /\ MaxStarts \in Nat /\ MaxFaults \in Nat /\ MaxAuditErrors \in Nat

Origins == {InitialPolicy} \cup Edits

-----------------------------------------------------------------------------
VARIABLES
    daemon,      \* "down", "serving", "stopping" (loop left), "draining" (runtime dropped)
    sock,        \* the socket path: "absent", "listening" or "stale"
    handle,      \* the ArcSwap<Policy> all tasks share
    disk,        \* the policy file
    logFile,     \* records in the audit file
    logBuf,      \* records left in the logger's BufWriter by a failed flush
    pc,          \* where each connection's task stands
    peer, req,   \* who connected, and what it sends
    snap,        \* the policy taken when the connection was accepted
    doc,         \* the document an `allow` installs and then publishes
    pending,     \* the audit decision being written
    after,       \* where the task goes once the record is written
    frames,      \* the response frames still to be written
    out,         \* the response frames the client received
    starts, faults, auditErrors,  \* consumed bounds
    spawned,     \* history: connections whose child was started
    wrote,       \* history: connections whose rename replaced the policy file
    published,   \* history: connections whose document was stored in the handle
    raced        \* history: a policy write was based on, or published over, a superseded file

daemonVars == <<daemon, sock, starts, faults>>
auditVars  == <<logFile, logBuf, auditErrors>>
policyVars == <<handle, disk, wrote, published, raced>>
taskVars   == <<peer, req, snap, doc, pending, after, frames, out, spawned>>
vars       == <<daemonVars, auditVars, policyVars, pc, taskVars>>

PC == {"idle", "backlog", "accepted", "routing", "auditing", "creds", "spawn",
       "child", "pass_creds", "append_read", "append_rename", "store", "reply", "done"}

Frame == {"Denied", "Stdout", "CredentialAudit", "Exit"}

AuditDecision == {"none", "allow", "deny", "passthrough"}

Record == [conn : Conn, decision : AuditDecision]

-----------------------------------------------------------------------------
(* Operators on a connection's request. *)

\* What the policy engine is asked about connection c.
PolicyRequest(c) ==
    [user |-> peer[c].user, org |-> req[c].target.org, repo |-> req[c].target.repo,
     operation |-> req[c].target.operation, branch |-> req[c].target.branch]

\* The rule an accepted `allow` appends: every branch, effect allow.
GrantRule(c) ==
    [user |-> req[c].grant.user, org |-> req[c].grant.org, repo |-> req[c].grant.repo,
     operations |-> parse_operations_spec(req[c].grant.operands),
     branches |-> {Wildcard}, effect |-> "allow"]

validate_grant(spec, policy) == SpecKnown(policy, spec)

\* The operands are refused before anything is touched.
GrantRefused(c) ==
    \/ req[c].form = "malformed"
    \/ ~OperandsParse(req[c].grant.operands)
    \/ ~validate_grant(parse_operations_spec(req[c].grant.operands), handle)

-----------------------------------------------------------------------------
(* Steps of a task. *)

Goto(c, l) == pc' = [pc EXCEPT ![c] = l]

\* Hand `fs` to the connection; Reply writes them.
Respond(c, fs) ==
    /\ frames' = [frames EXCEPT ![c] = fs]
    /\ Goto(c, "reply")

\* Call write_audit; continue at `l`, which sends `fs` if it is "reply".
Audit(c, decision, l, fs) ==
    /\ pending' = [pending EXCEPT ![c] = decision]
    /\ after' = [after EXCEPT ![c] = l]
    /\ frames' = [frames EXCEPT ![c] = fs]
    /\ Goto(c, "auditing")

AuditDeny(c) == Audit(c, "deny", "reply", <<"Denied">>)

Running == daemon # "down"

-----------------------------------------------------------------------------
(* Daemon life cycle. *)

Init ==
    /\ daemon = "down" /\ sock = "absent"
    /\ handle = InitialPolicy /\ disk = InitialPolicy
    /\ logFile = <<>> /\ logBuf = <<>>
    /\ pc = [c \in Conn |-> "idle"]
    /\ peer \in [Conn -> Peer] /\ req \in [Conn -> Requests]
    /\ snap = [c \in Conn |-> NoDoc] /\ doc = [c \in Conn |-> NoDoc]
    /\ pending = [c \in Conn |-> "none"] /\ after = [c \in Conn |-> "done"]
    /\ frames = [c \in Conn |-> <<>>] /\ out = [c \in Conn |-> <<>>]
    /\ starts = 0 /\ faults = 0 /\ auditErrors = 0
    /\ spawned = {} /\ wrote = {} /\ published = {} /\ raced = FALSE

\* Seeded fault: the audit log is opened without O_APPEND and truncated.
Start_TruncatesLog ==
    /\ daemon = "down" /\ starts < MaxStarts
    /\ validate(disk)
    /\ sock = "absent"
    /\ daemon' = "serving" /\ sock' = "listening"
    /\ handle' = disk
    /\ starts' = starts + 1
    /\ logFile' = <<>>
    /\ UNCHANGED <<faults, logBuf, auditErrors, disk, wrote, published, raced, pc, taskVars>>

\* run_inner and bind_listener: load the policy, open the log for append, bind.
\* Any existing socket path, stale or not, makes the bind fail (exit 1); a file
\* that does not load makes the daemon exit with 2.  Neither leaves a trace.
Start ==
    /\ daemon = "down" /\ starts < MaxStarts
    /\ validate(disk)
    /\ sock = "absent"
    /\ daemon' = "serving" /\ sock' = "listening"
    /\ handle' = disk
    /\ starts' = starts + 1
    /\ UNCHANGED <<faults, auditVars, disk, wrote, published, raced, pc, taskVars>>

StartFails ==
    /\ daemon = "down" /\ starts < MaxStarts
    /\ ~validate(disk) \/ sock # "absent"
    /\ starts' = starts + 1
    /\ UNCHANGED <<daemon, sock, faults, auditVars, policyVars, pc, taskVars>>

\* Something else is missing: the audit log or the runtime, before the socket is
\* bound, or its mode or a signal handler, after.  Then the path stays behind.
StartAborts ==
    /\ daemon = "down" /\ starts < MaxStarts /\ faults < MaxFaults
    /\ validate(disk)
    /\ sock = "absent" /\ sock' \in {"absent", "stale"}
    /\ starts' = starts + 1 /\ faults' = faults + 1
    /\ UNCHANGED <<daemon, auditVars, policyVars, pc, taskVars>>

\* SIGTERM or SIGINT: the biased select leaves the accept loop.
Sigterm ==
    /\ daemon = "serving"
    /\ daemon' = "stopping"
    /\ UNCHANGED <<sock, starts, faults, auditVars, policyVars, pc, taskVars>>

\* Seeded fault: the buffer is nested into the file instead of appended.
FlushOk_Nested ==
    /\ logFile' = Append(logFile, logBuf) /\ logBuf' = <<>>
    /\ UNCHANGED auditErrors

FlushOk ==
    /\ logFile' = logFile \o logBuf /\ logBuf' = <<>>
    /\ UNCHANGED auditErrors

FlushFails ==
    /\ auditErrors < MaxAuditErrors /\ logBuf # <<>>
    /\ auditErrors' = auditErrors + 1
    /\ UNCHANGED <<logFile, logBuf>>

\* The end of run_broker: flush the log, remove the socket, return; the runtime
\* is dropped next.  An error of either is only reported.
Shutdown ==
    /\ daemon = "stopping"
    /\ FlushOk \/ FlushFails
    /\ daemon' = "draining"
    /\ \/ sock' = "absent" /\ UNCHANGED faults
       \/ sock' = "stale" /\ faults < MaxFaults /\ faults' = faults + 1
    /\ UNCHANGED <<starts, policyVars, pc, taskVars>>

\* Seeded fault: shutdown waits for running children.
Cancel_WaitsForChildren(c) ==
    /\ daemon = "draining"
    /\ pc[c] \notin {"idle", "append_rename", "child", "done"}
    /\ Goto(c, "done")
    /\ UNCHANGED <<daemonVars, auditVars, policyVars, taskVars>>

\* Dropping the runtime cancels a task at an await.  A blocking closure that has
\* started, the append between its read and its rename, is waited for.
Cancel(c) ==
    /\ daemon = "draining"
    /\ pc[c] \notin {"idle", "append_rename", "done"}
    /\ Goto(c, "done")
    /\ UNCHANGED <<daemonVars, auditVars, policyVars, taskVars>>

\* All tasks are gone: the last Arc of the logger flushes once more, exit 0.
Exit ==
    /\ daemon = "draining"
    /\ \A c \in Conn : pc[c] \in {"idle", "done"}
    /\ FlushOk \/ (auditErrors < MaxAuditErrors /\ logBuf # <<>>
                     /\ logBuf' = <<>> /\ auditErrors' = auditErrors + 1 /\ UNCHANGED logFile)
    /\ daemon' = "down"
    /\ UNCHANGED <<sock, starts, faults, policyVars, pc, taskVars>>

\* SIGKILL, power loss, abort.  Tasks and buffered records are lost, and a
\* bound socket leaves its path behind.
Crash ==
    /\ Running /\ faults < MaxFaults
    /\ faults' = faults + 1
    /\ daemon' = "down"
    /\ sock' = IF sock = "listening" THEN "stale" ELSE sock
    /\ logBuf' = <<>>
    /\ pc' = [c \in Conn |-> IF pc[c] = "idle" THEN "idle" ELSE "done"]
    /\ UNCHANGED <<starts, logFile, auditErrors, policyVars, taskVars>>

\* The operator removes a stale socket path (or the machine reboots: /run is a tmpfs).
RemoveStaleSocket ==
    /\ sock = "stale"
    /\ sock' = "absent"
    /\ UNCHANGED <<daemon, starts, faults, auditVars, policyVars, pc, taskVars>>

\* The operator edits the policy file by hand.
OperatorEdit(d) ==
    /\ disk # d
    /\ disk' = d
    /\ raced' = TRUE
    /\ UNCHANGED <<daemonVars, auditVars, handle, wrote, published, pc, taskVars>>

-----------------------------------------------------------------------------
(* Accepting and reading. *)

\* A gateway connects: the kernel queues the connection.
Connect(c) ==
    /\ sock = "listening" /\ Running
    /\ pc[c] = "idle"
    /\ Goto(c, "backlog")
    /\ UNCHANGED <<daemonVars, auditVars, policyVars, taskVars>>

\* The accept arm of the loop: snapshot the handle, spawn the task.
Accept(c) ==
    /\ daemon = "serving"
    /\ pc[c] = "backlog"
    /\ snap' = [snap EXCEPT ![c] = handle]
    /\ Goto(c, "accepted")
    /\ UNCHANGED <<daemonVars, auditVars, policyVars,
                   peer, req, doc, pending, after, frames, out, spawned>>

\* handle_connection refuses a peer it cannot name, and a request frame it
\* cannot read (the client died, or sent something else).  No record is written.
RefuseConnection(c) ==
    /\ Running
    /\ pc[c] = "accepted"
    /\ Respond(c, <<"Denied">>)
    /\ UNCHANGED <<daemonVars, auditVars, policyVars,
                   peer, req, snap, doc, pending, after, out, spawned>>

ReadRequest(c) ==
    /\ Running
    /\ pc[c] = "accepted" /\ peer[c].known
    /\ Goto(c, "routing")
    /\ UNCHANGED <<daemonVars, auditVars, policyVars, taskVars>>

-----------------------------------------------------------------------------
(* process_request: where a request goes. *)

Routing(c) == Running /\ pc[c] = "routing"

\* Query tools answer from the snapshot, with a text and an exit code; they run
\* nothing and leave no record.  `explain` resolves and judges a command line.
RouteExplain(c) ==
    /\ Routing(c)
    /\ req[c].tool = "explain"
    /\ Respond(c, <<"Stdout", "Exit">>)
    /\ UNCHANGED <<daemonVars, auditVars, policyVars,
                   peer, req, snap, doc, pending, after, out, spawned>>

\* `policy` lists what the caller may do on a repository.
RoutePolicy(c) ==
    /\ Routing(c)
    /\ req[c].tool = "policy"
    /\ Respond(c, <<"Stdout", "Exit">>)
    /\ UNCHANGED <<daemonVars, auditVars, policyVars,
                   peer, req, snap, doc, pending, after, out, spawned>>

\* `check` also reports the owner and mode of the caller's credential files.
RouteCheck(c) ==
    /\ Routing(c)
    /\ req[c].tool = "check"
    /\ Respond(c, <<"Stdout", "CredentialAudit", "Exit">>)
    /\ UNCHANGED <<daemonVars, auditVars, policyVars,
                   peer, req, snap, doc, pending, after, out, spawned>>

\* A gh invocation outside the brokered families skips resolver and policy.
RoutePassthrough(c) ==
    /\ Routing(c)
    /\ req[c].tool = "gh" /\ req[c].form = "passthrough"
    /\ Goto(c, "pass_creds")
    /\ UNCHANGED <<daemonVars, auditVars, policyVars, taskVars>>

\* Seeded fault: a request that is refused before the policy is asked leaves no
\* record.
RouteRefused_Unaudited(c) ==
    /\ Routing(c)
    /\ \/ req[c].tool = "git" /\ req[c].form = "local"
       \/ req[c].tool \in {"git", "gh"} /\ req[c].form = "unresolved"
    /\ frames' = [frames EXCEPT ![c] = <<"Denied">>] /\ Goto(c, "reply")
    /\ UNCHANGED <<daemonVars, auditVars, policyVars, peer, req, snap, doc, pending, after,
                   out, spawned>>

\* A local git subcommand, or arguments the resolver cannot place.
RouteRefused(c) ==
    /\ Routing(c)
    /\ \/ req[c].tool = "git" /\ req[c].form = "local"
       \/ req[c].tool \in {"git", "gh"} /\ req[c].form = "unresolved"
    /\ AuditDeny(c)
    /\ UNCHANGED <<daemonVars, auditVars, policyVars, peer, req, snap, doc, out, spawned>>

\* Seeded fault: the live handle is asked instead of the snapshot.
RouteEvaluated_LiveHandle(c) ==
    /\ Routing(c)
    /\ req[c].tool \in {"git", "gh"} /\ req[c].form = "resolved"
    /\ IF evaluate(handle, PolicyRequest(c)) = "allow"
       THEN Audit(c, "allow", "creds", <<>>)
       ELSE AuditDeny(c)
    /\ UNCHANGED <<daemonVars, auditVars, policyVars, peer, req, snap, doc, out, spawned>>

\* A resolved request is judged by the snapshot, never by the live handle.
RouteEvaluated(c) ==
    /\ Routing(c)
    /\ req[c].tool \in {"git", "gh"} /\ req[c].form = "resolved"
    /\ IF evaluate(snap[c], PolicyRequest(c)) = "allow"
       THEN Audit(c, "allow", "creds", <<>>)
       ELSE AuditDeny(c)
    /\ UNCHANGED <<daemonVars, auditVars, policyVars, peer, req, snap, doc, out, spawned>>

\* handle_allow up to its first write: the root gate, the operands, the roles
\* of the live handle.
RouteAllow(c) ==
    /\ Routing(c)
    /\ req[c].tool = "allow"
    /\ IF peer[c].uid # 0 \/ GrantRefused(c)
       THEN AuditDeny(c)
       ELSE Goto(c, "append_read") /\ UNCHANGED <<pending, after, frames>>
    /\ UNCHANGED <<daemonVars, auditVars, policyVars, peer, req, snap, doc, out, spawned>>

-----------------------------------------------------------------------------
(* The audit log.  write_audit waits for the record to be written and       *)
(* flushed; an error is only reported to the daemon's own log.  Bytes that  *)
(* stay in the BufWriter come before whatever is written next.              *)

AuditRecord(c) == [conn |-> c, decision |-> pending[c]]

AuditDone(c) ==
    /\ pc' = [pc EXCEPT ![c] = after[c]]
    /\ pending' = [pending EXCEPT ![c] = "none"]

WriteAudit(c) ==
    /\ Running
    /\ pc[c] = "auditing"
    /\ logFile' = logFile \o Append(logBuf, AuditRecord(c)) /\ logBuf' = <<>>
    /\ AuditDone(c)
    /\ UNCHANGED <<daemonVars, auditErrors, policyVars,
                   peer, req, snap, doc, after, frames, out, spawned>>

\* The failed write leaves the record in the buffer, or was refused by it (no
\* room left and no way to make some).
WriteAuditFails(c) ==
    /\ Running
    /\ pc[c] = "auditing"
    /\ auditErrors < MaxAuditErrors
    /\ auditErrors' = auditErrors + 1
    /\ logBuf' \in {Append(logBuf, AuditRecord(c)), logBuf}
    /\ AuditDone(c)
    /\ UNCHANGED <<daemonVars, logFile, policyVars,
                   peer, req, snap, doc, after, frames, out, spawned>>

-----------------------------------------------------------------------------
(* Executing. *)

\* load_user_credentials and build_env.  A brokered request is already recorded
\* as allowed when one of them fails; a passthrough is not recorded yet.
CredentialsFail(c) ==
    /\ Running
    /\ pc[c] \in {"creds", "pass_creds"}
    /\ Respond(c, <<"Denied">>)
    /\ UNCHANGED <<daemonVars, auditVars, policyVars,
                   peer, req, snap, doc, pending, after, out, spawned>>

\* Credentials loaded, environment built (and with it the ssh-agent or askpass
\* script that lives until the task ends).
PrepareChild(c) ==
    /\ Running
    /\ pc[c] = "creds"
    /\ Goto(c, "spawn")
    /\ UNCHANGED <<daemonVars, auditVars, policyVars, taskVars>>

LoadPassthroughCredentials(c) ==
    /\ Running
    /\ pc[c] = "pass_creds"
    /\ Audit(c, "passthrough", "spawn", <<>>)
    /\ UNCHANGED <<daemonVars, auditVars, policyVars, peer, req, snap, doc, out, spawned>>

\* stream_child: the child starts, with its privileges dropped.
Spawn(c) ==
    /\ Running
    /\ pc[c] = "spawn"
    /\ spawned' = spawned \cup {c}
    /\ Goto(c, "child")
    /\ UNCHANGED <<daemonVars, auditVars, policyVars,
                   peer, req, snap, doc, pending, after, frames, out>>

SpawnFails(c) ==
    /\ Running
    /\ pc[c] = "spawn"
    /\ Respond(c, <<"Denied">>)
    /\ UNCHANGED <<daemonVars, auditVars, policyVars,
                   peer, req, snap, doc, pending, after, out, spawned>>

\* The child's output ended and it was reaped: its output, then its exit code.
\* Reply cuts the frames short where the relay's writes fail.
ChildExits(c) ==
    /\ Running
    /\ pc[c] = "child"
    /\ Respond(c, <<"Stdout", "Exit">>)
    /\ UNCHANGED <<daemonVars, auditVars, policyVars,
                   peer, req, snap, doc, pending, after, out, spawned>>

-----------------------------------------------------------------------------
(* Granting: append_rule_atomically on the blocking pool, then the reload.  *)

\* Seeded fault: the rule is appended to the connection's snapshot, not to the file.
AppendRead_Snapshot(c) ==
    /\ Running
    /\ pc[c] = "append_read"
    /\ doc' = [doc EXCEPT ![c] = WithRule(snap[c], GrantRule(c))]
    /\ Goto(c, "append_rename")
    /\ raced' = (raced \/ \E d \in Conn \ {c} : pc[d] \in {"append_rename", "store"})
    /\ UNCHANGED <<daemonVars, auditVars, handle, disk, wrote, published,
                   peer, req, snap, pending, after, frames, out, spawned>>

\* Read and parse the file as it stands; a file that does not load is refused.
AppendRead(c) ==
    /\ Running
    /\ pc[c] = "append_read"
    /\ IF validate(disk)
       THEN /\ doc' = [doc EXCEPT ![c] = WithRule(disk, GrantRule(c))]
            /\ Goto(c, "append_rename")
            /\ UNCHANGED <<pending, after, frames>>
       ELSE /\ AuditDeny(c)
            /\ UNCHANGED doc
    /\ raced' = (raced \/ \E d \in Conn \ {c} : pc[d] \in {"append_rename", "store"})
    /\ UNCHANGED <<daemonVars, auditVars, handle, disk, wrote, published,
                   peer, req, snap, out, spawned>>

\* The temporary file is written and synced, and renamed over the policy.
AppendRename(c) ==
    /\ Running
    /\ pc[c] = "append_rename"
    /\ disk' = doc[c]
    /\ wrote' = wrote \cup {c}
    /\ Goto(c, "store")
    /\ UNCHANGED <<daemonVars, auditVars, handle, published, raced, taskVars>>

\* Seeded fault: the file is written in place, and was replaced when the sync fails.
AppendFails_InPlace(c) ==
    /\ Running
    /\ pc[c] = "append_rename"
    /\ disk' = doc[c]
    /\ doc' = [doc EXCEPT ![c] = NoDoc]
    /\ AuditDeny(c)
    /\ UNCHANGED <<daemonVars, auditVars, handle, wrote, published, raced,
                   peer, req, snap, out, spawned>>

\* Seeded fault: the error of persist is ignored and the grant confirmed.
AppendFails_Ignored(c) ==
    /\ Running
    /\ pc[c] = "append_rename"
    /\ doc' = [doc EXCEPT ![c] = NoDoc]
    /\ Audit(c, "allow", "reply", <<"Stdout", "Exit">>)
    /\ UNCHANGED <<daemonVars, auditVars, policyVars, peer, req, snap, out, spawned>>

\* Seeded fault: a failed write is retried for ever.
AppendFails_Retries(c) ==
    /\ Running
    /\ pc[c] = "append_rename"
    /\ doc' = [doc EXCEPT ![c] = NoDoc]
    /\ Goto(c, "append_read")
    /\ UNCHANGED <<daemonVars, auditVars, policyVars,
                   peer, req, snap, pending, after, frames, out, spawned>>

\* Creating, writing, syncing or renaming the temporary file fails: the policy
\* file is as it was.
AppendFails(c) ==
    /\ Running
    /\ pc[c] = "append_rename"
    /\ doc' = [doc EXCEPT ![c] = NoDoc]
    /\ AuditDeny(c)
    /\ UNCHANGED <<daemonVars, auditVars, policyVars, peer, req, snap, out, spawned>>

\* Parse the text just written, publish it, record and confirm the grant.
StoreHandle(c) ==
    /\ Running
    /\ pc[c] = "store"
    /\ IF validate(doc[c])
       THEN /\ handle' = doc[c]
            /\ published' = published \cup {c}
            /\ Audit(c, "allow", "reply", <<"Stdout", "Exit">>)
       ELSE /\ AuditDeny(c)
            /\ UNCHANGED <<handle, published>>
    /\ doc' = [doc EXCEPT ![c] = NoDoc]
    /\ UNCHANGED <<daemonVars, auditVars, disk, wrote, raced,
                   peer, req, snap, out, spawned>>

\* The response is written frame by frame; the client gets all of it, or what
\* was written before it went away.
Reply(c) ==
    /\ Running
    /\ pc[c] = "reply"
    /\ \E n \in 0..Len(frames[c]) : out' = [out EXCEPT ![c] = SubSeq(frames[c], 1, n)]
    /\ frames' = [frames EXCEPT ![c] = <<>>]
    /\ Goto(c, "done")
    /\ UNCHANGED <<daemonVars, auditVars, policyVars,
                   peer, req, snap, doc, pending, after, spawned>>

-----------------------------------------------------------------------------
Lifecycle ==
    \/ Start \/ StartFails \/ StartAborts \/ Sigterm \/ Shutdown \/ Exit \/ Crash
    \/ RemoveStaleSocket
    \/ \E d \in Edits : OperatorEdit(d)

\* What a task does by itself: the runtime polls it, the blocking pool runs its
\* closures.
TaskStep(c) ==
    \/ Accept(c)
    \/ RouteExplain(c) \/ RoutePolicy(c) \/ RouteCheck(c)
    \/ RoutePassthrough(c) \/ RouteRefused(c)
    \/ RouteEvaluated(c) \/ RouteAllow(c)
    \/ WriteAudit(c) \/ WriteAuditFails(c)
    \/ CredentialsFail(c) \/ PrepareChild(c) \/ LoadPassthroughCredentials(c)
    \/ Spawn(c) \/ SpawnFails(c)
    \/ AppendRead(c) \/ AppendRename(c) \/ AppendFails(c) \/ StoreHandle(c)

\* Where a task waits for its client to send or to read, or for its child.  No
\* timeout in the code ends these waits.
PeerStep(c) ==
    \/ RefuseConnection(c) \/ ReadRequest(c) \/ ChildExits(c) \/ Reply(c)

Next ==
    \/ Lifecycle
    \/ \E c \in Conn : Connect(c) \/ Cancel(c) \/ TaskStep(c) \/ PeerStep(c)

\* The runtime polls every task that can go on, and the main task runs from the
\* end of its loop to the end of the process.
DaemonFairness ==
    /\ \A c \in Conn : WF_vars(TaskStep(c)) /\ WF_vars(Cancel(c))
    /\ WF_vars(Shutdown) /\ WF_vars(Exit)

\* Clients send what they announced and read their answers, children end.
PeerFairness == \A c \in Conn : WF_vars(PeerStep(c))

Spec == Init /\ [][Next]_vars

DaemonSpec == Spec /\ DaemonFairness

-----------------------------------------------------------------------------
(* Properties. *)

TypeOK ==
    /\ daemon \in {"down", "serving", "stopping", "draining"}
    /\ sock \in {"absent", "listening", "stale"}
    /\ handle \in Document /\ disk \in Document
    /\ logFile \in Seq(Record) /\ logBuf \in Seq(Record)
    /\ pc \in [Conn -> PC]
    /\ peer \in [Conn -> Peer] /\ req \in [Conn -> Requests]
    /\ snap \in [Conn -> Document \cup {NoDoc}]
    /\ doc \in [Conn -> Document \cup {NoDoc}]
    /\ pending \in [Conn -> AuditDecision]
    /\ after \in [Conn -> {"creds", "spawn", "reply", "done"}]
    /\ frames \in [Conn -> Seq(Frame)] /\ out \in [Conn -> Seq(Frame)]
    /\ starts \in Nat /\ faults \in Nat /\ auditErrors \in Nat
    /\ spawned \subseteq Conn /\ wrote \subseteq Conn /\ published \subseteq Conn
    /\ raced \in BOOLEAN

\* Document d is one of the operator's, its role table untouched, followed only
\* by rules of the set granted.
Grown(d, granted) ==
    \E o \in Origins :
        /\ d.roles = o.roles
        /\ Len(o.rules) <= Len(d.rules)
        /\ \A i \in 1..Len(o.rules) : d.rules[i] = o.rules[i]
        /\ \A i \in (Len(o.rules) + 1)..Len(d.rules) : d.rules[i] \in granted

\* The rules whose rename succeeded.
Granted == {GrantRule(c) : c \in wrote}

\* A peer that may change the policy, asking to.
Privileged(c) == peer[c].known /\ peer[c].uid = 0 /\ req[c].tool = "allow"

\* The policy in force anywhere (the file, the handle, every snapshot) is an
\* operator's document extended by whole rules that connections with effective
\* UID 0 asked for and whose rename succeeded: no interleaving of grants, failed
\* writes, restarts and hand edits puts any other rule, or half a document, there.
AuthorityFromRoot ==
    /\ \A c \in wrote : Privileged(c)
    /\ Grown(disk, Granted) /\ Grown(handle, Granted)
    /\ \A c \in Conn : snap[c] # NoDoc => Grown(snap[c], Granted)

\* A child runs only for a gh passthrough, or for a request an operator's
\* document allows, or one that it leaves undecided and a privileged grant
\* covers.  So no sequence of grants makes the broker run what an operator's
\* explicit deny rule forbids.
ExecutionJustified ==
    \A c \in spawned :
        \/ req[c].tool = "gh" /\ req[c].form = "passthrough"
        \/ /\ req[c].tool \in {"git", "gh"} /\ req[c].form = "resolved"
           /\ \E o \in Origins :
                \/ evaluate(o, PolicyRequest(c)) = "allow"
                \/ /\ evaluate(o, PolicyRequest(c)) = "no matching rule"
                   /\ \E d \in wrote : Privileged(d)
                                         /\ rule_matches(o, GrantRule(d), PolicyRequest(c))

\* What the client is told is what happened.  Denied: no child ran and the policy
\* file was not replaced.  An exit code: the child ran, or the rule was written
\* and published, or it was a query.
AnswerTruthful ==
    \A c \in Conn :
        /\ "Denied" \in Range(out[c]) => c \notin spawned \cup wrote
        /\ "Exit" \in Range(out[c]) =>
             CASE req[c].tool = "allow"        -> c \in wrote \cap published
               [] req[c].tool \in {"git", "gh"} -> c \in spawned
               [] OTHER                         -> c \notin spawned \cup wrote

\* The audit log never says deny of something that took effect, never says allow
\* of a grant that was not published or a request the snapshot denies, and holds
\* at most one record for a connection, even where a failed flush left the
\* record in the buffer and a later write carried it to the file.
AuditAgrees ==
    LET log == logFile \o logBuf
    IN  /\ \A i \in DOMAIN log :
             LET c == log[i].conn IN
             CASE log[i].decision = "deny" -> c \notin spawned \cup wrote
               [] log[i].decision = "allow" ->
                    IF req[c].tool = "allow" THEN c \in published
                    ELSE evaluate(snap[c], PolicyRequest(c)) = "allow"
               [] OTHER -> req[c].form = "passthrough"
        /\ \A i, j \in DOMAIN log : log[i].conn = log[j].conn => i = j

\* As long as no grant overlapped another and nobody edited the file by hand,
\* the published policy is the file whenever no grant is between its rename and
\* its store, and every confirmed grant is in the file, across crashes too.
SequentialGrantsDurable ==
    ~raced =>
        /\ daemon = "serving" /\ (\A c \in Conn : pc[c] # "store") => handle = disk
        /\ \A c \in published : GrantRule(c) \in Range(disk.rules)

\* A child starts only when the decision to run it is in the audit file: at most
\* as many children ever run without a record as writes of the log failed, and
\* no crash, restart or shutdown adds one.
ChildrenRecorded ==
    Cardinality({c \in spawned :
                    ~\E i \in DOMAIN logFile :
                        /\ logFile[i].conn = c
                        /\ logFile[i].decision \in {"allow", "passthrough"}}) <= auditErrors

\* Every decision leaves its record before its answer: a git or gh request that
\* is allowed, denied or refused is in the file when the caller is told, if no
\* write of the log failed, also when credentials or the spawn then fail.  (A
\* passthrough takes no decision; one without credentials leaves no record.)
DecisionsRecorded ==
    [][\A c \in Conn :
        /\ pc[c] \notin {"accepted", "reply"} /\ pc'[c] = "reply"
        /\ req[c].tool \in {"git", "gh"} /\ req[c].form # "passthrough"
        /\ auditErrors' = 0
        => \E i \in DOMAIN logFile' : logFile'[i].conn = c]_vars

\* When clients and children do their part, every accepted connection is answered
\* or closed: no audit error, missing credential, failed spawn, failed or
\* concurrent grant, and no shutdown leaves a task hanging.
AcceptedEnds ==
    PeerFairness => \A c \in Conn : pc[c] = "accepted" ~> pc[c] = "done"

\* A signalled daemon comes down even if clients never read and children never
\* end: it needs no step of theirs.
StopsOnSignal == daemon = "stopping" ~> daemon = "down"

(* What the repository says and interleavings refute. *)

\* policy-admin: a confirmed grant is in the policy file.
ConfirmedGrantPersists ==
    \A c \in Conn :
        req[c].tool = "allow" /\ "Exit" \in Range(out[c]) =>
            GrantRule(c) \in Range(disk.rules)

\* The unit's Restart=on-failure: a daemon that is started again with a policy
\* that loads, when no other daemon is running and the system refuses it nothing,
\* serves.
RestartServes ==
    [][starts' # starts /\ faults' = faults /\ validate(disk) => daemon' = "serving"]_vars

=============================================================================
