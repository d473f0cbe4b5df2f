------------------------------- MODULE Escrow -------------------------------
(***************************************************************************)
(* The credential of one brokered operation, from build_env                *)
(* (src/broker.rs) through start_ssh_agent and https_git_env               *)
(* (src/credentials.rs) and the identity the child is dropped to           *)
(* (src/executor.rs), to the guards that are dropped when the handler      *)
(* returns.                                                                *)
(*                                                                         *)
(* Each step that can fail is a step of its own, because what a failure    *)
(* must undo depends on how far the start had come.  The agent, the proxy  *)
(* task, its bridges and the child run on their own; the child of a        *)
(* handler that gave up runs on after its credential is gone; and the      *)
(* daemon can be killed anywhere, which drops nothing.                     *)
(*                                                                         *)
(* Data.  A key is loaded or not: its lifetime is the step KeyExpires,     *)
(* which can come at any moment.  A file is its owner, group and mode.     *)
(***************************************************************************)
EXTENDS Naturals

CONSTANTS
    Op,          \* operations under way at the same time
    Uid, Gid,
    DaemonUid, DaemonGid, RootUid,
    ClientsGid,  \* ghbrk-clients
    Caller,      \* peer identities: [uid, gid, groups]
    POLLS,       \* how often start_ssh_agent looks for agent.sock
    NoFile       \* no file of that name

Mode == {"0600", "0660", "0700", "0710", "0755"}

File == [owner : Uid, group : Gid, mode : Mode]

ASSUME EscrowAssumption ==
    /\ DaemonUid \in Uid /\ RootUid \in Uid /\ DaemonUid # RootUid
    /\ DaemonGid \in Gid /\ ClientsGid \in Gid
    /\ Caller \subseteq [uid : Uid, gid : Gid, groups : SUBSET Gid]
    /\ POLLS \in Nat \ {0} /\ NoFile \notin File

Scheme == {"ssh", "https", "gh"}

\* The identity of a process: the daemon's own, until it is dropped.
DaemonIdentity == [uid |-> DaemonUid, gid |-> DaemonGid, groups |-> {DaemonGid}]

Starting == {"group", "tempdir", "chmod", "chgrp", "agent", "poll", "add",
             "bind", "chmodproxy", "chgrpproxy", "proxy"}

Scripting == {"script", "scriptmode"}

\* In the forked child, while the handler waits for its exec.
Hook == {"setgroups", "setresgid", "setresuid", "chdir", "exec"}

Spawning == {"fork"} \cup Hook

Dropping == {"abort", "kill", "remove", "unlink"}

PC == {"build"} \cup Starting \cup Scripting \cup Spawning \cup {"running"}
        \cup Dropping \cup {"ended", "killed"}

VARIABLES
    daemon,   \* "up" or "killed"
    caller, scheme,
    pc,       \* where the handler of each operation is
    polls,
    dir,      \* the temporary directory
    sock,     \* proxy.sock in it
    script,   \* the askpass script
    agent,    \* "none", "starting", "listening", "stale" (dead, its socket left), "gone"
    key,      \* the agent holds the key
    proxy,    \* the accept loop: "none", "accepting", "aborting", "gone"
    bridge,   \* one detached bridge: "none", "accepted", "bridged"
    child,    \* "none", "forked", "running", "exited"
    ident,    \* the child's identity
    signed    \* the child was given a signature

opVars   == <<daemon, caller, scheme>>
fileVars == <<dir, sock, script>>
agentVars == <<agent, key>>
proxyVars == <<proxy, bridge>>
childVars == <<child, ident, signed>>
vars == <<opVars, pc, polls, fileVars, agentVars, proxyVars, childVars>>

-----------------------------------------------------------------------------
(* Who may use a file, as the kernel decides it.                           *)

Rights(mode) ==
    CASE mode = "0600" -> [owner |-> {"r", "w"}, group |-> {}, other |-> {}]
      [] mode = "0660" -> [owner |-> {"r", "w"}, group |-> {"r", "w"}, other |-> {}]
      [] mode = "0700" -> [owner |-> {"r", "w", "x"}, group |-> {}, other |-> {}]
      [] mode = "0710" -> [owner |-> {"r", "w", "x"}, group |-> {"x"}, other |-> {}]
      [] mode = "0755" -> [owner |-> {"r", "w", "x"}, group |-> {"r", "x"},
                           other |-> {"r", "x"}]

MayUse(who, file, right) ==
    /\ file # NoFile
    /\ right \in (IF who.uid = file.owner THEN Rights(file.mode).owner
                  ELSE IF file.group \in who.groups \cup {who.gid}
                       THEN Rights(file.mode).group
                       ELSE Rights(file.mode).other)

\* Connecting to proxy.sock: through the directory, and writing the socket.
MayConnect(o) == MayUse(ident[o], dir[o], "x") /\ MayUse(ident[o], sock[o], "w")

\* apply_privilege_drop: root and the daemon's own user are not dropped to.
Drops(o) == caller[o].uid # RootUid /\ caller[o].uid # DaemonUid

Init ==
    /\ daemon = "up"
    /\ caller \in [Op -> Caller] /\ scheme \in [Op -> Scheme]
    /\ pc = [o \in Op |-> "build"] /\ polls = [o \in Op |-> 0]
    /\ dir = [o \in Op |-> NoFile] /\ sock = [o \in Op |-> NoFile]
    /\ script = [o \in Op |-> NoFile]
    /\ agent = [o \in Op |-> "none"] /\ key = [o \in Op |-> FALSE]
    /\ proxy = [o \in Op |-> "none"] /\ bridge = [o \in Op |-> "none"]
    /\ child = [o \in Op |-> "none"] /\ ident = [o \in Op |-> DaemonIdentity]
    /\ signed = [o \in Op |-> FALSE]

At(o, l) == daemon = "up" /\ pc[o] = l

Goto(o, l) == pc' = [pc EXCEPT ![o] = l]

-----------------------------------------------------------------------------
(* build_env, and the two ways to a git credential.                        *)

BuildEnv(o) ==
    /\ At(o, "build")
    /\ Goto(o, CASE scheme[o] = "ssh"   -> "group"
                 [] scheme[o] = "https" -> "script"
                 [] scheme[o] = "gh"    -> "fork")
    /\ UNCHANGED <<opVars, polls, fileVars, agentVars, proxyVars, childVars>>

\* The askpass script: a temporary file of the daemon, made executable for its owner.
WriteScript(o) ==
    /\ At(o, "script")
    /\ script' = [script EXCEPT ![o] =
                    [owner |-> DaemonUid, group |-> DaemonGid, mode |-> "0600"]]
    /\ Goto(o, "scriptmode")
    /\ UNCHANGED <<opVars, polls, dir, sock, agentVars, proxyVars, childVars>>

ScriptMode(o) ==
    /\ At(o, "scriptmode")
    /\ script' = [script EXCEPT ![o].mode = "0700"]
    /\ Goto(o, "fork")
    /\ UNCHANGED <<opVars, polls, dir, sock, agentVars, proxyVars, childVars>>

\* The file, if there is one, is dropped with the error; the answer is Denied.
ScriptFails(o) ==
    /\ \E l \in Scripting : At(o, l)
    /\ Goto(o, "unlink")
    /\ UNCHANGED <<opVars, polls, fileVars, agentVars, proxyVars, childVars>>

\* client_group_gid: without ghbrk-clients the start fails (StartFails).
FindGroup(o) ==
    /\ At(o, "group") /\ Goto(o, "tempdir")
    /\ UNCHANGED <<opVars, polls, fileVars, agentVars, proxyVars, childVars>>

MakeTempDir(o) ==
    /\ At(o, "tempdir")
    /\ dir' = [dir EXCEPT ![o] =
                 [owner |-> DaemonUid, group |-> DaemonGid, mode |-> "0700"]]
    /\ Goto(o, "chmod")
    /\ UNCHANGED <<opVars, polls, sock, script, agentVars, proxyVars, childVars>>

ChmodTempDir(o) ==
    /\ At(o, "chmod")
    /\ dir' = [dir EXCEPT ![o].mode = "0710"] /\ Goto(o, "chgrp")
    /\ UNCHANGED <<opVars, polls, sock, script, agentVars, proxyVars, childVars>>

\* Seeded fault: the directory's group is best effort, as the broker's socket is.
ChgrpTempDir_Skipped(o) ==
    /\ At(o, "chgrp") /\ Goto(o, "agent")
    /\ UNCHANGED <<opVars, polls, fileVars, agentVars, proxyVars, childVars>>

ChgrpTempDir(o) ==
    /\ At(o, "chgrp")
    /\ dir' = [dir EXCEPT ![o].group = ClientsGid] /\ Goto(o, "agent")
    /\ UNCHANGED <<opVars, polls, sock, script, agentVars, proxyVars, childVars>>

SpawnAgent(o) ==
    /\ At(o, "agent")
    /\ agent' = [agent EXCEPT ![o] = "starting"] /\ Goto(o, "poll")
    /\ UNCHANGED <<opVars, polls, fileVars, key, proxyVars, childVars>>

\* Seeded fault: one look too many.
PollAgent_OffByOne(o) ==
    /\ At(o, "poll") /\ polls[o] <= POLLS
    /\ IF agent[o] \in {"listening", "stale"}
       THEN Goto(o, "add") /\ UNCHANGED polls
       ELSE polls' = [polls EXCEPT ![o] = @ + 1] /\ UNCHANGED pc
    /\ UNCHANGED <<opVars, fileVars, agentVars, proxyVars, childVars>>

\* Seeded fault: the looks are not counted.
PollAgent_Endless(o) ==
    /\ At(o, "poll") /\ agent[o] \in {"listening", "stale"}
    /\ Goto(o, "add")
    /\ UNCHANGED <<opVars, polls, fileVars, agentVars, proxyVars, childVars>>

\* agent.sock is looked for POLLS times, with a sleep between.
PollAgent(o) ==
    /\ At(o, "poll") /\ polls[o] < POLLS
    /\ IF agent[o] \in {"listening", "stale"}
       THEN Goto(o, "add") /\ UNCHANGED polls
       ELSE polls' = [polls EXCEPT ![o] = @ + 1] /\ UNCHANGED pc
    /\ UNCHANGED <<opVars, fileVars, agentVars, proxyVars, childVars>>

\* ssh-add -t, to its end.
AddKey(o) ==
    /\ At(o, "add") /\ agent[o] = "listening"
    /\ key' = [key EXCEPT ![o] = TRUE] /\ Goto(o, "bind")
    /\ UNCHANGED <<opVars, polls, fileVars, agent, proxyVars, childVars>>

BindProxy(o) ==
    /\ At(o, "bind")
    /\ sock' = [sock EXCEPT ![o] =
                  [owner |-> DaemonUid, group |-> DaemonGid, mode |-> "0755"]]
    /\ Goto(o, "chmodproxy")
    /\ UNCHANGED <<opVars, polls, dir, script, agentVars, proxyVars, childVars>>

ChmodProxy(o) ==
    /\ At(o, "chmodproxy")
    /\ sock' = [sock EXCEPT ![o].mode = "0660"] /\ Goto(o, "chgrpproxy")
    /\ UNCHANGED <<opVars, polls, dir, script, agentVars, proxyVars, childVars>>

ChgrpProxy(o) ==
    /\ At(o, "chgrpproxy")
    /\ sock' = [sock EXCEPT ![o].group = ClientsGid] /\ Goto(o, "proxy")
    /\ UNCHANGED <<opVars, polls, dir, script, agentVars, proxyVars, childVars>>

StartProxy(o) ==
    /\ At(o, "proxy")
    /\ proxy' = [proxy EXCEPT ![o] = "accepting"] /\ Goto(o, "fork")
    /\ UNCHANGED <<opVars, polls, fileVars, agentVars, bridge, childVars>>

\* Seeded fault: the branch of a failed bind forgets the agent.
Undo_Forgotten(l) ==
    CASE l \in {"group", "tempdir"} -> "ended"
      [] l \in {"chmod", "chgrp", "agent", "bind"} -> "remove"
      [] l \in {"poll", "add", "chmodproxy", "chgrpproxy"} -> "kill"

\* What the error branch of each step undoes.
Undo(l) ==
    CASE l \in {"group", "tempdir"}          -> "ended"
      [] l \in {"chmod", "chgrp", "agent"}   -> "remove"
      [] l \in {"poll", "add", "bind", "chmodproxy", "chgrpproxy"} -> "kill"

\* A step of start_ssh_agent fails: the poll only when it has run out, and
\* ssh-add perhaps after it has loaded the key.
StartFails(o) ==
    /\ \E l \in Starting \ {"proxy"} :
         /\ At(o, l) /\ (l = "poll" => polls[o] = POLLS)
         /\ Goto(o, Undo(l))
    /\ \/ UNCHANGED key
       \/ /\ pc[o] = "add" /\ agent[o] = "listening"
          /\ key' = [key EXCEPT ![o] = TRUE]
    /\ UNCHANGED <<opVars, polls, fileVars, agent, proxyVars, childVars>>

-----------------------------------------------------------------------------
(* stream_child: the child is forked as the daemon, becomes its caller in  *)
(* the pre_exec hook, and runs.                                            *)

Fork(o) ==
    /\ At(o, "fork")
    /\ child' = [child EXCEPT ![o] = "forked"]
    /\ Goto(o, IF Drops(o) THEN "setgroups" ELSE "exec")
    /\ UNCHANGED <<opVars, polls, fileVars, agentVars, proxyVars, ident, signed>>

\* Seeded fault: a failed setgroups is ignored.
SetGroups_Lenient(o) ==
    /\ pc[o] = "setgroups"
    /\ ident' \in {ident, [ident EXCEPT ![o].groups = caller[o].groups]}
    /\ Goto(o, "setresgid")
    /\ UNCHANGED <<opVars, polls, fileVars, agentVars, proxyVars, child, signed>>

\* The capabilities for the first two calls go with the uid.
SetGroups(o) ==
    /\ pc[o] = "setgroups" /\ ident[o].uid = DaemonUid
    /\ ident' = [ident EXCEPT ![o].groups = caller[o].groups]
    /\ Goto(o, "setresgid")
    /\ UNCHANGED <<opVars, polls, fileVars, agentVars, proxyVars, child, signed>>

SetResGid(o) ==
    /\ pc[o] = "setresgid" /\ ident[o].uid = DaemonUid
    /\ ident' = [ident EXCEPT ![o].gid = caller[o].gid]
    /\ Goto(o, "setresuid")
    /\ UNCHANGED <<opVars, polls, fileVars, agentVars, proxyVars, child, signed>>

SetResUid(o) ==
    /\ pc[o] = "setresuid" /\ ident[o].uid = DaemonUid
    /\ ident' = [ident EXCEPT ![o].uid = caller[o].uid]
    /\ Goto(o, "chdir")
    /\ UNCHANGED <<opVars, polls, fileVars, agentVars, proxyVars, child, signed>>

Chdir(o) ==
    /\ pc[o] = "chdir" /\ Goto(o, "exec")
    /\ UNCHANGED <<opVars, polls, fileVars, agentVars, proxyVars, childVars>>

Exec(o) ==
    /\ pc[o] = "exec"
    /\ child' = [child EXCEPT ![o] = "running"]
    /\ Goto(o, IF daemon = "up" THEN "running" ELSE "killed")
    /\ UNCHANGED <<opVars, polls, fileVars, agentVars, proxyVars, ident, signed>>

\* Where the guards of an operation start to be dropped.
Release(o) ==
    IF daemon = "killed" THEN "killed"
    ELSE CASE scheme[o] = "ssh"   -> "abort"
           [] scheme[o] = "https" -> "unlink"
           [] scheme[o] = "gh"    -> "ended"

\* The fork, a call of the hook or the exec fails: no program is run, and the
\* caller is told Denied.
SpawnFails(o) ==
    /\ pc[o] \in Spawning
    /\ child' = [child EXCEPT ![o] = IF @ = "forked" THEN "exited" ELSE @]
    /\ Goto(o, Release(o))
    /\ UNCHANGED <<opVars, polls, fileVars, agentVars, proxyVars, ident, signed>>

ChildExits(o) ==
    /\ child[o] = "running"
    /\ child' = [child EXCEPT ![o] = "exited"]
    /\ UNCHANGED <<opVars, pc, polls, fileVars, agentVars, proxyVars, ident, signed>>

\* The child's output ended and its status is collected.
Collect(o) ==
    /\ At(o, "running") /\ child[o] = "exited"
    /\ Goto(o, Release(o))
    /\ UNCHANGED <<opVars, polls, fileVars, agentVars, proxyVars, childVars>>

\* A response cannot be written, or the stopping runtime drops the task: the
\* handler leaves before child.wait, and the child is not killed.
Abandon(o) ==
    /\ At(o, "running")
    /\ Goto(o, Release(o))
    /\ UNCHANGED <<opVars, polls, fileVars, agentVars, proxyVars, childVars>>

-----------------------------------------------------------------------------
(* The guards: SshAgentHandle::drop, and the askpass file's own.           *)

AbortProxy(o) ==
    /\ At(o, "abort")
    /\ proxy' = [proxy EXCEPT ![o] = "aborting"] /\ Goto(o, "kill")
    /\ UNCHANGED <<opVars, polls, fileVars, agentVars, bridge, childVars>>

\* Seeded fault: the agent is left to its time to live.
KillAgent_Left(o) ==
    /\ At(o, "kill") /\ Goto(o, "remove")
    /\ UNCHANGED <<opVars, polls, fileVars, agentVars, proxyVars, childVars>>

KillAgent(o) ==
    /\ At(o, "kill")
    /\ agent' = [agent EXCEPT ![o] = "gone"] /\ key' = [key EXCEPT ![o] = FALSE]
    /\ Goto(o, "remove")
    /\ UNCHANGED <<opVars, polls, fileVars, proxyVars, childVars>>

RemoveDir(o) ==
    /\ At(o, "remove")
    /\ dir' = [dir EXCEPT ![o] = NoFile] /\ sock' = [sock EXCEPT ![o] = NoFile]
    /\ Goto(o, "ended")
    /\ UNCHANGED <<opVars, polls, script, agentVars, proxyVars, childVars>>

UnlinkScript(o) ==
    /\ At(o, "unlink")
    /\ script' = [script EXCEPT ![o] = NoFile] /\ Goto(o, "ended")
    /\ UNCHANGED <<opVars, polls, dir, sock, agentVars, proxyVars, childVars>>

-----------------------------------------------------------------------------
(* The agent, the proxy and the child's use of them.                       *)

AgentListens(o) ==
    /\ agent[o] = "starting"
    /\ agent' = [agent EXCEPT ![o] = "listening"]
    /\ UNCHANGED <<opVars, pc, polls, fileVars, key, proxyVars, childVars>>

AgentDies(o) ==
    /\ agent[o] \in {"starting", "listening"}
    /\ agent' = [agent EXCEPT ![o] = IF @ = "listening" THEN "stale" ELSE "gone"]
    /\ key' = [key EXCEPT ![o] = FALSE]
    /\ UNCHANGED <<opVars, pc, polls, fileVars, proxyVars, childVars>>

\* ssh-add -t SSH_KEY_TTL_SECS: the agent forgets the key by itself.
KeyExpires(o) ==
    /\ key[o] /\ key' = [key EXCEPT ![o] = FALSE]
    /\ UNCHANGED <<opVars, pc, polls, fileVars, agent, proxyVars, childVars>>

\* An aborted loop that was being polled can still accept once.
ProxyAccepts(o) ==
    /\ daemon = "up" /\ proxy[o] \in {"accepting", "aborting"}
    /\ child[o] = "running" /\ MayConnect(o) /\ bridge[o] = "none"
    /\ bridge' = [bridge EXCEPT ![o] = "accepted"]
    /\ UNCHANGED <<opVars, pc, polls, fileVars, agentVars, proxy, childVars>>

ProxyStops(o) ==
    /\ daemon = "up" /\ proxy[o] = "aborting"
    /\ proxy' = [proxy EXCEPT ![o] = "gone"]
    /\ UNCHANGED <<opVars, pc, polls, fileVars, agentVars, bridge, childVars>>

\* The bridge, a task of its own, connects to agent.sock or ends.
BridgeConnects(o) ==
    /\ daemon = "up" /\ bridge[o] = "accepted"
    /\ bridge' = [bridge EXCEPT ![o] = IF agent[o] = "listening" THEN "bridged" ELSE "none"]
    /\ UNCHANGED <<opVars, pc, polls, fileVars, agentVars, proxy, childVars>>

Sign(o) ==
    /\ daemon = "up" /\ bridge[o] = "bridged" /\ child[o] = "running"
    /\ agent[o] = "listening" /\ key[o]
    /\ signed' = [signed EXCEPT ![o] = TRUE]
    /\ UNCHANGED <<opVars, pc, polls, fileVars, agentVars, proxyVars, child, ident>>

\* Either direction of the copy ends: the child's side, which the child may
\* close when it likes, or the agent's.
BridgeEnds(o) ==
    /\ daemon = "up" /\ bridge[o] = "bridged"
    /\ child[o] # "running" \/ agent[o] # "listening"
    /\ bridge' = [bridge EXCEPT ![o] = "none"]
    /\ UNCHANGED <<opVars, pc, polls, fileVars, agentVars, proxy, childVars>>

ChildHangsUp(o) ==
    /\ daemon = "up" /\ bridge[o] = "bridged" /\ child[o] = "running"
    /\ bridge' = [bridge EXCEPT ![o] = "none"]
    /\ UNCHANGED <<opVars, pc, polls, fileVars, agentVars, proxy, childVars>>

\* SIGKILL: no guard is dropped, and the tasks of the daemon are gone.  A
\* forked child goes on by itself.
KillDaemon ==
    /\ daemon = "up" /\ daemon' = "killed"
    /\ pc' = [o \in Op |-> IF pc[o] \in Hook \cup {"ended"} THEN pc[o] ELSE "killed"]
    /\ proxy' = [o \in Op |-> IF proxy[o] = "none" THEN "none" ELSE "gone"]
    /\ bridge' = [o \in Op |-> "none"]
    /\ UNCHANGED <<caller, scheme, polls, fileVars, agentVars, childVars>>

-----------------------------------------------------------------------------
\* One step of the handler, which runs to its end once started.
Handler(o) ==
    \/ BuildEnv(o) \/ WriteScript(o) \/ ScriptMode(o) \/ ScriptFails(o)
    \/ FindGroup(o) \/ MakeTempDir(o) \/ ChmodTempDir(o) \/ ChgrpTempDir(o)
    \/ SpawnAgent(o) \/ PollAgent(o) \/ AddKey(o) \/ BindProxy(o) \/ ChmodProxy(o)
    \/ ChgrpProxy(o) \/ StartProxy(o) \/ StartFails(o)
    \/ Fork(o) \/ SetGroups(o) \/ SetResGid(o) \/ SetResUid(o) \/ Chdir(o) \/ Exec(o)
    \/ SpawnFails(o) \/ Collect(o) \/ AbortProxy(o) \/ KillAgent(o) \/ RemoveDir(o)
    \/ UnlinkScript(o)

Bridge(o) == BridgeConnects(o) \/ BridgeEnds(o)

Environment(o) ==
    \/ ChildExits(o) \/ Abandon(o) \/ AgentListens(o) \/ AgentDies(o) \/ KeyExpires(o)
    \/ ProxyAccepts(o) \/ Sign(o) \/ ChildHangsUp(o)

Next ==
    \/ \E o \in Op : Handler(o) \/ Bridge(o) \/ ProxyStops(o) \/ Environment(o)
    \/ KillDaemon

Spec == Init /\ [][Next]_vars

\* The runtime polls every task that can go on; nothing obliges a child to
\* exit, an agent to listen or a caller to go away.
LiveSpec ==
    /\ Spec
    /\ \A o \in Op : WF_vars(Handler(o)) /\ WF_vars(Bridge(o)) /\ WF_vars(ProxyStops(o))

-----------------------------------------------------------------------------
(* Properties.                                                             *)

\* Type invariant of the state the modules below and the proofs rely on.
EscrowTypeOK ==
    /\ daemon \in {"up", "killed"}
    /\ caller \in [Op -> Caller] /\ scheme \in [Op -> Scheme]
    /\ pc \in [Op -> PC] /\ polls \in [Op -> 0..POLLS]
    /\ dir \in [Op -> File \cup {NoFile}] /\ sock \in [Op -> File \cup {NoFile}]
    /\ script \in [Op -> File \cup {NoFile}]
    /\ agent \in [Op -> {"none", "starting", "listening", "stale", "gone"}]
    /\ key \in [Op -> BOOLEAN]
    /\ proxy \in [Op -> {"none", "accepting", "aborting", "gone"}]
    /\ bridge \in [Op -> {"none", "accepted", "bridged"}]
    /\ child \in [Op -> {"none", "forked", "running", "exited"}]
    /\ ident \in [Op -> [uid : Uid, gid : Gid, groups : SUBSET Gid]]
    /\ signed \in [Op -> BOOLEAN]

\* Whatever way an operation ends - a start that failed at any step, a spawn
\* that was refused, a child collected or abandoned - its agent, its key, its
\* directory, its socket and its askpass script are gone, unless the daemon
\* was killed under it (SshAgentHandle::drop and the error branches of
\* start_ssh_agent).
NothingLeft ==
    \A o \in Op : pc[o] = "ended" =>
        /\ agent[o] \in {"none", "gone"} /\ ~key[o]
        /\ dir[o] = NoFile /\ sock[o] = NoFile /\ script[o] = NoFile
        /\ proxy[o] # "accepting"

\* A program never runs under a mixture of two identities: it is its caller
\* in user, group and supplementary groups, or in all three the daemon, and
\* that only for root and for the daemon's own user (apply_privilege_drop).
IdentityWhole ==
    \A o \in Op : child[o] = "running" =>
        ident[o] = IF Drops(o) THEN caller[o] ELSE DaemonIdentity

\* The escrow is of use: a child that runs under its handler over ssh can
\* connect to proxy.sock, if the group database lists its caller in
\* ghbrk-clients or it was not dropped (the modes and groups start_ssh_agent
\* gives the directory and the socket).
SshChildReachesProxy ==
    \A o \in Op :
        /\ scheme[o] = "ssh" /\ child[o] = "running" /\ pc[o] = "running"
        /\ ClientsGid \in caller[o].groups \cup {caller[o].gid} \/ ~Drops(o)
        => MayConnect(o) /\ proxy[o] = "accepting"

\* Nothing is signed for a child whose operation is over: neither a child that
\* was abandoned by a failed response write, nor through a bridge that an
\* aborted proxy had already accepted.
NoLateSignature == [][\A o \in Op : pc[o] = "ended" => signed'[o] = signed[o]]_vars

\* Everything an operation starts ends by itself, also when ssh-agent never
\* listens and when the child never exits: the start, the drop of the guards,
\* and after it the detached tasks, proxy and bridge (run_agent_proxy).
EscrowSettles ==
    \A o \in Op :
        /\ pc[o] # "running" ~> pc[o] \in {"running", "ended", "killed"}
        /\ pc[o] = "ended" ~> bridge[o] = "none" /\ proxy[o] \in {"none", "gone"}

=============================================================================
