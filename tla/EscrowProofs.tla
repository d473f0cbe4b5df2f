---------------------------- MODULE EscrowProofs ----------------------------
(***************************************************************************)
(* The safety properties of Escrow, for any number of operations under way *)
(* at once, any callers, and any number of polls.                          *)
(*                                                                         *)
(* The operations share nothing but the daemon, so the invariant is a      *)
(* conjunction over operations of three parts: what of the credential      *)
(* exists at each step (Held), what the files are (Shaped), and who the    *)
(* child is (Itself).  An action of one operation leaves every other as it *)
(* is (Untouched), and each part is shown for the one that moved.          *)
(***************************************************************************)
EXTENDS Escrow, TLAPS

Making == {"build"} \cup Starting \cup Scripting

\* What exists of the credential, by where the handler is.
Held(o) ==
    /\ key[o] => agent[o] = "listening"
    /\ \/ scheme[o] = "ssh"
       \/ /\ agent[o] = "none" /\ dir[o] = NoFile /\ sock[o] = NoFile /\ proxy[o] = "none"
          /\ pc[o] \notin Starting \cup {"abort", "kill", "remove"}
    /\ \/ scheme[o] = "https"
       \/ script[o] = NoFile /\ pc[o] \notin Scripting \cup {"unlink"}
    /\ pc[o] \in {"build", "group", "tempdir"} => dir[o] = NoFile
    /\ pc[o] \in {"build", "group", "tempdir", "chmod", "chgrp", "agent"} => agent[o] = "none"
    /\ pc[o] \in {"build", "group", "tempdir", "chmod", "chgrp", "agent", "poll", "add",
                  "bind"} => sock[o] = NoFile
    /\ pc[o] \in Making => proxy[o] = "none"
    /\ pc[o] = "remove" => agent[o] \in {"none", "gone"}
    /\ pc[o] \in {"kill", "remove", "ended"} => proxy[o] # "accepting"
    /\ pc[o] = "ended" => /\ agent[o] \in {"none", "gone"}
                          /\ dir[o] = NoFile /\ sock[o] = NoFile /\ script[o] = NoFile

\* The files of an ssh operation, once they are set up and until they are removed.
Shaped(o) ==
    /\ pc[o] = "running" => daemon = "up"
    /\ scheme[o] = "ssh" =>
        /\ pc[o] = "chmod" => dir[o].owner = DaemonUid
        /\ pc[o] = "chgrp" => dir[o].owner = DaemonUid /\ dir[o].mode = "0710"
        /\ pc[o] \in {"chmod", "chgrp"} => dir[o] \in File
        /\ pc[o] \in {"agent", "poll", "add", "bind", "chmodproxy", "chgrpproxy", "proxy",
                      "running"} \cup Spawning =>
             dir[o] = [owner |-> DaemonUid, group |-> ClientsGid, mode |-> "0710"]
        /\ pc[o] = "chmodproxy" => sock[o].owner = DaemonUid
        /\ pc[o] = "chgrpproxy" => sock[o].owner = DaemonUid /\ sock[o].mode = "0660"
        /\ pc[o] \in {"chmodproxy", "chgrpproxy"} => sock[o] \in File
        /\ pc[o] \in {"proxy", "running"} \cup Spawning =>
             sock[o] = [owner |-> DaemonUid, group |-> ClientsGid, mode |-> "0660"]
        /\ pc[o] \in {"running"} \cup Spawning /\ daemon = "up" => proxy[o] = "accepting"
    /\ pc[o] = "scriptmode" => script[o] \in File

\* The whole identity a program is run under.
Whole(o) == IF Drops(o) THEN caller[o] ELSE DaemonIdentity

\* Who the child is, call by call of the pre_exec hook.
Itself(o) ==
    /\ pc[o] \in Making \cup {"fork"} => child[o] = "none" /\ ident[o] = DaemonIdentity
    /\ pc[o] \in Hook => child[o] = "forked"
    /\ pc[o] \in Hook \ {"exec"} => Drops(o)
    /\ pc[o] = "setgroups" => ident[o] = DaemonIdentity
    /\ pc[o] = "setresgid" => ident[o] = [uid |-> DaemonUid, gid |-> DaemonGid,
                                          groups |-> caller[o].groups]
    /\ pc[o] = "setresuid" => ident[o] = [uid |-> DaemonUid, gid |-> caller[o].gid,
                                          groups |-> caller[o].groups]
    /\ pc[o] \in {"chdir", "exec"} => ident[o] = Whole(o)
    /\ child[o] = "running" => ident[o] = Whole(o)

EscrowInv == EscrowTypeOK /\ \A o \in Op : Held(o) /\ Shaped(o) /\ Itself(o)

\* Operation p is not concerned by the step.
Untouched(p) ==
    /\ daemon' = daemon /\ caller' = caller /\ scheme' = scheme
    /\ pc'[p] = pc[p] /\ dir'[p] = dir[p] /\ sock'[p] = sock[p] /\ script'[p] = script[p]
    /\ agent'[p] = agent[p] /\ key'[p] = key[p] /\ proxy'[p] = proxy[p]
    /\ child'[p] = child[p] /\ ident'[p] = ident[p]

-----------------------------------------------------------------------------
\* An operation that is not concerned keeps its part of the invariant.
LEMMA UntouchedKeeps ==
    ASSUME NEW p \in Op, Untouched(p), Held(p), Shaped(p), Itself(p)
    PROVE  Held(p)' /\ Shaped(p)' /\ Itself(p)'
  <1>1. Held(p)'
    BY DEF Untouched, Held
  <1>2. Shaped(p)'
    BY DEF Untouched, Shaped
  <1>3. Itself(p)'
    BY DEF Untouched, Itself, Whole, Drops
  <1> QED  BY <1>1, <1>2, <1>3

\* Every action of one operation, Handler, Bridge, ProxyStops and Environment
\* taken together.
Step(o) == Handler(o) \/ Bridge(o) \/ ProxyStops(o) \/ Environment(o)

\* A caller has the fields of an identity.
LEMMA CallerFields ==
    ASSUME EscrowTypeOK, NEW o \in Op
    PROVE  /\ caller[o] \in [uid : Uid, gid : Gid, groups : SUBSET Gid]
           /\ caller[o] = [uid |-> caller[o].uid, gid |-> caller[o].gid,
                           groups |-> caller[o].groups]
           /\ caller[o].uid \in Uid /\ caller[o].gid \in Gid /\ caller[o].groups \in SUBSET Gid
           /\ ident[o] \in [uid : Uid, gid : Gid, groups : SUBSET Gid]
           /\ DaemonIdentity \in [uid : Uid, gid : Gid, groups : SUBSET Gid]
  BY EscrowAssumption DEF EscrowTypeOK, DaemonIdentity

\* One field of an identity, or of a file, is replaced.
LEMMA FieldReplaced ==
    /\ \A i \in [uid : Uid, gid : Gid, groups : SUBSET Gid] :
         /\ \A g \in SUBSET Gid :
              /\ [i EXCEPT !.groups = g] = [uid |-> i.uid, gid |-> i.gid, groups |-> g]
              /\ [i EXCEPT !.groups = g] \in [uid : Uid, gid : Gid, groups : SUBSET Gid]
         /\ \A g \in Gid :
              /\ [i EXCEPT !.gid = g] = [uid |-> i.uid, gid |-> g, groups |-> i.groups]
              /\ [i EXCEPT !.gid = g] \in [uid : Uid, gid : Gid, groups : SUBSET Gid]
         /\ \A u \in Uid :
              /\ [i EXCEPT !.uid = u] = [uid |-> u, gid |-> i.gid, groups |-> i.groups]
              /\ [i EXCEPT !.uid = u] \in [uid : Uid, gid : Gid, groups : SUBSET Gid]
    /\ \A f \in File :
         /\ \A m \in Mode : [f EXCEPT !.mode = m] \in File
         /\ \A g \in Gid : [f EXCEPT !.group = g] \in File
  BY DEF File

\* Where the guards start to be dropped, by kind of operation.
LEMMA ReleaseValue ==
    ASSUME EscrowTypeOK, NEW o \in Op
    PROVE  /\ daemon = "killed" => Release(o) = "killed"
           /\ daemon = "up" /\ scheme[o] = "ssh" => Release(o) = "abort"
           /\ daemon = "up" /\ scheme[o] = "https" => Release(o) = "unlink"
           /\ daemon = "up" /\ scheme[o] = "gh" => Release(o) = "ended"
           /\ scheme[o] \in {"ssh", "https", "gh"} /\ daemon \in {"up", "killed"}
  BY DEF EscrowTypeOK, Release, Scheme

\* What the error branch of each step of the start undoes.
LEMMA UndoValue ==
    /\ \A l \in {"group", "tempdir"} : Undo(l) = "ended"
    /\ \A l \in {"chmod", "chgrp", "agent"} : Undo(l) = "remove"
    /\ \A l \in {"poll", "add", "bind", "chmodproxy", "chgrpproxy"} : Undo(l) = "kill"
  BY DEF Undo


\* The type invariant, action by action.
LEMMA StepType ==
    ASSUME EscrowTypeOK, NEW o \in Op, Step(o), Held(o), Shaped(o)
    PROVE  EscrowTypeOK'
  <1>1. CASE BuildEnv(o)
    BY <1>1, CallerFields, EscrowAssumption DEF BuildEnv, At, Goto, EscrowTypeOK, File,
       Mode, PC, Starting, Scripting, Spawning, Hook, Dropping, Scheme, vars, opVars,
       fileVars, agentVars, proxyVars, childVars
  <1>2. CASE WriteScript(o)
    BY <1>2, CallerFields, EscrowAssumption DEF WriteScript, At, Goto, EscrowTypeOK,
       File, Mode, PC, Starting, Scripting, Spawning, Hook, Dropping, Scheme, vars,
       opVars, fileVars, agentVars, proxyVars, childVars
  <1>3. CASE ScriptMode(o)
    <2>1. script[o] \in File
      BY <1>3 DEF ScriptMode, At, Held, Shaped, Starting, Scripting
    <2>2. [script[o] EXCEPT !.mode = "0700"] \in File
      BY <2>1, FieldReplaced, EscrowAssumption DEF Mode
    <2>3. script' \in [Op -> File \cup {NoFile}]
      BY <1>3, <2>2 DEF ScriptMode, EscrowTypeOK
    <2> QED
      BY <1>3, <2>3 DEF ScriptMode, At, Goto, EscrowTypeOK, PC, Starting, Scripting,
         Spawning, Hook, vars, opVars, fileVars, agentVars, proxyVars, childVars
  <1>4. CASE ScriptFails(o)
    BY <1>4, CallerFields, EscrowAssumption DEF ScriptFails, At, Goto, EscrowTypeOK,
       File, Mode, PC, Starting, Scripting, Spawning, Hook, Dropping, Scheme, vars,
       opVars, fileVars, agentVars, proxyVars, childVars
  <1>5. CASE FindGroup(o)
    BY <1>5, CallerFields, EscrowAssumption DEF FindGroup, At, Goto, EscrowTypeOK, File,
       Mode, PC, Starting, Scripting, Spawning, Hook, Dropping, Scheme, vars, opVars,
       fileVars, agentVars, proxyVars, childVars
  <1>6. CASE MakeTempDir(o)
    BY <1>6, CallerFields, EscrowAssumption DEF MakeTempDir, At, Goto, EscrowTypeOK,
       File, Mode, PC, Starting, Scripting, Spawning, Hook, Dropping, Scheme, vars,
       opVars, fileVars, agentVars, proxyVars, childVars
  <1>7. CASE ChmodTempDir(o)
    <2>1. dir[o] \in File
      BY <1>7 DEF ChmodTempDir, At, Held, Shaped, Starting, Scripting
    <2>2. [dir[o] EXCEPT !.mode = "0710"] \in File
      BY <2>1, FieldReplaced, EscrowAssumption DEF Mode
    <2>3. dir' \in [Op -> File \cup {NoFile}]
      BY <1>7, <2>2 DEF ChmodTempDir, EscrowTypeOK
    <2> QED
      BY <1>7, <2>3 DEF ChmodTempDir, At, Goto, EscrowTypeOK, PC, Starting, Scripting,
         Spawning, Hook, vars, opVars, fileVars, agentVars, proxyVars, childVars
  <1>8. CASE ChgrpTempDir(o)
    <2>1. dir[o] \in File
      BY <1>8 DEF ChgrpTempDir, At, Held, Shaped, Starting, Scripting
    <2>2. [dir[o] EXCEPT !.group = ClientsGid] \in File
      BY <2>1, FieldReplaced, EscrowAssumption DEF Mode
    <2>3. dir' \in [Op -> File \cup {NoFile}]
      BY <1>8, <2>2 DEF ChgrpTempDir, EscrowTypeOK
    <2> QED
      BY <1>8, <2>3 DEF ChgrpTempDir, At, Goto, EscrowTypeOK, PC, Starting, Scripting,
         Spawning, Hook, vars, opVars, fileVars, agentVars, proxyVars, childVars
  <1>9. CASE SpawnAgent(o)
    BY <1>9, CallerFields, EscrowAssumption DEF SpawnAgent, At, Goto, EscrowTypeOK,
       File, Mode, PC, Starting, Scripting, Spawning, Hook, Dropping, Scheme, vars,
       opVars, fileVars, agentVars, proxyVars, childVars
  <1>10. CASE PollAgent(o)
    <2>1. polls' \in [Op -> 0..POLLS]
      <3>1. polls[o] + 1 \in 0..POLLS \/ polls' = polls
        BY <1>10, EscrowAssumption DEF PollAgent, EscrowTypeOK
      <3> QED  BY <1>10, <3>1 DEF PollAgent, EscrowTypeOK
    <2> QED
      BY <1>10, <2>1 DEF PollAgent, At, Goto, EscrowTypeOK, PC, Starting, vars, opVars,
         fileVars, agentVars, proxyVars, childVars
  <1>11. CASE AddKey(o)
    BY <1>11, CallerFields, EscrowAssumption DEF AddKey, At, Goto, EscrowTypeOK, File,
       Mode, PC, Starting, Scripting, Spawning, Hook, Dropping, Scheme, vars, opVars,
       fileVars, agentVars, proxyVars, childVars
  <1>12. CASE BindProxy(o)
    BY <1>12, CallerFields, EscrowAssumption DEF BindProxy, At, Goto, EscrowTypeOK,
       File, Mode, PC, Starting, Scripting, Spawning, Hook, Dropping, Scheme, vars,
       opVars, fileVars, agentVars, proxyVars, childVars
  <1>13. CASE ChmodProxy(o)
    <2>1. sock[o] \in File
      BY <1>13 DEF ChmodProxy, At, Held, Shaped, Starting, Scripting
    <2>2. [sock[o] EXCEPT !.mode = "0660"] \in File
      BY <2>1, FieldReplaced, EscrowAssumption DEF Mode
    <2>3. sock' \in [Op -> File \cup {NoFile}]
      BY <1>13, <2>2 DEF ChmodProxy, EscrowTypeOK
    <2> QED
      BY <1>13, <2>3 DEF ChmodProxy, At, Goto, EscrowTypeOK, PC, Starting, Scripting,
         Spawning, Hook, vars, opVars, fileVars, agentVars, proxyVars, childVars
  <1>14. CASE ChgrpProxy(o)
    <2>1. sock[o] \in File
      BY <1>14 DEF ChgrpProxy, At, Held, Shaped, Starting, Scripting
    <2>2. [sock[o] EXCEPT !.group = ClientsGid] \in File
      BY <2>1, FieldReplaced, EscrowAssumption DEF Mode
    <2>3. sock' \in [Op -> File \cup {NoFile}]
      BY <1>14, <2>2 DEF ChgrpProxy, EscrowTypeOK
    <2> QED
      BY <1>14, <2>3 DEF ChgrpProxy, At, Goto, EscrowTypeOK, PC, Starting, Scripting,
         Spawning, Hook, vars, opVars, fileVars, agentVars, proxyVars, childVars
  <1>15. CASE StartProxy(o)
    BY <1>15, CallerFields, EscrowAssumption DEF StartProxy, At, Goto, EscrowTypeOK,
       File, Mode, PC, Starting, Scripting, Spawning, Hook, Dropping, Scheme, vars,
       opVars, fileVars, agentVars, proxyVars, childVars
  <1>16. CASE StartFails(o)
    <2>1. pc' \in [Op -> PC]
      BY <1>16, UndoValue DEF StartFails, Starting, PC, Dropping, Goto, EscrowTypeOK
    <2>2. key' \in [Op -> BOOLEAN]
      BY <1>16 DEF StartFails, EscrowTypeOK
    <2> QED
      BY <1>16, <2>1, <2>2 DEF StartFails, EscrowTypeOK, vars, opVars, fileVars,
         agentVars, proxyVars, childVars
  <1>17. CASE Fork(o)
    BY <1>17, CallerFields, EscrowAssumption DEF Fork, At, Goto, EscrowTypeOK, File,
       Mode, PC, Starting, Scripting, Spawning, Hook, Dropping, Scheme, vars, opVars,
       fileVars, agentVars, proxyVars, childVars
  <1>18. CASE SetGroups(o)
    <2>1. [ident[o] EXCEPT !.groups = caller[o].groups] \in [uid : Uid, gid : Gid, groups : SUBSET Gid]
      BY FieldReplaced, CallerFields
    <2>2. ident' \in [Op -> [uid : Uid, gid : Gid, groups : SUBSET Gid]]
      BY <1>18, <2>1 DEF SetGroups, EscrowTypeOK
    <2> QED
      BY <1>18, <2>2 DEF SetGroups, Goto, EscrowTypeOK, PC, Spawning, Hook, vars,
         opVars, fileVars, agentVars, proxyVars, childVars
  <1>19. CASE SetResGid(o)
    <2>1. [ident[o] EXCEPT !.gid = caller[o].gid] \in [uid : Uid, gid : Gid, groups : SUBSET Gid]
      BY FieldReplaced, CallerFields
    <2>2. ident' \in [Op -> [uid : Uid, gid : Gid, groups : SUBSET Gid]]
      BY <1>19, <2>1 DEF SetResGid, EscrowTypeOK
    <2> QED
      BY <1>19, <2>2 DEF SetResGid, Goto, EscrowTypeOK, PC, Spawning, Hook, vars,
         opVars, fileVars, agentVars, proxyVars, childVars
  <1>20. CASE SetResUid(o)
    <2>1. [ident[o] EXCEPT !.uid = caller[o].uid] \in [uid : Uid, gid : Gid, groups : SUBSET Gid]
      BY FieldReplaced, CallerFields
    <2>2. ident' \in [Op -> [uid : Uid, gid : Gid, groups : SUBSET Gid]]
      BY <1>20, <2>1 DEF SetResUid, EscrowTypeOK
    <2> QED
      BY <1>20, <2>2 DEF SetResUid, Goto, EscrowTypeOK, PC, Spawning, Hook, vars,
         opVars, fileVars, agentVars, proxyVars, childVars
  <1>21. CASE Chdir(o)
    BY <1>21, CallerFields, EscrowAssumption DEF Chdir, At, Goto, EscrowTypeOK, File,
       Mode, PC, Starting, Scripting, Spawning, Hook, Dropping, Scheme, vars, opVars,
       fileVars, agentVars, proxyVars, childVars
  <1>22. CASE Exec(o)
    BY <1>22, CallerFields, EscrowAssumption DEF Exec, At, Goto, EscrowTypeOK, File,
       Mode, PC, Starting, Scripting, Spawning, Hook, Dropping, Scheme, vars, opVars,
       fileVars, agentVars, proxyVars, childVars
  <1>23. CASE SpawnFails(o)
    BY <1>23, ReleaseValue, CallerFields, EscrowAssumption DEF SpawnFails, At, Goto,
       EscrowTypeOK, File, Mode, PC, Starting, Scripting, Spawning, Hook, Dropping,
       Scheme, vars, opVars, fileVars, agentVars, proxyVars, childVars
  <1>24. CASE Collect(o)
    BY <1>24, ReleaseValue, CallerFields, EscrowAssumption DEF Collect, At, Goto,
       EscrowTypeOK, File, Mode, PC, Starting, Scripting, Spawning, Hook, Dropping,
       Scheme, vars, opVars, fileVars, agentVars, proxyVars, childVars
  <1>25. CASE AbortProxy(o)
    BY <1>25, CallerFields, EscrowAssumption DEF AbortProxy, At, Goto, EscrowTypeOK,
       File, Mode, PC, Starting, Scripting, Spawning, Hook, Dropping, Scheme, vars,
       opVars, fileVars, agentVars, proxyVars, childVars
  <1>26. CASE KillAgent(o)
    BY <1>26, CallerFields, EscrowAssumption DEF KillAgent, At, Goto, EscrowTypeOK,
       File, Mode, PC, Starting, Scripting, Spawning, Hook, Dropping, Scheme, vars,
       opVars, fileVars, agentVars, proxyVars, childVars
  <1>27. CASE RemoveDir(o)
    BY <1>27, CallerFields, EscrowAssumption DEF RemoveDir, At, Goto, EscrowTypeOK,
       File, Mode, PC, Starting, Scripting, Spawning, Hook, Dropping, Scheme, vars,
       opVars, fileVars, agentVars, proxyVars, childVars
  <1>28. CASE UnlinkScript(o)
    BY <1>28, CallerFields, EscrowAssumption DEF UnlinkScript, At, Goto, EscrowTypeOK,
       File, Mode, PC, Starting, Scripting, Spawning, Hook, Dropping, Scheme, vars,
       opVars, fileVars, agentVars, proxyVars, childVars
  <1>29. CASE BridgeConnects(o)
    BY <1>29, CallerFields, EscrowAssumption DEF BridgeConnects, At, Goto, EscrowTypeOK,
       File, Mode, PC, Starting, Scripting, Spawning, Hook, Dropping, Scheme, vars,
       opVars, fileVars, agentVars, proxyVars, childVars
  <1>30. CASE BridgeEnds(o)
    BY <1>30, CallerFields, EscrowAssumption DEF BridgeEnds, At, Goto, EscrowTypeOK,
       File, Mode, PC, Starting, Scripting, Spawning, Hook, Dropping, Scheme, vars,
       opVars, fileVars, agentVars, proxyVars, childVars
  <1>31. CASE ProxyStops(o)
    BY <1>31, CallerFields, EscrowAssumption DEF ProxyStops, At, Goto, EscrowTypeOK,
       File, Mode, PC, Starting, Scripting, Spawning, Hook, Dropping, Scheme, vars,
       opVars, fileVars, agentVars, proxyVars, childVars
  <1>32. CASE ChildExits(o)
    BY <1>32, CallerFields, EscrowAssumption DEF ChildExits, At, Goto, EscrowTypeOK,
       File, Mode, PC, Starting, Scripting, Spawning, Hook, Dropping, Scheme, vars,
       opVars, fileVars, agentVars, proxyVars, childVars
  <1>33. CASE Abandon(o)
    BY <1>33, ReleaseValue, CallerFields, EscrowAssumption DEF Abandon, At, Goto,
       EscrowTypeOK, File, Mode, PC, Starting, Scripting, Spawning, Hook, Dropping,
       Scheme, vars, opVars, fileVars, agentVars, proxyVars, childVars
  <1>34. CASE AgentListens(o)
    BY <1>34, CallerFields, EscrowAssumption DEF AgentListens, At, Goto, EscrowTypeOK,
       File, Mode, PC, Starting, Scripting, Spawning, Hook, Dropping, Scheme, vars,
       opVars, fileVars, agentVars, proxyVars, childVars
  <1>35. CASE AgentDies(o)
    BY <1>35, CallerFields, EscrowAssumption DEF AgentDies, At, Goto, EscrowTypeOK,
       File, Mode, PC, Starting, Scripting, Spawning, Hook, Dropping, Scheme, vars,
       opVars, fileVars, agentVars, proxyVars, childVars
  <1>36. CASE KeyExpires(o)
    BY <1>36, CallerFields, EscrowAssumption DEF KeyExpires, At, Goto, EscrowTypeOK,
       File, Mode, PC, Starting, Scripting, Spawning, Hook, Dropping, Scheme, vars,
       opVars, fileVars, agentVars, proxyVars, childVars
  <1>37. CASE ProxyAccepts(o)
    BY <1>37, CallerFields, EscrowAssumption DEF ProxyAccepts, At, Goto, EscrowTypeOK,
       File, Mode, PC, Starting, Scripting, Spawning, Hook, Dropping, Scheme, vars,
       opVars, fileVars, agentVars, proxyVars, childVars
  <1>38. CASE Sign(o)
    BY <1>38, CallerFields, EscrowAssumption DEF Sign, At, Goto, EscrowTypeOK, File,
       Mode, PC, Starting, Scripting, Spawning, Hook, Dropping, Scheme, vars, opVars,
       fileVars, agentVars, proxyVars, childVars
  <1>39. CASE ChildHangsUp(o)
    BY <1>39, CallerFields, EscrowAssumption DEF ChildHangsUp, At, Goto, EscrowTypeOK,
       File, Mode, PC, Starting, Scripting, Spawning, Hook, Dropping, Scheme, vars,
       opVars, fileVars, agentVars, proxyVars, childVars
  <1>40. QED
    BY <1>1, <1>2, <1>3, <1>4, <1>5, <1>6, <1>7, <1>8, <1>9, <1>10, <1>11, <1>12, <1>13,
       <1>14, <1>15, <1>16, <1>17, <1>18, <1>19, <1>20, <1>21, <1>22, <1>23, <1>24,
       <1>25, <1>26, <1>27, <1>28, <1>29, <1>30, <1>31, <1>32, <1>33, <1>34, <1>35,
       <1>36, <1>37, <1>38, <1>39 DEF Step, Handler, Bridge, Environment


\* A step of one operation concerns no other.
LEMMA StepLocal ==
    ASSUME EscrowTypeOK, NEW o \in Op, Step(o), NEW p \in Op, p # o
    PROVE  Untouched(p)
  <1>1. CASE BuildEnv(o)
    BY <1>1 DEF BuildEnv, At, Goto, EscrowTypeOK, Untouched, vars, opVars, fileVars,
       agentVars, proxyVars, childVars
  <1>2. CASE WriteScript(o)
    BY <1>2 DEF WriteScript, At, Goto, EscrowTypeOK, Untouched, vars, opVars, fileVars,
       agentVars, proxyVars, childVars
  <1>3. CASE ScriptMode(o)
    BY <1>3 DEF ScriptMode, At, Goto, EscrowTypeOK, Untouched, vars, opVars, fileVars,
       agentVars, proxyVars, childVars
  <1>4. CASE ScriptFails(o)
    BY <1>4 DEF ScriptFails, Scripting, At, Goto, EscrowTypeOK, Untouched, vars, opVars,
       fileVars, agentVars, proxyVars, childVars
  <1>5. CASE FindGroup(o)
    BY <1>5 DEF FindGroup, At, Goto, EscrowTypeOK, Untouched, vars, opVars, fileVars,
       agentVars, proxyVars, childVars
  <1>6. CASE MakeTempDir(o)
    BY <1>6 DEF MakeTempDir, At, Goto, EscrowTypeOK, Untouched, vars, opVars, fileVars,
       agentVars, proxyVars, childVars
  <1>7. CASE ChmodTempDir(o)
    BY <1>7 DEF ChmodTempDir, At, Goto, EscrowTypeOK, Untouched, vars, opVars, fileVars,
       agentVars, proxyVars, childVars
  <1>8. CASE ChgrpTempDir(o)
    BY <1>8 DEF ChgrpTempDir, At, Goto, EscrowTypeOK, Untouched, vars, opVars, fileVars,
       agentVars, proxyVars, childVars
  <1>9. CASE SpawnAgent(o)
    BY <1>9 DEF SpawnAgent, At, Goto, EscrowTypeOK, Untouched, vars, opVars, fileVars,
       agentVars, proxyVars, childVars
  <1>10. CASE PollAgent(o)
    BY <1>10 DEF PollAgent, At, Goto, EscrowTypeOK, Untouched, vars, opVars, fileVars,
       agentVars, proxyVars, childVars
  <1>11. CASE AddKey(o)
    BY <1>11 DEF AddKey, At, Goto, EscrowTypeOK, Untouched, vars, opVars, fileVars,
       agentVars, proxyVars, childVars
  <1>12. CASE BindProxy(o)
    BY <1>12 DEF BindProxy, At, Goto, EscrowTypeOK, Untouched, vars, opVars, fileVars,
       agentVars, proxyVars, childVars
  <1>13. CASE ChmodProxy(o)
    BY <1>13 DEF ChmodProxy, At, Goto, EscrowTypeOK, Untouched, vars, opVars, fileVars,
       agentVars, proxyVars, childVars
  <1>14. CASE ChgrpProxy(o)
    BY <1>14 DEF ChgrpProxy, At, Goto, EscrowTypeOK, Untouched, vars, opVars, fileVars,
       agentVars, proxyVars, childVars
  <1>15. CASE StartProxy(o)
    BY <1>15 DEF StartProxy, At, Goto, EscrowTypeOK, Untouched, vars, opVars, fileVars,
       agentVars, proxyVars, childVars
  <1>16. CASE StartFails(o)
    BY <1>16 DEF StartFails, Starting, At, Goto, EscrowTypeOK, Untouched, vars, opVars,
       fileVars, agentVars, proxyVars, childVars
  <1>17. CASE Fork(o)
    BY <1>17 DEF Fork, At, Goto, EscrowTypeOK, Untouched, vars, opVars, fileVars,
       agentVars, proxyVars, childVars
  <1>18. CASE SetGroups(o)
    BY <1>18 DEF SetGroups, At, Goto, EscrowTypeOK, Untouched, vars, opVars, fileVars,
       agentVars, proxyVars, childVars
  <1>19. CASE SetResGid(o)
    BY <1>19 DEF SetResGid, At, Goto, EscrowTypeOK, Untouched, vars, opVars, fileVars,
       agentVars, proxyVars, childVars
  <1>20. CASE SetResUid(o)
    BY <1>20 DEF SetResUid, At, Goto, EscrowTypeOK, Untouched, vars, opVars, fileVars,
       agentVars, proxyVars, childVars
  <1>21. CASE Chdir(o)
    BY <1>21 DEF Chdir, At, Goto, EscrowTypeOK, Untouched, vars, opVars, fileVars,
       agentVars, proxyVars, childVars
  <1>22. CASE Exec(o)
    BY <1>22 DEF Exec, At, Goto, EscrowTypeOK, Untouched, vars, opVars, fileVars,
       agentVars, proxyVars, childVars
  <1>23. CASE SpawnFails(o)
    BY <1>23 DEF SpawnFails, Spawning, Hook, At, Goto, EscrowTypeOK, Untouched, vars,
       opVars, fileVars, agentVars, proxyVars, childVars
  <1>24. CASE Collect(o)
    BY <1>24 DEF Collect, At, Goto, EscrowTypeOK, Untouched, vars, opVars, fileVars,
       agentVars, proxyVars, childVars
  <1>25. CASE AbortProxy(o)
    BY <1>25 DEF AbortProxy, At, Goto, EscrowTypeOK, Untouched, vars, opVars, fileVars,
       agentVars, proxyVars, childVars
  <1>26. CASE KillAgent(o)
    BY <1>26 DEF KillAgent, At, Goto, EscrowTypeOK, Untouched, vars, opVars, fileVars,
       agentVars, proxyVars, childVars
  <1>27. CASE RemoveDir(o)
    BY <1>27 DEF RemoveDir, At, Goto, EscrowTypeOK, Untouched, vars, opVars, fileVars,
       agentVars, proxyVars, childVars
  <1>28. CASE UnlinkScript(o)
    BY <1>28 DEF UnlinkScript, At, Goto, EscrowTypeOK, Untouched, vars, opVars,
       fileVars, agentVars, proxyVars, childVars
  <1>29. CASE BridgeConnects(o)
    BY <1>29 DEF BridgeConnects, At, Goto, EscrowTypeOK, Untouched, vars, opVars,
       fileVars, agentVars, proxyVars, childVars
  <1>30. CASE BridgeEnds(o)
    BY <1>30 DEF BridgeEnds, At, Goto, EscrowTypeOK, Untouched, vars, opVars, fileVars,
       agentVars, proxyVars, childVars
  <1>31. CASE ProxyStops(o)
    BY <1>31 DEF ProxyStops, At, Goto, EscrowTypeOK, Untouched, vars, opVars, fileVars,
       agentVars, proxyVars, childVars
  <1>32. CASE ChildExits(o)
    BY <1>32 DEF ChildExits, At, Goto, EscrowTypeOK, Untouched, vars, opVars, fileVars,
       agentVars, proxyVars, childVars
  <1>33. CASE Abandon(o)
    BY <1>33 DEF Abandon, At, Goto, EscrowTypeOK, Untouched, vars, opVars, fileVars,
       agentVars, proxyVars, childVars
  <1>34. CASE AgentListens(o)
    BY <1>34 DEF AgentListens, At, Goto, EscrowTypeOK, Untouched, vars, opVars,
       fileVars, agentVars, proxyVars, childVars
  <1>35. CASE AgentDies(o)
    BY <1>35 DEF AgentDies, At, Goto, EscrowTypeOK, Untouched, vars, opVars, fileVars,
       agentVars, proxyVars, childVars
  <1>36. CASE KeyExpires(o)
    BY <1>36 DEF KeyExpires, At, Goto, EscrowTypeOK, Untouched, vars, opVars, fileVars,
       agentVars, proxyVars, childVars
  <1>37. CASE ProxyAccepts(o)
    BY <1>37 DEF ProxyAccepts, At, Goto, EscrowTypeOK, Untouched, vars, opVars,
       fileVars, agentVars, proxyVars, childVars
  <1>38. CASE Sign(o)
    BY <1>38 DEF Sign, At, Goto, EscrowTypeOK, Untouched, vars, opVars, fileVars,
       agentVars, proxyVars, childVars
  <1>39. CASE ChildHangsUp(o)
    BY <1>39 DEF ChildHangsUp, At, Goto, EscrowTypeOK, Untouched, vars, opVars,
       fileVars, agentVars, proxyVars, childVars
  <1>40. QED
    BY <1>1, <1>2, <1>3, <1>4, <1>5, <1>6, <1>7, <1>8, <1>9, <1>10, <1>11, <1>12, <1>13,
       <1>14, <1>15, <1>16, <1>17, <1>18, <1>19, <1>20, <1>21, <1>22, <1>23, <1>24,
       <1>25, <1>26, <1>27, <1>28, <1>29, <1>30, <1>31, <1>32, <1>33, <1>34, <1>35,
       <1>36, <1>37, <1>38, <1>39 DEF Step, Handler, Bridge, Environment


\* What the operation that moved holds.
LEMMA StepHeld ==
    ASSUME EscrowTypeOK, NEW o \in Op, Step(o), Held(o), Itself(o)
    PROVE  Held(o)'
  <1>1. CASE BuildEnv(o)
    BY <1>1 DEF BuildEnv, At, Goto, EscrowTypeOK, Held, Making, Starting, Scripting,
       Spawning, Hook, Scheme, vars, opVars, fileVars, agentVars, proxyVars, childVars
  <1>2. CASE WriteScript(o)
    BY <1>2 DEF WriteScript, At, Goto, EscrowTypeOK, Held, Making, Starting, Scripting,
       Spawning, Hook, Scheme, vars, opVars, fileVars, agentVars, proxyVars, childVars
  <1>3. CASE ScriptMode(o)
    BY <1>3 DEF ScriptMode, At, Goto, EscrowTypeOK, Held, Making, Starting, Scripting,
       Spawning, Hook, Scheme, vars, opVars, fileVars, agentVars, proxyVars, childVars
  <1>4. CASE ScriptFails(o)
    BY <1>4 DEF ScriptFails, At, Goto, EscrowTypeOK, Held, Making, Starting, Scripting,
       Spawning, Hook, Scheme, vars, opVars, fileVars, agentVars, proxyVars, childVars
  <1>5. CASE FindGroup(o)
    BY <1>5 DEF FindGroup, At, Goto, EscrowTypeOK, Held, Making, Starting, Scripting,
       Spawning, Hook, Scheme, vars, opVars, fileVars, agentVars, proxyVars, childVars
  <1>6. CASE MakeTempDir(o)
    BY <1>6 DEF MakeTempDir, At, Goto, EscrowTypeOK, Held, Making, Starting, Scripting,
       Spawning, Hook, Scheme, vars, opVars, fileVars, agentVars, proxyVars, childVars
  <1>7. CASE ChmodTempDir(o)
    BY <1>7 DEF ChmodTempDir, At, Goto, EscrowTypeOK, Held, Making, Starting, Scripting,
       Spawning, Hook, Scheme, vars, opVars, fileVars, agentVars, proxyVars, childVars
  <1>8. CASE ChgrpTempDir(o)
    BY <1>8 DEF ChgrpTempDir, At, Goto, EscrowTypeOK, Held, Making, Starting, Scripting,
       Spawning, Hook, Scheme, vars, opVars, fileVars, agentVars, proxyVars, childVars
  <1>9. CASE SpawnAgent(o)
    BY <1>9 DEF SpawnAgent, At, Goto, EscrowTypeOK, Held, Making, Starting, Scripting,
       Spawning, Hook, Scheme, vars, opVars, fileVars, agentVars, proxyVars, childVars
  <1>10. CASE PollAgent(o)
    BY <1>10 DEF PollAgent, At, Goto, EscrowTypeOK, Held, Making, Starting, Scripting,
       Spawning, Hook, Scheme, vars, opVars, fileVars, agentVars, proxyVars, childVars
  <1>11. CASE AddKey(o)
    BY <1>11 DEF AddKey, At, Goto, EscrowTypeOK, Held, Making, Starting, Scripting,
       Spawning, Hook, Scheme, vars, opVars, fileVars, agentVars, proxyVars, childVars
  <1>12. CASE BindProxy(o)
    BY <1>12 DEF BindProxy, At, Goto, EscrowTypeOK, Held, Making, Starting, Scripting,
       Spawning, Hook, Scheme, vars, opVars, fileVars, agentVars, proxyVars, childVars
  <1>13. CASE ChmodProxy(o)
    BY <1>13 DEF ChmodProxy, At, Goto, EscrowTypeOK, Held, Making, Starting, Scripting,
       Spawning, Hook, Scheme, vars, opVars, fileVars, agentVars, proxyVars, childVars
  <1>14. CASE ChgrpProxy(o)
    BY <1>14 DEF ChgrpProxy, At, Goto, EscrowTypeOK, Held, Making, Starting, Scripting,
       Spawning, Hook, Scheme, vars, opVars, fileVars, agentVars, proxyVars, childVars
  <1>15. CASE StartProxy(o)
    BY <1>15 DEF StartProxy, At, Goto, EscrowTypeOK, Held, Making, Starting, Scripting,
       Spawning, Hook, Scheme, vars, opVars, fileVars, agentVars, proxyVars, childVars
  <1>16. CASE StartFails(o)
    BY <1>16, UndoValue DEF StartFails, At, Goto, EscrowTypeOK, Held, Making, Starting,
       Scripting, Spawning, Hook, Scheme, vars, opVars, fileVars, agentVars, proxyVars,
       childVars
  <1>17. CASE Fork(o)
    BY <1>17 DEF Fork, At, Goto, EscrowTypeOK, Held, Making, Starting, Scripting,
       Spawning, Hook, Scheme, vars, opVars, fileVars, agentVars, proxyVars, childVars
  <1>18. CASE SetGroups(o)
    BY <1>18 DEF SetGroups, At, Goto, EscrowTypeOK, Held, Making, Starting, Scripting,
       Spawning, Hook, Scheme, vars, opVars, fileVars, agentVars, proxyVars, childVars
  <1>19. CASE SetResGid(o)
    BY <1>19 DEF SetResGid, At, Goto, EscrowTypeOK, Held, Making, Starting, Scripting,
       Spawning, Hook, Scheme, vars, opVars, fileVars, agentVars, proxyVars, childVars
  <1>20. CASE SetResUid(o)
    BY <1>20 DEF SetResUid, At, Goto, EscrowTypeOK, Held, Making, Starting, Scripting,
       Spawning, Hook, Scheme, vars, opVars, fileVars, agentVars, proxyVars, childVars
  <1>21. CASE Chdir(o)
    BY <1>21 DEF Chdir, At, Goto, EscrowTypeOK, Held, Making, Starting, Scripting,
       Spawning, Hook, Scheme, vars, opVars, fileVars, agentVars, proxyVars, childVars
  <1>22. CASE Exec(o)
    BY <1>22 DEF Exec, At, Goto, EscrowTypeOK, Held, Making, Starting, Scripting,
       Spawning, Hook, Scheme, vars, opVars, fileVars, agentVars, proxyVars, childVars
  <1>23. CASE SpawnFails(o)
    BY <1>23, ReleaseValue DEF SpawnFails, At, Goto, EscrowTypeOK, Held, Making,
       Starting, Scripting, Spawning, Hook, Scheme, vars, opVars, fileVars, agentVars,
       proxyVars, childVars
  <1>24. CASE Collect(o)
    BY <1>24, ReleaseValue DEF Collect, At, Goto, EscrowTypeOK, Held, Making, Starting,
       Scripting, Spawning, Hook, Scheme, vars, opVars, fileVars, agentVars, proxyVars,
       childVars
  <1>25. CASE AbortProxy(o)
    BY <1>25 DEF AbortProxy, At, Goto, EscrowTypeOK, Held, Making, Starting, Scripting,
       Spawning, Hook, Scheme, vars, opVars, fileVars, agentVars, proxyVars, childVars
  <1>26. CASE KillAgent(o)
    BY <1>26 DEF KillAgent, At, Goto, EscrowTypeOK, Held, Making, Starting, Scripting,
       Spawning, Hook, Scheme, vars, opVars, fileVars, agentVars, proxyVars, childVars
  <1>27. CASE RemoveDir(o)
    BY <1>27 DEF RemoveDir, At, Goto, EscrowTypeOK, Held, Making, Starting, Scripting,
       Spawning, Hook, Scheme, vars, opVars, fileVars, agentVars, proxyVars, childVars
  <1>28. CASE UnlinkScript(o)
    BY <1>28 DEF UnlinkScript, At, Goto, EscrowTypeOK, Held, Making, Starting,
       Scripting, Spawning, Hook, Scheme, vars, opVars, fileVars, agentVars, proxyVars,
       childVars
  <1>29. CASE BridgeConnects(o)
    BY <1>29 DEF BridgeConnects, At, Goto, EscrowTypeOK, Held, Making, Starting,
       Scripting, Spawning, Hook, Scheme, vars, opVars, fileVars, agentVars, proxyVars,
       childVars
  <1>30. CASE BridgeEnds(o)
    BY <1>30 DEF BridgeEnds, At, Goto, EscrowTypeOK, Held, Making, Starting, Scripting,
       Spawning, Hook, Scheme, vars, opVars, fileVars, agentVars, proxyVars, childVars
  <1>31. CASE ProxyStops(o)
    BY <1>31 DEF ProxyStops, At, Goto, EscrowTypeOK, Held, Making, Starting, Scripting,
       Spawning, Hook, Scheme, vars, opVars, fileVars, agentVars, proxyVars, childVars
  <1>32. CASE ChildExits(o)
    BY <1>32 DEF ChildExits, At, Goto, EscrowTypeOK, Held, Making, Starting, Scripting,
       Spawning, Hook, Scheme, vars, opVars, fileVars, agentVars, proxyVars, childVars
  <1>33. CASE Abandon(o)
    BY <1>33, ReleaseValue DEF Abandon, At, Goto, EscrowTypeOK, Held, Making, Starting,
       Scripting, Spawning, Hook, Scheme, vars, opVars, fileVars, agentVars, proxyVars,
       childVars
  <1>34. CASE AgentListens(o)
    BY <1>34 DEF AgentListens, At, Goto, EscrowTypeOK, Held, Making, Starting,
       Scripting, Spawning, Hook, Scheme, vars, opVars, fileVars, agentVars, proxyVars,
       childVars
  <1>35. CASE AgentDies(o)
    BY <1>35 DEF AgentDies, At, Goto, EscrowTypeOK, Held, Making, Starting, Scripting,
       Spawning, Hook, Scheme, vars, opVars, fileVars, agentVars, proxyVars, childVars
  <1>36. CASE KeyExpires(o)
    BY <1>36 DEF KeyExpires, At, Goto, EscrowTypeOK, Held, Making, Starting, Scripting,
       Spawning, Hook, Scheme, vars, opVars, fileVars, agentVars, proxyVars, childVars
  <1>37. CASE ProxyAccepts(o)
    BY <1>37 DEF ProxyAccepts, At, Goto, EscrowTypeOK, Held, Making, Starting,
       Scripting, Spawning, Hook, Scheme, vars, opVars, fileVars, agentVars, proxyVars,
       childVars
  <1>38. CASE Sign(o)
    BY <1>38 DEF Sign, At, Goto, EscrowTypeOK, Held, Making, Starting, Scripting,
       Spawning, Hook, Scheme, vars, opVars, fileVars, agentVars, proxyVars, childVars
  <1>39. CASE ChildHangsUp(o)
    BY <1>39 DEF ChildHangsUp, At, Goto, EscrowTypeOK, Held, Making, Starting,
       Scripting, Spawning, Hook, Scheme, vars, opVars, fileVars, agentVars, proxyVars,
       childVars
  <1>40. QED
    BY <1>1, <1>2, <1>3, <1>4, <1>5, <1>6, <1>7, <1>8, <1>9, <1>10, <1>11, <1>12, <1>13,
       <1>14, <1>15, <1>16, <1>17, <1>18, <1>19, <1>20, <1>21, <1>22, <1>23, <1>24,
       <1>25, <1>26, <1>27, <1>28, <1>29, <1>30, <1>31, <1>32, <1>33, <1>34, <1>35,
       <1>36, <1>37, <1>38, <1>39 DEF Step, Handler, Bridge, Environment


\* The shape of its files.
LEMMA StepShaped ==
    ASSUME EscrowTypeOK, NEW o \in Op, Step(o), Held(o), Shaped(o)
    PROVE  Shaped(o)'
  <1>1. CASE BuildEnv(o)
    BY <1>1, EscrowAssumption DEF BuildEnv, At, Goto, EscrowTypeOK, Held, Shaped,
       Making, File, Mode, Starting, Scripting, Spawning, Hook, Scheme, vars, opVars,
       fileVars, agentVars, proxyVars, childVars
  <1>2. CASE WriteScript(o)
    BY <1>2, EscrowAssumption DEF WriteScript, At, Goto, EscrowTypeOK, Held, Shaped,
       Making, File, Mode, Starting, Scripting, Spawning, Hook, Scheme, vars, opVars,
       fileVars, agentVars, proxyVars, childVars
  <1>3. CASE ScriptMode(o)
    BY <1>3, EscrowAssumption DEF ScriptMode, At, Goto, EscrowTypeOK, Held, Shaped,
       Making, File, Mode, Starting, Scripting, Spawning, Hook, Scheme, vars, opVars,
       fileVars, agentVars, proxyVars, childVars
  <1>4. CASE ScriptFails(o)
    BY <1>4, EscrowAssumption DEF ScriptFails, At, Goto, EscrowTypeOK, Held, Shaped,
       Making, File, Mode, Starting, Scripting, Spawning, Hook, Scheme, vars, opVars,
       fileVars, agentVars, proxyVars, childVars
  <1>5. CASE FindGroup(o)
    BY <1>5, EscrowAssumption DEF FindGroup, At, Goto, EscrowTypeOK, Held, Shaped,
       Making, File, Mode, Starting, Scripting, Spawning, Hook, Scheme, vars, opVars,
       fileVars, agentVars, proxyVars, childVars
  <1>6. CASE MakeTempDir(o)
    BY <1>6, EscrowAssumption DEF MakeTempDir, At, Goto, EscrowTypeOK, Held, Shaped,
       Making, File, Mode, Starting, Scripting, Spawning, Hook, Scheme, vars, opVars,
       fileVars, agentVars, proxyVars, childVars
  <1>7. CASE ChmodTempDir(o)
    BY <1>7, EscrowAssumption DEF ChmodTempDir, At, Goto, EscrowTypeOK, Held, Shaped,
       Making, File, Mode, Starting, Scripting, Spawning, Hook, Scheme, vars, opVars,
       fileVars, agentVars, proxyVars, childVars
  <1>8. CASE ChgrpTempDir(o)
    BY <1>8, EscrowAssumption DEF ChgrpTempDir, At, Goto, EscrowTypeOK, Held, Shaped,
       Making, File, Mode, Starting, Scripting, Spawning, Hook, Scheme, vars, opVars,
       fileVars, agentVars, proxyVars, childVars
  <1>9. CASE SpawnAgent(o)
    BY <1>9, EscrowAssumption DEF SpawnAgent, At, Goto, EscrowTypeOK, Held, Shaped,
       Making, File, Mode, Starting, Scripting, Spawning, Hook, Scheme, vars, opVars,
       fileVars, agentVars, proxyVars, childVars
  <1>10. CASE PollAgent(o)
    BY <1>10, EscrowAssumption DEF PollAgent, At, Goto, EscrowTypeOK, Held, Shaped,
       Making, File, Mode, Starting, Scripting, Spawning, Hook, Scheme, vars, opVars,
       fileVars, agentVars, proxyVars, childVars
  <1>11. CASE AddKey(o)
    BY <1>11, EscrowAssumption DEF AddKey, At, Goto, EscrowTypeOK, Held, Shaped, Making,
       File, Mode, Starting, Scripting, Spawning, Hook, Scheme, vars, opVars, fileVars,
       agentVars, proxyVars, childVars
  <1>12. CASE BindProxy(o)
    BY <1>12, EscrowAssumption DEF BindProxy, At, Goto, EscrowTypeOK, Held, Shaped,
       Making, File, Mode, Starting, Scripting, Spawning, Hook, Scheme, vars, opVars,
       fileVars, agentVars, proxyVars, childVars
  <1>13. CASE ChmodProxy(o)
    BY <1>13, EscrowAssumption DEF ChmodProxy, At, Goto, EscrowTypeOK, Held, Shaped,
       Making, File, Mode, Starting, Scripting, Spawning, Hook, Scheme, vars, opVars,
       fileVars, agentVars, proxyVars, childVars
  <1>14. CASE ChgrpProxy(o)
    BY <1>14, EscrowAssumption DEF ChgrpProxy, At, Goto, EscrowTypeOK, Held, Shaped,
       Making, File, Mode, Starting, Scripting, Spawning, Hook, Scheme, vars, opVars,
       fileVars, agentVars, proxyVars, childVars
  <1>15. CASE StartProxy(o)
    BY <1>15, EscrowAssumption DEF StartProxy, At, Goto, EscrowTypeOK, Held, Shaped,
       Making, File, Mode, Starting, Scripting, Spawning, Hook, Scheme, vars, opVars,
       fileVars, agentVars, proxyVars, childVars
  <1>16. CASE StartFails(o)
    BY <1>16, UndoValue, EscrowAssumption DEF StartFails, At, Goto, EscrowTypeOK, Held,
       Shaped, Making, File, Mode, Starting, Scripting, Spawning, Hook, Scheme, vars,
       opVars, fileVars, agentVars, proxyVars, childVars
  <1>17. CASE Fork(o)
    BY <1>17, EscrowAssumption DEF Fork, At, Goto, EscrowTypeOK, Held, Shaped, Making,
       File, Mode, Starting, Scripting, Spawning, Hook, Scheme, vars, opVars, fileVars,
       agentVars, proxyVars, childVars
  <1>18. CASE SetGroups(o)
    BY <1>18, EscrowAssumption DEF SetGroups, At, Goto, EscrowTypeOK, Held, Shaped,
       Making, File, Mode, Starting, Scripting, Spawning, Hook, Scheme, vars, opVars,
       fileVars, agentVars, proxyVars, childVars
  <1>19. CASE SetResGid(o)
    BY <1>19, EscrowAssumption DEF SetResGid, At, Goto, EscrowTypeOK, Held, Shaped,
       Making, File, Mode, Starting, Scripting, Spawning, Hook, Scheme, vars, opVars,
       fileVars, agentVars, proxyVars, childVars
  <1>20. CASE SetResUid(o)
    BY <1>20, EscrowAssumption DEF SetResUid, At, Goto, EscrowTypeOK, Held, Shaped,
       Making, File, Mode, Starting, Scripting, Spawning, Hook, Scheme, vars, opVars,
       fileVars, agentVars, proxyVars, childVars
  <1>21. CASE Chdir(o)
    BY <1>21, EscrowAssumption DEF Chdir, At, Goto, EscrowTypeOK, Held, Shaped, Making,
       File, Mode, Starting, Scripting, Spawning, Hook, Scheme, vars, opVars, fileVars,
       agentVars, proxyVars, childVars
  <1>22. CASE Exec(o)
    BY <1>22, EscrowAssumption DEF Exec, At, Goto, EscrowTypeOK, Held, Shaped, Making,
       File, Mode, Starting, Scripting, Spawning, Hook, Scheme, vars, opVars, fileVars,
       agentVars, proxyVars, childVars
  <1>23. CASE SpawnFails(o)
    BY <1>23, ReleaseValue, EscrowAssumption DEF SpawnFails, At, Goto, EscrowTypeOK,
       Held, Shaped, Making, File, Mode, Starting, Scripting, Spawning, Hook, Scheme,
       vars, opVars, fileVars, agentVars, proxyVars, childVars
  <1>24. CASE Collect(o)
    BY <1>24, ReleaseValue, EscrowAssumption DEF Collect, At, Goto, EscrowTypeOK, Held,
       Shaped, Making, File, Mode, Starting, Scripting, Spawning, Hook, Scheme, vars,
       opVars, fileVars, agentVars, proxyVars, childVars
  <1>25. CASE AbortProxy(o)
    BY <1>25, EscrowAssumption DEF AbortProxy, At, Goto, EscrowTypeOK, Held, Shaped,
       Making, File, Mode, Starting, Scripting, Spawning, Hook, Scheme, vars, opVars,
       fileVars, agentVars, proxyVars, childVars
  <1>26. CASE KillAgent(o)
    BY <1>26, EscrowAssumption DEF KillAgent, At, Goto, EscrowTypeOK, Held, Shaped,
       Making, File, Mode, Starting, Scripting, Spawning, Hook, Scheme, vars, opVars,
       fileVars, agentVars, proxyVars, childVars
  <1>27. CASE RemoveDir(o)
    BY <1>27, EscrowAssumption DEF RemoveDir, At, Goto, EscrowTypeOK, Held, Shaped,
       Making, File, Mode, Starting, Scripting, Spawning, Hook, Scheme, vars, opVars,
       fileVars, agentVars, proxyVars, childVars
  <1>28. CASE UnlinkScript(o)
    BY <1>28, EscrowAssumption DEF UnlinkScript, At, Goto, EscrowTypeOK, Held, Shaped,
       Making, File, Mode, Starting, Scripting, Spawning, Hook, Scheme, vars, opVars,
       fileVars, agentVars, proxyVars, childVars
  <1>29. CASE BridgeConnects(o)
    BY <1>29, EscrowAssumption DEF BridgeConnects, At, Goto, EscrowTypeOK, Held, Shaped,
       Making, File, Mode, Starting, Scripting, Spawning, Hook, Scheme, vars, opVars,
       fileVars, agentVars, proxyVars, childVars
  <1>30. CASE BridgeEnds(o)
    BY <1>30, EscrowAssumption DEF BridgeEnds, At, Goto, EscrowTypeOK, Held, Shaped,
       Making, File, Mode, Starting, Scripting, Spawning, Hook, Scheme, vars, opVars,
       fileVars, agentVars, proxyVars, childVars
  <1>31. CASE ProxyStops(o)
    BY <1>31, EscrowAssumption DEF ProxyStops, At, Goto, EscrowTypeOK, Held, Shaped,
       Making, File, Mode, Starting, Scripting, Spawning, Hook, Scheme, vars, opVars,
       fileVars, agentVars, proxyVars, childVars
  <1>32. CASE ChildExits(o)
    BY <1>32, EscrowAssumption DEF ChildExits, At, Goto, EscrowTypeOK, Held, Shaped,
       Making, File, Mode, Starting, Scripting, Spawning, Hook, Scheme, vars, opVars,
       fileVars, agentVars, proxyVars, childVars
  <1>33. CASE Abandon(o)
    BY <1>33, ReleaseValue, EscrowAssumption DEF Abandon, At, Goto, EscrowTypeOK, Held,
       Shaped, Making, File, Mode, Starting, Scripting, Spawning, Hook, Scheme, vars,
       opVars, fileVars, agentVars, proxyVars, childVars
  <1>34. CASE AgentListens(o)
    BY <1>34, EscrowAssumption DEF AgentListens, At, Goto, EscrowTypeOK, Held, Shaped,
       Making, File, Mode, Starting, Scripting, Spawning, Hook, Scheme, vars, opVars,
       fileVars, agentVars, proxyVars, childVars
  <1>35. CASE AgentDies(o)
    BY <1>35, EscrowAssumption DEF AgentDies, At, Goto, EscrowTypeOK, Held, Shaped,
       Making, File, Mode, Starting, Scripting, Spawning, Hook, Scheme, vars, opVars,
       fileVars, agentVars, proxyVars, childVars
  <1>36. CASE KeyExpires(o)
    BY <1>36, EscrowAssumption DEF KeyExpires, At, Goto, EscrowTypeOK, Held, Shaped,
       Making, File, Mode, Starting, Scripting, Spawning, Hook, Scheme, vars, opVars,
       fileVars, agentVars, proxyVars, childVars
  <1>37. CASE ProxyAccepts(o)
    BY <1>37, EscrowAssumption DEF ProxyAccepts, At, Goto, EscrowTypeOK, Held, Shaped,
       Making, File, Mode, Starting, Scripting, Spawning, Hook, Scheme, vars, opVars,
       fileVars, agentVars, proxyVars, childVars
  <1>38. CASE Sign(o)
    BY <1>38, EscrowAssumption DEF Sign, At, Goto, EscrowTypeOK, Held, Shaped, Making,
       File, Mode, Starting, Scripting, Spawning, Hook, Scheme, vars, opVars, fileVars,
       agentVars, proxyVars, childVars
  <1>39. CASE ChildHangsUp(o)
    BY <1>39, EscrowAssumption DEF ChildHangsUp, At, Goto, EscrowTypeOK, Held, Shaped,
       Making, File, Mode, Starting, Scripting, Spawning, Hook, Scheme, vars, opVars,
       fileVars, agentVars, proxyVars, childVars
  <1>40. QED
    BY <1>1, <1>2, <1>3, <1>4, <1>5, <1>6, <1>7, <1>8, <1>9, <1>10, <1>11, <1>12, <1>13,
       <1>14, <1>15, <1>16, <1>17, <1>18, <1>19, <1>20, <1>21, <1>22, <1>23, <1>24,
       <1>25, <1>26, <1>27, <1>28, <1>29, <1>30, <1>31, <1>32, <1>33, <1>34, <1>35,
       <1>36, <1>37, <1>38, <1>39 DEF Step, Handler, Bridge, Environment


\* The identity of its child.
LEMMA StepItself ==
    ASSUME EscrowTypeOK, NEW o \in Op, Step(o), Itself(o)
    PROVE  Itself(o)'
  <1>1. CASE BuildEnv(o)
    BY <1>1, CallerFields DEF BuildEnv, At, Goto, EscrowTypeOK, Itself, Making, Whole,
       Drops, DaemonIdentity, Starting, Scripting, Spawning, Hook, Scheme, vars, opVars,
       fileVars, agentVars, proxyVars, childVars
  <1>2. CASE WriteScript(o)
    BY <1>2, CallerFields DEF WriteScript, At, Goto, EscrowTypeOK, Itself, Making,
       Whole, Drops, DaemonIdentity, Starting, Scripting, Spawning, Hook, Scheme, vars,
       opVars, fileVars, agentVars, proxyVars, childVars
  <1>3. CASE ScriptMode(o)
    BY <1>3, CallerFields DEF ScriptMode, At, Goto, EscrowTypeOK, Itself, Making, Whole,
       Drops, DaemonIdentity, Starting, Scripting, Spawning, Hook, Scheme, vars, opVars,
       fileVars, agentVars, proxyVars, childVars
  <1>4. CASE ScriptFails(o)
    BY <1>4, CallerFields DEF ScriptFails, At, Goto, EscrowTypeOK, Itself, Making,
       Whole, Drops, DaemonIdentity, Starting, Scripting, Spawning, Hook, Scheme, vars,
       opVars, fileVars, agentVars, proxyVars, childVars
  <1>5. CASE FindGroup(o)
    BY <1>5, CallerFields DEF FindGroup, At, Goto, EscrowTypeOK, Itself, Making, Whole,
       Drops, DaemonIdentity, Starting, Scripting, Spawning, Hook, Scheme, vars, opVars,
       fileVars, agentVars, proxyVars, childVars
  <1>6. CASE MakeTempDir(o)
    BY <1>6, CallerFields DEF MakeTempDir, At, Goto, EscrowTypeOK, Itself, Making,
       Whole, Drops, DaemonIdentity, Starting, Scripting, Spawning, Hook, Scheme, vars,
       opVars, fileVars, agentVars, proxyVars, childVars
  <1>7. CASE ChmodTempDir(o)
    BY <1>7, CallerFields DEF ChmodTempDir, At, Goto, EscrowTypeOK, Itself, Making,
       Whole, Drops, DaemonIdentity, Starting, Scripting, Spawning, Hook, Scheme, vars,
       opVars, fileVars, agentVars, proxyVars, childVars
  <1>8. CASE ChgrpTempDir(o)
    BY <1>8, CallerFields DEF ChgrpTempDir, At, Goto, EscrowTypeOK, Itself, Making,
       Whole, Drops, DaemonIdentity, Starting, Scripting, Spawning, Hook, Scheme, vars,
       opVars, fileVars, agentVars, proxyVars, childVars
  <1>9. CASE SpawnAgent(o)
    BY <1>9, CallerFields DEF SpawnAgent, At, Goto, EscrowTypeOK, Itself, Making, Whole,
       Drops, DaemonIdentity, Starting, Scripting, Spawning, Hook, Scheme, vars, opVars,
       fileVars, agentVars, proxyVars, childVars
  <1>10. CASE PollAgent(o)
    BY <1>10, CallerFields DEF PollAgent, At, Goto, EscrowTypeOK, Itself, Making, Whole,
       Drops, DaemonIdentity, Starting, Scripting, Spawning, Hook, Scheme, vars, opVars,
       fileVars, agentVars, proxyVars, childVars
  <1>11. CASE AddKey(o)
    BY <1>11, CallerFields DEF AddKey, At, Goto, EscrowTypeOK, Itself, Making, Whole,
       Drops, DaemonIdentity, Starting, Scripting, Spawning, Hook, Scheme, vars, opVars,
       fileVars, agentVars, proxyVars, childVars
  <1>12. CASE BindProxy(o)
    BY <1>12, CallerFields DEF BindProxy, At, Goto, EscrowTypeOK, Itself, Making, Whole,
       Drops, DaemonIdentity, Starting, Scripting, Spawning, Hook, Scheme, vars, opVars,
       fileVars, agentVars, proxyVars, childVars
  <1>13. CASE ChmodProxy(o)
    BY <1>13, CallerFields DEF ChmodProxy, At, Goto, EscrowTypeOK, Itself, Making,
       Whole, Drops, DaemonIdentity, Starting, Scripting, Spawning, Hook, Scheme, vars,
       opVars, fileVars, agentVars, proxyVars, childVars
  <1>14. CASE ChgrpProxy(o)
    BY <1>14, CallerFields DEF ChgrpProxy, At, Goto, EscrowTypeOK, Itself, Making,
       Whole, Drops, DaemonIdentity, Starting, Scripting, Spawning, Hook, Scheme, vars,
       opVars, fileVars, agentVars, proxyVars, childVars
  <1>15. CASE StartProxy(o)
    BY <1>15, CallerFields DEF StartProxy, At, Goto, EscrowTypeOK, Itself, Making,
       Whole, Drops, DaemonIdentity, Starting, Scripting, Spawning, Hook, Scheme, vars,
       opVars, fileVars, agentVars, proxyVars, childVars
  <1>16. CASE StartFails(o)
    BY <1>16, UndoValue, CallerFields DEF StartFails, At, Goto, EscrowTypeOK, Itself,
       Making, Whole, Drops, DaemonIdentity, Starting, Scripting, Spawning, Hook,
       Scheme, vars, opVars, fileVars, agentVars, proxyVars, childVars
  <1>17. CASE Fork(o)
    BY <1>17, CallerFields DEF Fork, At, Goto, EscrowTypeOK, Itself, Making, Whole,
       Drops, DaemonIdentity, Starting, Scripting, Spawning, Hook, Scheme, vars, opVars,
       fileVars, agentVars, proxyVars, childVars
  <1>18. CASE SetGroups(o)
    <2>1. ident'[o] = [ident[o] EXCEPT !.groups = caller[o].groups]
      BY <1>18 DEF SetGroups, EscrowTypeOK
    <2>2. ident'[o] = [uid |-> DaemonUid, gid |-> DaemonGid, groups |-> caller[o].groups]
      BY <1>18, <2>1, FieldReplaced, CallerFields DEF SetGroups, Itself, DaemonIdentity
    <2> QED
      BY <1>18, <2>2 DEF SetGroups, Goto, EscrowTypeOK, Itself, Making, Whole, Drops,
         Starting, Scripting, Hook, opVars
  <1>19. CASE SetResGid(o)
    BY <1>19, CallerFields DEF SetResGid, At, Goto, EscrowTypeOK, Itself, Making, Whole,
       Drops, DaemonIdentity, Starting, Scripting, Spawning, Hook, Scheme, vars, opVars,
       fileVars, agentVars, proxyVars, childVars
  <1>20. CASE SetResUid(o)
    BY <1>20, CallerFields DEF SetResUid, At, Goto, EscrowTypeOK, Itself, Making, Whole,
       Drops, DaemonIdentity, Starting, Scripting, Spawning, Hook, Scheme, vars, opVars,
       fileVars, agentVars, proxyVars, childVars
  <1>21. CASE Chdir(o)
    BY <1>21, CallerFields DEF Chdir, At, Goto, EscrowTypeOK, Itself, Making, Whole,
       Drops, DaemonIdentity, Starting, Scripting, Spawning, Hook, Scheme, vars, opVars,
       fileVars, agentVars, proxyVars, childVars
  <1>22. CASE Exec(o)
    BY <1>22, CallerFields DEF Exec, At, Goto, EscrowTypeOK, Itself, Making, Whole,
       Drops, DaemonIdentity, Starting, Scripting, Spawning, Hook, Scheme, vars, opVars,
       fileVars, agentVars, proxyVars, childVars
  <1>23. CASE SpawnFails(o)
    BY <1>23, ReleaseValue, CallerFields DEF SpawnFails, At, Goto, EscrowTypeOK, Itself,
       Making, Whole, Drops, DaemonIdentity, Starting, Scripting, Spawning, Hook,
       Scheme, vars, opVars, fileVars, agentVars, proxyVars, childVars
  <1>24. CASE Collect(o)
    BY <1>24, ReleaseValue, CallerFields DEF Collect, At, Goto, EscrowTypeOK, Itself,
       Making, Whole, Drops, DaemonIdentity, Starting, Scripting, Spawning, Hook,
       Scheme, vars, opVars, fileVars, agentVars, proxyVars, childVars
  <1>25. CASE AbortProxy(o)
    BY <1>25, CallerFields DEF AbortProxy, At, Goto, EscrowTypeOK, Itself, Making,
       Whole, Drops, DaemonIdentity, Starting, Scripting, Spawning, Hook, Scheme, vars,
       opVars, fileVars, agentVars, proxyVars, childVars
  <1>26. CASE KillAgent(o)
    BY <1>26, CallerFields DEF KillAgent, At, Goto, EscrowTypeOK, Itself, Making, Whole,
       Drops, DaemonIdentity, Starting, Scripting, Spawning, Hook, Scheme, vars, opVars,
       fileVars, agentVars, proxyVars, childVars
  <1>27. CASE RemoveDir(o)
    BY <1>27, CallerFields DEF RemoveDir, At, Goto, EscrowTypeOK, Itself, Making, Whole,
       Drops, DaemonIdentity, Starting, Scripting, Spawning, Hook, Scheme, vars, opVars,
       fileVars, agentVars, proxyVars, childVars
  <1>28. CASE UnlinkScript(o)
    BY <1>28, CallerFields DEF UnlinkScript, At, Goto, EscrowTypeOK, Itself, Making,
       Whole, Drops, DaemonIdentity, Starting, Scripting, Spawning, Hook, Scheme, vars,
       opVars, fileVars, agentVars, proxyVars, childVars
  <1>29. CASE BridgeConnects(o)
    BY <1>29, CallerFields DEF BridgeConnects, At, Goto, EscrowTypeOK, Itself, Making,
       Whole, Drops, DaemonIdentity, Starting, Scripting, Spawning, Hook, Scheme, vars,
       opVars, fileVars, agentVars, proxyVars, childVars
  <1>30. CASE BridgeEnds(o)
    BY <1>30, CallerFields DEF BridgeEnds, At, Goto, EscrowTypeOK, Itself, Making,
       Whole, Drops, DaemonIdentity, Starting, Scripting, Spawning, Hook, Scheme, vars,
       opVars, fileVars, agentVars, proxyVars, childVars
  <1>31. CASE ProxyStops(o)
    BY <1>31, CallerFields DEF ProxyStops, At, Goto, EscrowTypeOK, Itself, Making,
       Whole, Drops, DaemonIdentity, Starting, Scripting, Spawning, Hook, Scheme, vars,
       opVars, fileVars, agentVars, proxyVars, childVars
  <1>32. CASE ChildExits(o)
    BY <1>32, CallerFields DEF ChildExits, At, Goto, EscrowTypeOK, Itself, Making,
       Whole, Drops, DaemonIdentity, Starting, Scripting, Spawning, Hook, Scheme, vars,
       opVars, fileVars, agentVars, proxyVars, childVars
  <1>33. CASE Abandon(o)
    BY <1>33, ReleaseValue, CallerFields DEF Abandon, At, Goto, EscrowTypeOK, Itself,
       Making, Whole, Drops, DaemonIdentity, Starting, Scripting, Spawning, Hook,
       Scheme, vars, opVars, fileVars, agentVars, proxyVars, childVars
  <1>34. CASE AgentListens(o)
    BY <1>34, CallerFields DEF AgentListens, At, Goto, EscrowTypeOK, Itself, Making,
       Whole, Drops, DaemonIdentity, Starting, Scripting, Spawning, Hook, Scheme, vars,
       opVars, fileVars, agentVars, proxyVars, childVars
  <1>35. CASE AgentDies(o)
    BY <1>35, CallerFields DEF AgentDies, At, Goto, EscrowTypeOK, Itself, Making, Whole,
       Drops, DaemonIdentity, Starting, Scripting, Spawning, Hook, Scheme, vars, opVars,
       fileVars, agentVars, proxyVars, childVars
  <1>36. CASE KeyExpires(o)
    BY <1>36, CallerFields DEF KeyExpires, At, Goto, EscrowTypeOK, Itself, Making,
       Whole, Drops, DaemonIdentity, Starting, Scripting, Spawning, Hook, Scheme, vars,
       opVars, fileVars, agentVars, proxyVars, childVars
  <1>37. CASE ProxyAccepts(o)
    BY <1>37, CallerFields DEF ProxyAccepts, At, Goto, EscrowTypeOK, Itself, Making,
       Whole, Drops, DaemonIdentity, Starting, Scripting, Spawning, Hook, Scheme, vars,
       opVars, fileVars, agentVars, proxyVars, childVars
  <1>38. CASE Sign(o)
    BY <1>38, CallerFields DEF Sign, At, Goto, EscrowTypeOK, Itself, Making, Whole,
       Drops, DaemonIdentity, Starting, Scripting, Spawning, Hook, Scheme, vars, opVars,
       fileVars, agentVars, proxyVars, childVars
  <1>39. CASE ChildHangsUp(o)
    BY <1>39, CallerFields DEF ChildHangsUp, At, Goto, EscrowTypeOK, Itself, Making,
       Whole, Drops, DaemonIdentity, Starting, Scripting, Spawning, Hook, Scheme, vars,
       opVars, fileVars, agentVars, proxyVars, childVars
  <1>40. QED
    BY <1>1, <1>2, <1>3, <1>4, <1>5, <1>6, <1>7, <1>8, <1>9, <1>10, <1>11, <1>12, <1>13,
       <1>14, <1>15, <1>16, <1>17, <1>18, <1>19, <1>20, <1>21, <1>22, <1>23, <1>24,
       <1>25, <1>26, <1>27, <1>28, <1>29, <1>30, <1>31, <1>32, <1>33, <1>34, <1>35,
       <1>36, <1>37, <1>38, <1>39 DEF Step, Handler, Bridge, Environment

\* The kill of the daemon moves every operation at once.
LEMMA KillKeeps ==
    ASSUME EscrowInv, KillDaemon
    PROVE  EscrowInv'
  <1>1. EscrowTypeOK'
    BY DEF EscrowInv, EscrowTypeOK, KillDaemon, PC, fileVars, agentVars, childVars
  <1>2. ASSUME NEW o \in Op
        PROVE  Held(o)' /\ Shaped(o)' /\ Itself(o)'
    <2>1. Held(o)'
      BY DEF EscrowInv, EscrowTypeOK, KillDaemon, Held, Making, Starting, Scripting,
         Hook, fileVars, agentVars
    <2>2. Shaped(o)'
      BY DEF EscrowInv, EscrowTypeOK, KillDaemon, Shaped, Starting, Scripting, Spawning,
         Hook, fileVars
    <2>3. Itself(o)'
      BY DEF EscrowInv, EscrowTypeOK, KillDaemon, Itself, Making, Starting, Scripting,
         Hook, Whole, Drops, childVars
    <2> QED  BY <2>1, <2>2, <2>3
  <1> QED  BY <1>1, <1>2 DEF EscrowInv

\* The invariant holds from the start.
LEMMA InitEscrow ==
    ASSUME Init
    PROVE  EscrowInv
  <1>1. EscrowTypeOK
    BY EscrowAssumption DEF Init, EscrowTypeOK, PC, DaemonIdentity
  <1>2. ASSUME NEW o \in Op
        PROVE  Held(o) /\ Shaped(o) /\ Itself(o)
    BY DEF Init, Held, Shaped, Itself, Making, Starting, Scripting, Spawning, Hook
  <1> QED  BY <1>1, <1>2 DEF EscrowInv

\* And every step keeps it.
LEMMA NextEscrow ==
    ASSUME EscrowInv, [Next]_vars
    PROVE  EscrowInv'
  <1>1. CASE KillDaemon
    BY <1>1, KillKeeps
  <1>2. ASSUME NEW o \in Op, Step(o)
        PROVE  EscrowInv'
    <2>1. EscrowTypeOK'
      BY <1>2, StepType DEF EscrowInv
    <2>2. Held(o)' /\ Shaped(o)' /\ Itself(o)'
      BY <1>2, StepHeld, StepShaped, StepItself DEF EscrowInv
    <2>3. ASSUME NEW p \in Op, p # o
          PROVE  Held(p)' /\ Shaped(p)' /\ Itself(p)'
      BY <1>2, <2>3, StepLocal, UntouchedKeeps DEF EscrowInv
    <2> QED  BY <2>1, <2>2, <2>3 DEF EscrowInv
  <1>3. CASE UNCHANGED vars
    <2>1. EscrowTypeOK'
      BY <1>3 DEF EscrowInv, EscrowTypeOK, vars, opVars, fileVars, agentVars, proxyVars,
         childVars
    <2>2. ASSUME NEW p \in Op
          PROVE  Held(p)' /\ Shaped(p)' /\ Itself(p)'
      <3>1. Untouched(p)
        BY <1>3 DEF Untouched, vars, opVars, fileVars, agentVars, proxyVars, childVars
      <3> QED  BY <3>1, UntouchedKeeps DEF EscrowInv
    <2> QED  BY <2>1, <2>2 DEF EscrowInv
  <1> QED  BY <1>1, <1>2, <1>3 DEF Next, Step

-----------------------------------------------------------------------------
\* The inductive invariant, of which the properties are consequences.
THEOREM EscrowInvariant == Spec => []EscrowInv
  <1>1. Init => EscrowInv
    BY InitEscrow
  <1>2. EscrowInv /\ [Next]_vars => EscrowInv'
    BY NextEscrow
  <1> QED  BY <1>1, <1>2, PTL DEF Spec

\* Every variable of Escrow keeps its type, for all constants.
THEOREM EscrowTypeCorrect == Spec => []EscrowTypeOK
  <1>1. EscrowInv => EscrowTypeOK
    BY DEF EscrowInv
  <1> QED  BY <1>1, EscrowInvariant, PTL

\* However an operation ends, nothing of its credential is left behind
\* (SshAgentHandle::drop, the error branches of start_ssh_agent).
THEOREM EscrowLeavesNothing == Spec => []NothingLeft
  <1>1. EscrowInv => NothingLeft
    BY DEF EscrowInv, EscrowTypeOK, NothingLeft, Held
  <1> QED  BY <1>1, EscrowInvariant, PTL

\* A program runs as its caller or as the daemon, never as a mixture
\* (apply_privilege_drop).
THEOREM EscrowIdentityWhole == Spec => []IdentityWhole
  <1>1. EscrowInv => IdentityWhole
    BY DEF EscrowInv, IdentityWhole, Itself, Whole
  <1> QED  BY <1>1, EscrowInvariant, PTL

\* A running ssh child of a listed caller can connect to its proxy
\* (start_ssh_agent's modes and groups).
THEOREM EscrowReachable == Spec => []SshChildReachesProxy
  <1>1. EscrowInv => SshChildReachesProxy
    <2> SUFFICES ASSUME EscrowInv, NEW o \in Op,
                        scheme[o] = "ssh", child[o] = "running", pc[o] = "running",
                        ClientsGid \in caller[o].groups \cup {caller[o].gid} \/ ~Drops(o)
                 PROVE  MayConnect(o) /\ proxy[o] = "accepting"
      BY DEF SshChildReachesProxy
    <2>1. /\ dir[o] = [owner |-> DaemonUid, group |-> ClientsGid, mode |-> "0710"]
          /\ sock[o] = [owner |-> DaemonUid, group |-> ClientsGid, mode |-> "0660"]
          /\ proxy[o] = "accepting"
      BY DEF EscrowInv, Shaped
    <2>2. dir[o] # NoFile /\ sock[o] # NoFile
      BY <2>1, EscrowAssumption DEF File, Mode
    <2>3. /\ Rights("0710").owner = {"r", "w", "x"} /\ Rights("0710").group = {"x"}
          /\ Rights("0660").owner = {"r", "w"} /\ Rights("0660").group = {"r", "w"}
      BY DEF Rights
    <2>4. ident[o] = Whole(o)
      BY DEF EscrowInv, Itself
    <2>5. CASE Drops(o)
      BY <2>1, <2>2, <2>3, <2>4, <2>5 DEF Whole, MayConnect, MayUse
    <2>6. CASE ~Drops(o)
      BY <2>1, <2>2, <2>3, <2>4, <2>6 DEF Whole, MayConnect, MayUse, DaemonIdentity
    <2> QED  BY <2>1, <2>5, <2>6
  <1> QED  BY <1>1, EscrowInvariant, PTL

\* Nothing is signed for an operation that is over, whoever still runs
\* (SshAgentHandle::drop, run_agent_proxy).
THEOREM EscrowNoLateSignature == Spec => NoLateSignature
  <1>1. EscrowInv /\ [Next]_vars
          => [\A o \in Op : pc[o] = "ended" => signed'[o] = signed[o]]_vars
    <2> SUFFICES ASSUME EscrowInv, Next, NEW o \in Op, pc[o] = "ended"
                 PROVE  signed'[o] = signed[o]
      OBVIOUS
    <2>1. agent[o] # "listening"
      BY DEF EscrowInv, Held
    <2>2. ASSUME NEW p \in Op, Sign(p)
          PROVE  signed'[o] = signed[o]
      BY <2>1, <2>2 DEF Sign, EscrowInv, EscrowTypeOK
    <2>3. CASE KillDaemon
      BY <2>3 DEF KillDaemon, childVars
    <2>4. ASSUME NEW p \in Op, Step(p), ~Sign(p)
          PROVE  signed' = signed
      BY <2>4 DEF Step, Handler, Bridge, Environment, childVars, BuildEnv, WriteScript,
         ScriptMode, ScriptFails, FindGroup, MakeTempDir, ChmodTempDir, ChgrpTempDir,
         SpawnAgent, PollAgent, AddKey, BindProxy, ChmodProxy, ChgrpProxy, StartProxy,
         StartFails, Fork, SetGroups, SetResGid, SetResUid, Chdir, Exec, SpawnFails,
         Collect, AbortProxy, KillAgent, RemoveDir, UnlinkScript, BridgeConnects,
         BridgeEnds, ProxyStops, ChildExits, Abandon, AgentListens, AgentDies,
         KeyExpires, ProxyAccepts, ChildHangsUp
    <2> QED  BY <2>2, <2>3, <2>4 DEF Next, Step
  <1> QED  BY <1>1, EscrowInvariant, PTL DEF Spec, NoLateSignature

=============================================================================
