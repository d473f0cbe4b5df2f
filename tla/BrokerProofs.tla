---------------------------- MODULE BrokerProofs ----------------------------
(***************************************************************************)
(* Theorems about the broker for any set of connections, peers, requests,  *)
(* operator documents and bounds.                                          *)
(***************************************************************************)
EXTENDS Broker, PolicyLemmas, SequenceTheorems, FiniteSetTheorems

\* Only a privileged connection with operands that parse gets past the gates of
\* handle_allow; process_request only sees peers that were identified.
GrantGated ==
    \A c \in Conn :
        /\ pc[c] = "routing" => peer[c].known
        /\ pc[c] \in {"append_read", "append_rename", "store"} \/ c \in wrote =>
              Privileged(c) /\ OperandsParse(req[c].grant.operands)
        /\ pc[c] \in {"append_rename", "store"} => doc[c] # NoDoc

TypeInv == TypeOK /\ GrantGated

-----------------------------------------------------------------------------

\* The responses the broker composes are sequences of frames.
LEMMA FrameSequences ==
    /\ <<>> \in Seq(Frame)
    /\ <<"Denied">> \in Seq(Frame)
    /\ <<"Stdout", "Exit">> \in Seq(Frame)
    /\ <<"Stdout", "CredentialAudit", "Exit">> \in Seq(Frame)
BY DEF Frame

\* A prefix of a response is a response.
LEMMA PrefixType ==
    ASSUME NEW s \in Seq(Frame), NEW n \in 0..Len(s)
    PROVE  SubSeq(s, 1, n) \in Seq(Frame)
<1>1. \A i \in 1..n : s[i] \in Frame
  OBVIOUS
<1> QED
  BY <1>1

\* A grant whose operands parse yields a rule of the policy language.
LEMMA GrantRuleType ==
    ASSUME TypeOK, NEW c \in Conn, OperandsParse(req[c].grant.operands)
    PROVE  GrantRule(c) \in Rule /\ GrantRule(c).effect = "allow"
<1> DEFINE ops == req[c].grant.operands
<1>1. /\ req[c].grant \in Grant /\ ops \in Seq(Word)
  BY BrokerAssumption DEF TypeOK, WireRequest, Grant
<1>2. parse_operations_spec(ops) \in OperationsSpec
  BY <1>1 DEF parse_operations_spec, OperandsParse, OperationsSpec, is_known_role, RoleName
<1> QED
  BY <1>1, <1>2, GlobAssumption DEF GrantRule, Rule, Grant

\* The strengthened type invariant holds before the daemon is first started.
LEMMA TypeInit == Init => TypeInv
<1> SUFFICES ASSUME Init PROVE TypeInv
  OBVIOUS
<1>1. raced \in BOOLEAN
  BY Zenon DEF Init
<1>2. logFile \in Seq(Record) /\ logBuf \in Seq(Record)
  BY DEF Init
<1>3. frames \in [Conn -> Seq(Frame)] /\ out \in [Conn -> Seq(Frame)]
  BY FrameSequences DEF Init
<1>4. TypeOK
  BY <1>1, <1>2, <1>3, BrokerAssumption DEF Init, TypeOK, PC, AuditDecision
<1>5. GrantGated
  BY DEF Init, GrantGated
<1> QED
  BY <1>4, <1>5 DEF TypeInv

\* A task that hands a decision to the audit log keeps the types, whatever it
\* published on the way.
LEMMA AuditType ==
    ASSUME TypeInv, NEW c \in Conn, NEW decision \in AuditDecision,
           NEW l \in {"creds", "spawn", "reply"}, NEW fs \in Seq(Frame),
           Audit(c, decision, l, fs),
           handle' \in Document, published' \in SUBSET Conn, raced' \in BOOLEAN,
           doc' \in [Conn -> Document \cup {NoDoc}],
           \A d \in Conn \ {c} : doc'[d] = doc[d],
           UNCHANGED <<daemonVars, auditVars, disk, wrote, peer, req, snap, out, spawned>>
    PROVE  TypeInv'
<1> USE DEF TypeInv, TypeOK, GrantGated, Privileged, Audit, Goto, daemonVars, auditVars
<1>1. TypeOK'
  BY DEF PC
<1>2. GrantGated'
  OBVIOUS
<1> QED
  BY <1>1, <1>2

\* Every action of the daemon, its tasks and its environment keeps it.
LEMMA TypeNext == TypeInv /\ [Next]_vars => TypeInv'
<1> SUFFICES ASSUME TypeInv, [Next]_vars PROVE TypeInv'
  OBVIOUS
<1> USE DEF TypeInv, TypeOK, GrantGated, Privileged
<1>u. CASE UNCHANGED vars
  BY <1>u DEF vars, daemonVars, auditVars, policyVars, taskVars
<1>1. CASE Start
  BY <1>1 DEF Start, daemonVars, auditVars, policyVars, taskVars, PC
<1>2. CASE StartFails
  BY <1>2 DEF StartFails, daemonVars, auditVars, policyVars, taskVars, PC
<1>a. CASE StartAborts
  BY <1>a DEF StartAborts, daemonVars, auditVars, policyVars, taskVars, PC
<1>3. CASE Sigterm
  BY <1>3 DEF Sigterm, daemonVars, auditVars, policyVars, taskVars, PC
<1>4. CASE Shutdown
  <2>1. logFile \o logBuf \in Seq(Record) /\ <<>> \in Seq(Record)
    BY ConcatProperties
  <2>2. \/ logFile' = logFile \o logBuf /\ logBuf' = <<>> /\ auditErrors' = auditErrors
        \/ logFile' = logFile /\ logBuf' = logBuf /\ auditErrors' = auditErrors + 1
    BY <1>4 DEF Shutdown, FlushOk, FlushFails
  <2>3. logFile' \in Seq(Record) /\ logBuf' \in Seq(Record)
    BY <2>1, <2>2, Zenon
  <2>4. auditErrors' \in Nat
    BY <2>2
  <2> QED
    BY <1>4, <2>3, <2>4 DEF Shutdown, daemonVars, auditVars, policyVars, taskVars
<1>5. CASE Exit
  <2>1. logFile \o logBuf \in Seq(Record) /\ <<>> \in Seq(Record)
    BY ConcatProperties
  <2>2. \/ logFile' = logFile \o logBuf /\ logBuf' = <<>> /\ auditErrors' = auditErrors
        \/ logFile' = logFile /\ logBuf' = <<>> /\ auditErrors' = auditErrors + 1
    BY <1>5 DEF Exit, FlushOk
  <2>3. logFile' \in Seq(Record) /\ logBuf' \in Seq(Record)
    BY <2>1, <2>2, Zenon
  <2>4. auditErrors' \in Nat
    BY <2>2
  <2> QED
    BY <1>5, <2>3, <2>4 DEF Exit, daemonVars, auditVars, policyVars, taskVars
<1>6. CASE Crash
  BY <1>6 DEF Crash, daemonVars, auditVars, policyVars, taskVars, PC
<1>7. CASE RemoveStaleSocket
  BY <1>7 DEF RemoveStaleSocket, daemonVars, auditVars, policyVars, taskVars, PC
<1>8. ASSUME NEW d \in Edits, OperatorEdit(d) PROVE TypeInv'
  BY <1>8, BrokerAssumption DEF OperatorEdit, daemonVars, auditVars, policyVars, taskVars
<1>9. ASSUME NEW c \in Conn, Accept(c) PROVE TypeInv'
  BY <1>9, FrameSequences DEF Accept, Running, Routing, Goto, Respond, Audit, AuditDeny, daemonVars, auditVars, policyVars, taskVars, PC, AuditDecision
<1>10. ASSUME NEW c \in Conn, RefuseConnection(c) PROVE TypeInv'
  BY <1>10, FrameSequences DEF RefuseConnection, Running, Routing, Goto, Respond, Audit, AuditDeny, daemonVars, auditVars, policyVars, taskVars, PC, AuditDecision
<1>11. ASSUME NEW c \in Conn, ReadRequest(c) PROVE TypeInv'
  BY <1>11, FrameSequences DEF ReadRequest, Running, Routing, Goto, Respond, Audit, AuditDeny, daemonVars, auditVars, policyVars, taskVars, PC, AuditDecision
<1>12. ASSUME NEW c \in Conn, RouteExplain(c) \/ RoutePolicy(c) \/ RouteCheck(c) PROVE TypeInv'
  <2>1. CASE RouteExplain(c)
    BY <2>1, FrameSequences DEF RouteExplain, Running, Routing, Goto, Respond, daemonVars, auditVars, policyVars, PC
  <2>2. CASE RoutePolicy(c)
    BY <2>2, FrameSequences DEF RoutePolicy, Running, Routing, Goto, Respond, daemonVars, auditVars, policyVars, PC
  <2>3. CASE RouteCheck(c)
    BY <2>3, FrameSequences DEF RouteCheck, Running, Routing, Goto, Respond, daemonVars, auditVars, policyVars, PC
  <2> QED
    BY <1>12, <2>1, <2>2, <2>3
<1>13. ASSUME NEW c \in Conn, RoutePassthrough(c) PROVE TypeInv'
  BY <1>13, FrameSequences DEF RoutePassthrough, Running, Routing, Goto, Respond, Audit, AuditDeny, daemonVars, auditVars, policyVars, taskVars, PC, AuditDecision
<1>14. ASSUME NEW c \in Conn, RouteRefused(c) PROVE TypeInv'
  BY <1>14, FrameSequences DEF RouteRefused, Running, Routing, Goto, Respond, Audit, AuditDeny, daemonVars, auditVars, policyVars, taskVars, PC, AuditDecision
<1>15. ASSUME NEW c \in Conn, RouteEvaluated(c) PROVE TypeInv'
  <2>1. \/ Audit(c, "allow", "creds", <<>>)
        \/ Audit(c, "deny", "reply", <<"Denied">>)
    BY <1>15 DEF RouteEvaluated, AuditDeny
  <2>2. UNCHANGED <<daemonVars, auditVars, policyVars, peer, req, snap, doc, out, spawned>>
    BY <1>15 DEF RouteEvaluated
  <2> QED
    BY <2>1, <2>2, AuditType, FrameSequences DEF AuditDecision, policyVars
<1>16. ASSUME NEW c \in Conn, RouteAllow(c) PROVE TypeInv'
  <2>1. UNCHANGED <<daemonVars, auditVars, policyVars, peer, req, snap, doc, out, spawned>>
    BY <1>16 DEF RouteAllow
  <2>2. CASE Audit(c, "deny", "reply", <<"Denied">>)
    BY <2>1, <2>2, AuditType, FrameSequences DEF AuditDecision, policyVars
  <2>3. CASE ~Audit(c, "deny", "reply", <<"Denied">>)
    <3>1. /\ Goto(c, "append_read") /\ UNCHANGED <<pending, after, frames>>
          /\ Privileged(c) /\ OperandsParse(req[c].grant.operands)
      BY <1>16, <2>3 DEF RouteAllow, AuditDeny, GrantRefused, Routing
    <3> QED
      BY <2>1, <3>1 DEF daemonVars, auditVars, policyVars, taskVars, Goto, PC
  <2> QED
    BY <2>2, <2>3
<1>17. ASSUME NEW c \in Conn, WriteAudit(c) PROVE TypeInv'
  <2>1. AuditRecord(c) \in Record
    BY DEF AuditRecord, Record
  <2>2. logFile' \in Seq(Record) /\ logBuf' \in Seq(Record) /\ auditErrors' \in Nat
    BY <1>17, <2>1, ConcatProperties, AppendProperties DEF WriteAudit
  <2>3. /\ pc' = [pc EXCEPT ![c] = after[c]] /\ pending' = [pending EXCEPT ![c] = "none"]
        /\ UNCHANGED <<daemonVars, policyVars, peer, req, snap, doc, after, frames, out, spawned>>
    BY <1>17 DEF WriteAudit, AuditDone
  <2> QED
    BY <2>2, <2>3 DEF daemonVars, policyVars, PC, AuditDecision
<1>18. ASSUME NEW c \in Conn, WriteAuditFails(c) PROVE TypeInv'
  <2>1. AuditRecord(c) \in Record
    BY DEF AuditRecord, Record
  <2>2. logFile' \in Seq(Record) /\ logBuf' \in Seq(Record) /\ auditErrors' \in Nat
    <3>1. Append(logBuf, AuditRecord(c)) \in Seq(Record)
      BY <2>1, AppendProperties
    <3>2. logBuf' = Append(logBuf, AuditRecord(c)) \/ logBuf' = logBuf
      BY <1>18 DEF WriteAuditFails
    <3>3. logBuf' \in Seq(Record)
      BY <3>1, <3>2, Zenon
    <3> QED
      BY <1>18, <3>3 DEF WriteAuditFails
  <2>3. /\ pc' = [pc EXCEPT ![c] = after[c]] /\ pending' = [pending EXCEPT ![c] = "none"]
        /\ UNCHANGED <<daemonVars, policyVars, peer, req, snap, doc, after, frames, out, spawned>>
    BY <1>18 DEF WriteAuditFails, AuditDone
  <2> QED
    BY <2>2, <2>3 DEF daemonVars, policyVars, PC, AuditDecision
<1>19. ASSUME NEW c \in Conn, CredentialsFail(c) PROVE TypeInv'
  BY <1>19, FrameSequences DEF CredentialsFail, Running, Routing, Goto, Respond, Audit, AuditDeny, daemonVars, auditVars, policyVars, taskVars, PC, AuditDecision
<1>20. ASSUME NEW c \in Conn, PrepareChild(c) PROVE TypeInv'
  BY <1>20, FrameSequences DEF PrepareChild, Running, Routing, Goto, Respond, Audit, AuditDeny, daemonVars, auditVars, policyVars, taskVars, PC, AuditDecision
<1>21. ASSUME NEW c \in Conn, LoadPassthroughCredentials(c) PROVE TypeInv'
  BY <1>21, FrameSequences DEF LoadPassthroughCredentials, Running, Routing, Goto, Respond, Audit, AuditDeny, daemonVars, auditVars, policyVars, taskVars, PC, AuditDecision
<1>22. ASSUME NEW c \in Conn, Spawn(c) PROVE TypeInv'
  BY <1>22, FrameSequences DEF Spawn, Running, Routing, Goto, Respond, Audit, AuditDeny, daemonVars, auditVars, policyVars, taskVars, PC, AuditDecision
<1>23. ASSUME NEW c \in Conn, SpawnFails(c) PROVE TypeInv'
  BY <1>23, FrameSequences DEF SpawnFails, Running, Routing, Goto, Respond, Audit, AuditDeny, daemonVars, auditVars, policyVars, taskVars, PC, AuditDecision
<1>24. ASSUME NEW c \in Conn, ChildExits(c) PROVE TypeInv'
  BY <1>24, FrameSequences DEF ChildExits, Running, Routing, Goto, Respond, Audit, AuditDeny, daemonVars, auditVars, policyVars, taskVars, PC, AuditDecision
<1>25. ASSUME NEW c \in Conn, AppendRead(c) PROVE TypeInv'
  <2>1. Privileged(c) /\ OperandsParse(req[c].grant.operands)
    BY <1>25 DEF AppendRead
  <2>2. WithRule(disk, GrantRule(c)) \in Document
    BY <2>1, GrantRuleType, WithRuleType
  <2>3. raced' \in BOOLEAN
    BY <1>25, Zenon DEF AppendRead
  <2>4. UNCHANGED <<daemonVars, auditVars, handle, disk, wrote, published,
                    peer, req, snap, out, spawned>>
    BY <1>25 DEF AppendRead
  <2>5. CASE Audit(c, "deny", "reply", <<"Denied">>) /\ UNCHANGED doc
    BY <2>3, <2>4, <2>5, AuditType, FrameSequences DEF AuditDecision
  <2>6. CASE ~(Audit(c, "deny", "reply", <<"Denied">>) /\ UNCHANGED doc)
    <3>1. /\ doc' = [doc EXCEPT ![c] = WithRule(disk, GrantRule(c))]
          /\ Goto(c, "append_rename") /\ UNCHANGED <<pending, after, frames>>
      BY <1>25, <2>6 DEF AppendRead, AuditDeny
    <3> QED
      BY <2>1, <2>2, <2>3, <2>4, <3>1, BrokerAssumption DEF daemonVars, auditVars, Goto, PC
  <2> QED
    BY <2>5, <2>6
<1>26. ASSUME NEW c \in Conn, AppendRename(c) PROVE TypeInv'
  BY <1>26, FrameSequences DEF AppendRename, Running, Routing, Goto, Respond, Audit, AuditDeny, daemonVars, auditVars, policyVars, taskVars, PC, AuditDecision
<1>27. ASSUME NEW c \in Conn, AppendFails(c) PROVE TypeInv'
  BY <1>27, FrameSequences DEF AppendFails, Running, Routing, Goto, Respond, Audit, AuditDeny, daemonVars, auditVars, policyVars, taskVars, PC, AuditDecision
<1>28. ASSUME NEW c \in Conn, StoreHandle(c) PROVE TypeInv'
  <2>1. doc[c] \in Document
    BY <1>28 DEF StoreHandle
  <2>2. /\ handle' \in Document /\ published' \in SUBSET Conn
        /\ doc' = [doc EXCEPT ![c] = NoDoc]
        /\ UNCHANGED <<daemonVars, auditVars, disk, wrote, raced, peer, req, snap, out, spawned>>
    BY <1>28, <2>1 DEF StoreHandle
  <2>3. \/ Audit(c, "allow", "reply", <<"Stdout", "Exit">>)
        \/ Audit(c, "deny", "reply", <<"Denied">>)
    BY <1>28 DEF StoreHandle, AuditDeny
  <2> QED
    BY <2>2, <2>3, AuditType, FrameSequences DEF AuditDecision
<1>29. ASSUME NEW c \in Conn, Reply(c) PROVE TypeInv'
  BY <1>29, FrameSequences DEF Reply, Running, Routing, Goto, Respond, Audit, AuditDeny, daemonVars, auditVars, policyVars, taskVars, PC, AuditDecision
<1>30. ASSUME NEW c \in Conn, Connect(c) PROVE TypeInv'
  BY <1>30, FrameSequences DEF Connect, Running, Routing, Goto, Respond, Audit, AuditDeny, daemonVars, auditVars, policyVars, taskVars, PC, AuditDecision
<1>31. ASSUME NEW c \in Conn, Cancel(c) PROVE TypeInv'
  BY <1>31, FrameSequences DEF Cancel, Running, Routing, Goto, Respond, Audit, AuditDeny, daemonVars, auditVars, policyVars, taskVars, PC, AuditDecision
<1> QED
  BY <1>1, <1>2, <1>a, <1>3, <1>4, <1>5, <1>6, <1>7, <1>8, <1>9, <1>10, <1>11, <1>12, <1>13, <1>14, <1>15, <1>16, <1>17, <1>18, <1>19, <1>20, <1>21, <1>22, <1>23, <1>24, <1>25, <1>26, <1>27, <1>28, <1>29, <1>30, <1>31, <1>u DEF Next, Lifecycle, TaskStep, PeerStep

\* Every variable of the daemon keeps its type in every reachable state, for any
\* number of connections, faults and hand edits.
THEOREM TypeCorrect == Spec => []TypeOK
<1>1. Spec => []TypeInv
  BY TypeInit, TypeNext, PTL DEF Spec
<1> QED
  BY <1>1, PTL DEF TypeInv

-----------------------------------------------------------------------------
(* Where the rules in force come from. *)

\* The strengthening: what an `allow` in progress is about to install, and then
\* to publish, is grown from an operator's document by granted rules and its own.
PolicyGrown ==
    /\ Grown(disk, Granted) /\ Grown(handle, Granted)
    /\ \A c \in Conn :
          /\ snap[c] # NoDoc => Grown(snap[c], Granted)
          /\ pc[c] = "append_rename" => Grown(doc[c], Granted \cup {GrantRule(c)})
          /\ pc[c] = "store" => Grown(doc[c], Granted)

\* A document grown by some grants is grown by any larger set of them.
LEMMA GrownMonotone ==
    ASSUME NEW d, NEW R, NEW S, R \subseteq S, Grown(d, R)
    PROVE  Grown(d, S)
BY DEF Grown

\* An operator's own document is grown by no grant at all.
LEMMA OriginGrown ==
    ASSUME NEW o \in Origins, NEW R
    PROVE  Grown(o, R)
<1>1. o \in Document /\ Len(o.rules) \in Nat
  BY BrokerAssumption DEF Origins, Document
<1> QED
  BY <1>1 DEF Grown

\* One pushed rule: the document grows by that rule.
LEMMA GrownAppend ==
    ASSUME NEW d \in Document, NEW rule \in Rule, NEW R, Grown(d, R)
    PROVE  Grown(WithRule(d, rule), R \cup {rule})
<1> DEFINE e == WithRule(d, rule)
<1>1. e.roles = d.roles /\ e.rules = Append(d.rules, rule)
  BY WithRuleType
<1>2. PICK o \in Origins :
        /\ d.roles = o.roles
        /\ Len(o.rules) <= Len(d.rules)
        /\ \A i \in 1..Len(o.rules) : d.rules[i] = o.rules[i]
        /\ \A i \in (Len(o.rules) + 1)..Len(d.rules) : d.rules[i] \in R
  BY DEF Grown
<1>3. /\ Len(d.rules) \in Nat /\ Len(o.rules) \in Nat
      /\ Len(e.rules) = Len(d.rules) + 1
      /\ \A i \in 1..Len(d.rules) : e.rules[i] = d.rules[i]
      /\ e.rules[Len(d.rules) + 1] = rule
  BY <1>1, BrokerAssumption DEF Origins, Document
<1> HIDE DEF e
<1>4. /\ Len(o.rules) <= Len(e.rules)
      /\ \A i \in 1..Len(o.rules) : e.rules[i] = o.rules[i]
      /\ \A i \in (Len(o.rules) + 1)..Len(e.rules) : e.rules[i] \in R \cup {rule}
  BY <1>2, <1>3
<1>5. Grown(e, R \cup {rule})
  BY <1>1, <1>2, <1>4 DEF Grown
<1> QED
  BY <1>5 DEF e

\* The granted rules only ever become more.
LEMMA GrantedMonotone ==
    ASSUME wrote \subseteq wrote', req' = req
    PROVE  Granted \subseteq Granted'
BY DEF Granted, GrantRule

\* A step that leaves the policy, the snapshots and the documents alone, takes
\* no task to its rename or its store, and none from its store if the daemon
\* goes on serving.
Bystander ==
    /\ UNCHANGED <<handle, disk, wrote, published, raced, snap, doc, req>>
    /\ \A c \in Conn : pc'[c] \in {"append_rename", "store"} => pc'[c] = pc[c]
    /\ daemon' = "serving" =>
          /\ daemon = "serving"
          /\ \A c \in Conn : pc[c] = "store" => pc'[c] = "store"

\* A step that touches none of the documents keeps their growth.
LEMMA BystanderGrown == PolicyGrown /\ Bystander => PolicyGrown'
<1> SUFFICES ASSUME PolicyGrown, Bystander PROVE PolicyGrown'
  OBVIOUS
<1>1. Granted' = Granted /\ \A c \in Conn : GrantRule(c)' = GrantRule(c)
  BY DEF Bystander, Granted, GrantRule
<1> QED
  BY <1>1 DEF PolicyGrown, Bystander

\* All steps but the seven that start the daemon, edit or read the file, take a
\* snapshot, rename, give up and publish are of that kind.
LEMMA Bystanders ==
    ASSUME TypeInv, [Next]_vars
    PROVE  \/ Bystander \/ Start \/ \E d \in Edits : OperatorEdit(d)
           \/ \E c \in Conn : \/ Accept(c) \/ AppendRead(c) \/ AppendRename(c)
                               \/ AppendFails(c) \/ StoreHandle(c)
<1> USE DEF TypeInv, TypeOK, Bystander, daemonVars, policyVars, taskVars, Goto
<1>u. CASE UNCHANGED vars
  BY <1>u DEF vars
<1>1. CASE StartFails
  BY <1>1 DEF StartFails
<1>a. CASE StartAborts
  BY <1>a DEF StartAborts
<1>2. CASE Sigterm
  BY <1>2 DEF Sigterm
<1>3. CASE Shutdown
  BY <1>3 DEF Shutdown
<1>4. CASE Exit
  BY <1>4 DEF Exit
<1>5. CASE Crash
  BY <1>5 DEF Crash
<1>6. CASE RemoveStaleSocket
  BY <1>6 DEF RemoveStaleSocket
<1>7. ASSUME NEW c \in Conn, Connect(c) PROVE Bystander
  BY <1>7 DEF Connect
<1>8. ASSUME NEW c \in Conn, Cancel(c) PROVE Bystander
  BY <1>8 DEF Cancel
<1>9. ASSUME NEW c \in Conn, RefuseConnection(c) PROVE Bystander
  BY <1>9 DEF RefuseConnection, Respond
<1>10. ASSUME NEW c \in Conn, ReadRequest(c) PROVE Bystander
  BY <1>10 DEF ReadRequest
<1>11. ASSUME NEW c \in Conn, RouteExplain(c) \/ RoutePolicy(c) \/ RouteCheck(c) PROVE Bystander
  BY <1>11 DEF RouteExplain, RoutePolicy, RouteCheck, Routing, Respond
<1>12. ASSUME NEW c \in Conn, RoutePassthrough(c) PROVE Bystander
  BY <1>12 DEF RoutePassthrough, Routing
<1>13. ASSUME NEW c \in Conn, RouteRefused(c) PROVE Bystander
  BY <1>13 DEF RouteRefused, Routing, Audit, AuditDeny
<1>14. ASSUME NEW c \in Conn, RouteEvaluated(c) PROVE Bystander
  BY <1>14 DEF RouteEvaluated, Routing, Audit, AuditDeny
<1>15. ASSUME NEW c \in Conn, RouteAllow(c) PROVE Bystander
  BY <1>15 DEF RouteAllow, Routing, Audit, AuditDeny
<1>16. ASSUME NEW c \in Conn, WriteAudit(c) PROVE Bystander
  BY <1>16 DEF WriteAudit, AuditDone
<1>17. ASSUME NEW c \in Conn, WriteAuditFails(c) PROVE Bystander
  BY <1>17 DEF WriteAuditFails, AuditDone
<1>18. ASSUME NEW c \in Conn, CredentialsFail(c) PROVE Bystander
  BY <1>18 DEF CredentialsFail, Respond
<1>19. ASSUME NEW c \in Conn, PrepareChild(c) PROVE Bystander
  BY <1>19 DEF PrepareChild
<1>20. ASSUME NEW c \in Conn, LoadPassthroughCredentials(c) PROVE Bystander
  BY <1>20 DEF LoadPassthroughCredentials, Audit
<1>21. ASSUME NEW c \in Conn, Spawn(c) PROVE Bystander
  BY <1>21 DEF Spawn
<1>22. ASSUME NEW c \in Conn, SpawnFails(c) PROVE Bystander
  BY <1>22 DEF SpawnFails, Respond
<1>23. ASSUME NEW c \in Conn, ChildExits(c) PROVE Bystander
  BY <1>23 DEF ChildExits, Respond
<1>24. ASSUME NEW c \in Conn, Reply(c) PROVE Bystander
  BY <1>24 DEF Reply
<1> QED
  BY <1>u, <1>1, <1>2, <1>a, <1>3, <1>4, <1>5, <1>6, <1>7, <1>8, <1>9, <1>10, <1>11, <1>12, <1>13, <1>14, <1>15, <1>16, <1>17, <1>18, <1>19, <1>20, <1>21, <1>22, <1>23, <1>24 DEF Next, Lifecycle, TaskStep, PeerStep

\* The installed policy is an operator's document.
LEMMA GrownInit == Init => PolicyGrown
<1> SUFFICES ASSUME Init PROVE PolicyGrown
  OBVIOUS
<1>1. Grown(InitialPolicy, Granted)
  BY OriginGrown DEF Origins
<1> QED
  BY <1>1 DEF Init, PolicyGrown

\* Reading, renaming, storing and editing documents keep every one of them grown.
LEMMA GrownNext == TypeInv /\ PolicyGrown /\ [Next]_vars => PolicyGrown'
<1> SUFFICES ASSUME TypeInv, PolicyGrown, [Next]_vars PROVE PolicyGrown'
  OBVIOUS
<1> USE DEF TypeInv, TypeOK, GrantGated, PolicyGrown
<1>1. CASE Bystander
  BY <1>1, BystanderGrown
<1>2. CASE Start
  <2>1. Granted' = Granted /\ \A c \in Conn : GrantRule(c)' = GrantRule(c)
    BY <1>2 DEF Start, Granted, GrantRule, taskVars
  <2> QED
    BY <1>2, <2>1 DEF Start, taskVars
<1>3. ASSUME NEW d \in Edits, OperatorEdit(d) PROVE PolicyGrown'
  <2>1. Granted' = Granted /\ \A c \in Conn : GrantRule(c)' = GrantRule(c)
    BY <1>3 DEF OperatorEdit, Granted, GrantRule, taskVars
  <2>2. Grown(d, Granted)
    BY OriginGrown DEF Origins
  <2> QED
    BY <1>3, <2>1, <2>2 DEF OperatorEdit, taskVars
<1>4. ASSUME NEW c \in Conn, Accept(c) PROVE PolicyGrown'
  <2>1. Granted' = Granted /\ \A d \in Conn : GrantRule(d)' = GrantRule(d)
    BY <1>4 DEF Accept, Granted, GrantRule, policyVars
  <2> QED
    BY <1>4, <2>1 DEF Accept, Goto, policyVars
<1>5. ASSUME NEW c \in Conn, AppendRead(c) PROVE PolicyGrown'
  <2>1. Granted' = Granted /\ \A d \in Conn : GrantRule(d)' = GrantRule(d)
    BY <1>5 DEF AppendRead, Granted, GrantRule
  <2>2. GrantRule(c) \in Rule
    BY <1>5, GrantRuleType DEF AppendRead
  <2>3. Grown(WithRule(disk, GrantRule(c)), Granted \cup {GrantRule(c)})
    BY <2>2, GrownAppend
  <2>4. /\ UNCHANGED <<handle, disk, snap>>
        /\ \/ pc' = [pc EXCEPT ![c] = "append_rename"]
               /\ doc' = [doc EXCEPT ![c] = WithRule(disk, GrantRule(c))]
           \/ pc' = [pc EXCEPT ![c] = "auditing"] /\ doc' = doc
    BY <1>5 DEF AppendRead, Goto, AuditDeny, Audit
  <2> QED
    BY <2>1, <2>3, <2>4
<1>6. ASSUME NEW c \in Conn, AppendRename(c) PROVE PolicyGrown'
  <2>1. /\ pc[c] = "append_rename" /\ pc' = [pc EXCEPT ![c] = "store"]
        /\ disk' = doc[c] /\ wrote' = wrote \cup {c}
        /\ UNCHANGED <<handle, snap, doc, req>>
    BY <1>6 DEF AppendRename, Goto, taskVars
  <2>2. \A d \in Conn : GrantRule(d)' = GrantRule(d)
    BY <2>1 DEF GrantRule
  <2>3. Granted' = Granted \cup {GrantRule(c)}
    BY <2>1, <2>2 DEF Granted
  <2>4. Grown(disk, Granted)' /\ Grown(handle, Granted)'
    BY <2>1, <2>3, GrownMonotone
  <2>5. ASSUME NEW d \in Conn
        PROVE  /\ snap'[d] # NoDoc => Grown(snap'[d], Granted')
               /\ pc'[d] = "append_rename" => Grown(doc'[d], Granted' \cup {GrantRule(d)})
               /\ pc'[d] = "store" => Grown(doc'[d], Granted')
    <3>1. Granted \subseteq Granted' /\ Granted \cup {GrantRule(d)} \subseteq Granted' \cup {GrantRule(d)}
      BY <2>3
    <3>2. snap'[d] # NoDoc => Grown(snap'[d], Granted')
      <4>1. snap' = snap
        BY <2>1
      <4>2. snap[d] # NoDoc => Grown(snap[d], Granted)
        OBVIOUS
      <4>3. snap[d] # NoDoc => Grown(snap[d], Granted')
        BY <3>1, <4>2, GrownMonotone
      <4> QED
        BY <4>1, <4>3
    <3>3. pc'[d] = "append_rename" => Grown(doc'[d], Granted' \cup {GrantRule(d)})
      <4> SUFFICES ASSUME pc'[d] = "append_rename"
                   PROVE  Grown(doc'[d], Granted' \cup {GrantRule(d)})
        OBVIOUS
      <4>1. doc'[d] = doc[d] /\ pc[d] = "append_rename"
        BY <2>1
      <4>2. Grown(doc[d], Granted \cup {GrantRule(d)})
        BY <4>1
      <4> QED
        BY <3>1, <4>1, <4>2, GrownMonotone
    <3>4. CASE d = c
      BY <2>1, <2>3, <3>2, <3>3, <3>4
    <3>5. CASE d # c
      <4>1. pc'[d] = pc[d] /\ doc'[d] = doc[d]
        BY <2>1, <3>5
      <4>2. pc'[d] = "store" => Grown(doc[d], Granted)
        BY <4>1
      <4>3. pc'[d] = "store" => Grown(doc'[d], Granted')
        BY <3>1, <4>1, <4>2, GrownMonotone
      <4> QED
        BY <3>2, <3>3, <4>3
    <3> QED
      BY <3>4, <3>5
  <2> QED
    BY <2>2, <2>4, <2>5
<1>7. ASSUME NEW c \in Conn, AppendFails(c) PROVE PolicyGrown'
  <2>1. Granted' = Granted /\ \A d \in Conn : GrantRule(d)' = GrantRule(d)
    BY <1>7 DEF AppendFails, Granted, GrantRule, policyVars
  <2> QED
    BY <1>7, <2>1 DEF AppendFails, AuditDeny, Audit, Goto, policyVars
<1>8. ASSUME NEW c \in Conn, StoreHandle(c) PROVE PolicyGrown'
  <2>1. Granted' = Granted /\ \A d \in Conn : GrantRule(d)' = GrantRule(d)
    BY <1>8 DEF StoreHandle, Granted, GrantRule
  <2>2. /\ pc[c] = "store" /\ pc' = [pc EXCEPT ![c] = "auditing"]
        /\ handle' \in {handle, doc[c]} /\ doc' = [doc EXCEPT ![c] = NoDoc]
        /\ UNCHANGED <<disk, snap>>
    BY <1>8 DEF StoreHandle, Audit, AuditDeny, Goto
  <2> QED
    BY <2>1, <2>2
<1> QED
  BY <1>1, <1>2, <1>3, <1>4, <1>5, <1>6, <1>7, <1>8, Bystanders

\* In every reachable state every document in force is an operator's document
\* followed by rules that root asked for and that were durably written.
THEOREM AuthorityComesFromRoot == Spec => []AuthorityFromRoot
<1>1. Spec => []TypeInv
  BY TypeInit, TypeNext, PTL DEF Spec
<1>2. Spec => []PolicyGrown
  BY <1>1, GrownInit, GrownNext, PTL DEF Spec
<1>3. TypeInv /\ PolicyGrown => AuthorityFromRoot
  BY DEF TypeInv, TypeOK, GrantGated, PolicyGrown, AuthorityFromRoot
<1> QED
  BY <1>1, <1>2, <1>3, PTL

-----------------------------------------------------------------------------
(* What is executed. *)

\* The request of c is a gh passthrough, or its snapshot allows it.
Cleared(c) ==
    \/ req[c].tool = "gh" /\ req[c].form = "passthrough"
    \/ /\ req[c].tool \in {"git", "gh"} /\ req[c].form = "resolved"
       /\ snap[c] # NoDoc
       /\ evaluate(snap[c], PolicyRequest(c)) = "allow"

\* The strengthening: no task is on its way to a child, and none has had one,
\* without being cleared.
ExecutionCleared ==
    \A c \in Conn :
        /\ pc[c] \in {"idle", "backlog"} => c \notin spawned
        /\ pc[c] \notin {"idle", "backlog", "done"} => snap[c] # NoDoc
        /\ pc[c] = "pass_creds" => req[c].tool = "gh" /\ req[c].form = "passthrough"
        /\ pc[c] \in {"creds", "spawn", "child"} => Cleared(c)
        /\ pc[c] = "auditing" /\ after[c] \in {"creds", "spawn"} => Cleared(c)
        /\ c \in spawned => Cleared(c)

\* A grown document allows a request only if the document it grew from does, or
\* leaves it open and a granted rule covers it.
LEMMA GrownAllows ==
    ASSUME NEW d \in Document, NEW R, Grown(d, R), NEW r, evaluate(d, r) = "allow"
    PROVE  \E o \in Origins :
              \/ evaluate(o, r) = "allow"
              \/ /\ evaluate(o, r) = "no matching rule"
                 /\ \E rule \in R : rule_matches(o, rule, r)
<1>1. PICK o \in Origins :
        /\ d.roles = o.roles
        /\ Len(o.rules) <= Len(d.rules)
        /\ \A i \in 1..Len(o.rules) : d.rules[i] = o.rules[i]
        /\ \A i \in (Len(o.rules) + 1)..Len(d.rules) : d.rules[i] \in R
  BY DEF Grown
<1>2. o \in Document
  BY BrokerAssumption DEF Origins
<1>3. CASE Matching(o, r) # {}
  <2>1. evaluate(d, r) = evaluate(o, r)
    BY <1>1, <1>2, <1>3, PrefixDecides
  <2> QED
    BY <2>1
<1>4. CASE Matching(o, r) = {}
  <2>1. evaluate(o, r) = "no matching rule"
    BY <1>4 DEF evaluate
  <2>2. PICK i \in Matching(d, r) : TRUE
    BY DEF evaluate
  <2>3. /\ DOMAIN o.rules = 1..Len(o.rules) /\ DOMAIN d.rules = 1..Len(d.rules)
        /\ Len(o.rules) \in Nat /\ Len(d.rules) \in Nat
    BY <1>2 DEF Document
  <2>4. i \in 1..Len(d.rules) /\ rule_matches(o, d.rules[i], r)
    BY <1>1, <2>2, <2>3, MatchNeedsRolesOnly DEF Matching
  <2>5. i \notin 1..Len(o.rules)
    BY <1>1, <1>4, <2>3, <2>4 DEF Matching
  <2>6. d.rules[i] \in R
    BY <1>1, <2>3, <2>4, <2>5
  <2> QED
    BY <2>1, <2>4, <2>6
<1> QED
  BY <1>3, <1>4

\* Who connected, what it asked and a snapshot once taken never change.
LEMMA ClearedStable ==
    ASSUME NEW c \in Conn, Cleared(c), peer' = peer, req' = req, snap'[c] = snap[c]
    PROVE  Cleared(c)'
BY DEF Cleared, PolicyRequest

\* Nothing runs before the first request.
LEMMA ClearedInit == Init => ExecutionCleared
BY DEF Init, ExecutionCleared

\* A task reaches its spawn only by way of the decision that clears it.
LEMMA ClearedNext == TypeInv /\ ExecutionCleared /\ [Next]_vars => ExecutionCleared'
<1> SUFFICES ASSUME TypeInv, ExecutionCleared, [Next]_vars PROVE ExecutionCleared'
  OBVIOUS
<1> USE BrokerAssumption DEF TypeInv, TypeOK, ExecutionCleared, policyVars, taskVars, Goto
<1>u. CASE UNCHANGED vars
  BY <1>u, ClearedStable DEF vars
<1>1. CASE Start
  BY <1>1, ClearedStable DEF Start
<1>2. CASE StartFails
  BY <1>2, ClearedStable DEF StartFails
<1>a. CASE StartAborts
  BY <1>a, ClearedStable DEF StartAborts
<1>3. CASE Sigterm
  BY <1>3, ClearedStable DEF Sigterm
<1>4. CASE Shutdown
  BY <1>4, ClearedStable DEF Shutdown
<1>5. CASE Exit
  BY <1>5, ClearedStable DEF Exit
<1>6. CASE Crash
  BY <1>6, ClearedStable DEF Crash
<1>7. CASE RemoveStaleSocket
  BY <1>7, ClearedStable DEF RemoveStaleSocket
<1>8. ASSUME NEW d \in Edits, OperatorEdit(d) PROVE ExecutionCleared'
  BY <1>8, ClearedStable DEF OperatorEdit
<1>9. ASSUME NEW c \in Conn, Connect(c) PROVE ExecutionCleared'
  BY <1>9, ClearedStable DEF Connect
<1>10. ASSUME NEW c \in Conn, Cancel(c) PROVE ExecutionCleared'
  BY <1>10, ClearedStable DEF Cancel
<1>11. ASSUME NEW c \in Conn, Accept(c) PROVE ExecutionCleared'
  BY <1>11, ClearedStable DEF Accept
<1>12. ASSUME NEW c \in Conn, RefuseConnection(c) PROVE ExecutionCleared'
  BY <1>12, ClearedStable DEF RefuseConnection, Respond
<1>13. ASSUME NEW c \in Conn, ReadRequest(c) PROVE ExecutionCleared'
  BY <1>13, ClearedStable DEF ReadRequest
<1>14. ASSUME NEW c \in Conn, RouteExplain(c) \/ RoutePolicy(c) \/ RouteCheck(c) PROVE ExecutionCleared'
  BY <1>14, ClearedStable DEF RouteExplain, RoutePolicy, RouteCheck, Routing, Audit, AuditDeny, Respond
<1>15. ASSUME NEW c \in Conn, RoutePassthrough(c) PROVE ExecutionCleared'
  BY <1>15, ClearedStable DEF RoutePassthrough, Routing
<1>16. ASSUME NEW c \in Conn, RouteRefused(c) PROVE ExecutionCleared'
  BY <1>16, ClearedStable DEF RouteRefused, Routing, Audit, AuditDeny, Respond
<1>17. ASSUME NEW c \in Conn, RouteEvaluated(c) PROVE ExecutionCleared'
  <2>1. /\ pc[c] = "routing" /\ pc' = [pc EXCEPT ![c] = "auditing"]
        /\ UNCHANGED <<peer, req, snap, spawned>>
        /\ after' \in {[after EXCEPT ![c] = "creds"], [after EXCEPT ![c] = "reply"]}
    BY <1>17 DEF RouteEvaluated, Routing, Audit, AuditDeny
  <2>2. after'[c] = "creds" => Cleared(c)
    BY <1>17 DEF RouteEvaluated, Routing, Audit, AuditDeny, Cleared
  <2>3. after'[c] = "creds" => Cleared(c)'
    BY <2>1, <2>2, ClearedStable
  <2> QED
    BY <2>1, <2>3, ClearedStable
<1>18. ASSUME NEW c \in Conn, RouteAllow(c) PROVE ExecutionCleared'
  BY <1>18, ClearedStable DEF RouteAllow, Routing, Audit, AuditDeny, Respond
<1>19. ASSUME NEW c \in Conn, WriteAudit(c) PROVE ExecutionCleared'
  BY <1>19, ClearedStable DEF WriteAudit, AuditDone
<1>20. ASSUME NEW c \in Conn, WriteAuditFails(c) PROVE ExecutionCleared'
  BY <1>20, ClearedStable DEF WriteAuditFails, AuditDone
<1>21. ASSUME NEW c \in Conn, CredentialsFail(c) PROVE ExecutionCleared'
  BY <1>21, ClearedStable DEF CredentialsFail, Respond
<1>22. ASSUME NEW c \in Conn, PrepareChild(c) PROVE ExecutionCleared'
  BY <1>22, ClearedStable DEF PrepareChild
<1>23. ASSUME NEW c \in Conn, LoadPassthroughCredentials(c) PROVE ExecutionCleared'
  BY <1>23, ClearedStable DEF LoadPassthroughCredentials, Audit, Cleared
<1>24. ASSUME NEW c \in Conn, Spawn(c) PROVE ExecutionCleared'
  BY <1>24, ClearedStable DEF Spawn
<1>25. ASSUME NEW c \in Conn, SpawnFails(c) PROVE ExecutionCleared'
  BY <1>25, ClearedStable DEF SpawnFails, Respond
<1>26. ASSUME NEW c \in Conn, ChildExits(c) PROVE ExecutionCleared'
  BY <1>26, ClearedStable DEF ChildExits, Respond
<1>27. ASSUME NEW c \in Conn, AppendRead(c) PROVE ExecutionCleared'
  BY <1>27, ClearedStable DEF AppendRead, Audit, AuditDeny
<1>28. ASSUME NEW c \in Conn, AppendRename(c) PROVE ExecutionCleared'
  BY <1>28, ClearedStable DEF AppendRename
<1>29. ASSUME NEW c \in Conn, AppendFails(c) PROVE ExecutionCleared'
  BY <1>29, ClearedStable DEF AppendFails, Audit, AuditDeny
<1>30. ASSUME NEW c \in Conn, StoreHandle(c) PROVE ExecutionCleared'
  BY <1>30, ClearedStable DEF StoreHandle, Audit, AuditDeny
<1>31. ASSUME NEW c \in Conn, Reply(c) PROVE ExecutionCleared'
  BY <1>31, ClearedStable DEF Reply
<1> QED
  BY <1>u, <1>1, <1>2, <1>a, <1>3, <1>4, <1>5, <1>6, <1>7, <1>8, <1>9, <1>10, <1>11, <1>12, <1>13, <1>14, <1>15, <1>16, <1>17, <1>18, <1>19, <1>20, <1>21, <1>22, <1>23, <1>24, <1>25, <1>26, <1>27, <1>28, <1>29, <1>30, <1>31 DEF Next, Lifecycle, TaskStep, PeerStep

\* Whatever the interleaving, a child runs only for a passthrough or for a
\* request that an operator's document allows, or leaves open for a rule that
\* root granted: an operator's deny rule can not be granted away.
THEOREM ExecutionIsJustified == Spec => []ExecutionJustified
<1>1. Spec => [](TypeInv /\ PolicyGrown /\ ExecutionCleared)
  BY TypeInit, TypeNext, GrownInit, GrownNext, ClearedInit, ClearedNext, PTL DEF Spec
<1>2. TypeInv /\ PolicyGrown /\ ExecutionCleared => ExecutionJustified
  <2> SUFFICES ASSUME TypeInv, PolicyGrown, ExecutionCleared,
                      NEW c \in spawned,
                      ~(req[c].tool = "gh" /\ req[c].form = "passthrough")
               PROVE  /\ req[c].tool \in {"git", "gh"} /\ req[c].form = "resolved"
                      /\ \E o \in Origins :
                           \/ evaluate(o, PolicyRequest(c)) = "allow"
                           \/ /\ evaluate(o, PolicyRequest(c)) = "no matching rule"
                              /\ \E d \in wrote : Privileged(d)
                                    /\ rule_matches(o, GrantRule(d), PolicyRequest(c))
    BY DEF ExecutionJustified
  <2>1. c \in Conn
    BY DEF TypeInv, TypeOK
  <2>2. /\ req[c].tool \in {"git", "gh"} /\ req[c].form = "resolved"
        /\ snap[c] # NoDoc /\ evaluate(snap[c], PolicyRequest(c)) = "allow"
    BY <2>1 DEF ExecutionCleared, Cleared
  <2>3. snap[c] \in Document /\ Grown(snap[c], Granted)
    BY <2>1, <2>2 DEF TypeInv, TypeOK, PolicyGrown
  <2>4. PICK o \in Origins :
          \/ evaluate(o, PolicyRequest(c)) = "allow"
          \/ /\ evaluate(o, PolicyRequest(c)) = "no matching rule"
             /\ \E rule \in Granted : rule_matches(o, rule, PolicyRequest(c))
    BY <2>2, <2>3, GrownAllows
  <2>5. \A rule \in Granted : \E d \in wrote : Privileged(d) /\ rule = GrantRule(d)
    BY DEF Granted, TypeInv, TypeOK, GrantGated
  <2> QED
    BY <2>2, <2>4, <2>5
<1> QED
  BY <1>1, <1>2, PTL

-----------------------------------------------------------------------------
(* One task at a time.  Nearly everything a task relies on is its own: a step *)
(* of the daemon or of another task leaves it alone, or ends it.              *)

\* Nothing that belongs to d changes, its program counter aside.
Kept(d) ==
    /\ UNCHANGED <<peer, req>>
    /\ snap'[d] = snap[d] /\ doc'[d] = doc[d]
    /\ pending'[d] = pending[d] /\ after'[d] = after[d]
    /\ frames'[d] = frames[d] /\ out'[d] = out[d]
    /\ d \in spawned' <=> d \in spawned
    /\ d \in wrote' <=> d \in wrote
    /\ d \in published' <=> d \in published

Untouched(d) == Kept(d) /\ pc'[d] = pc[d]

\* The task of d is cancelled, or dies with the process.
Ended(d) == Kept(d) /\ pc[d] # "idle" /\ pc'[d] = "done"

\* A step of one connection leaves every other one untouched.
LEMMA OthersUntouched ==
    ASSUME TypeInv, NEW c \in Conn, NEW d \in Conn, c # d,
           Connect(c) \/ Cancel(c) \/ TaskStep(c) \/ PeerStep(c)
    PROVE  Untouched(d)
<1> USE DEF TypeInv, TypeOK, Untouched, Kept, policyVars, taskVars, Goto, Audit, AuditDeny, Respond
<1>1. CASE Connect(c)
  BY <1>1 DEF Connect
<1>2. CASE Cancel(c)
  BY <1>2 DEF Cancel
<1>3. CASE Accept(c)
  BY <1>3 DEF Accept
<1>4. CASE RefuseConnection(c) \/ ReadRequest(c)
  BY <1>4 DEF RefuseConnection, ReadRequest
<1>5. CASE RouteExplain(c) \/ RoutePolicy(c) \/ RouteCheck(c)
  BY <1>5 DEF RouteExplain, RoutePolicy, RouteCheck
<1>6. CASE RoutePassthrough(c) \/ RouteRefused(c)
  BY <1>6 DEF RoutePassthrough, RouteRefused
<1>7. CASE RouteEvaluated(c)
  BY <1>7 DEF RouteEvaluated
<1>8. CASE RouteAllow(c)
  BY <1>8 DEF RouteAllow
<1>9. CASE WriteAudit(c) \/ WriteAuditFails(c)
  BY <1>9 DEF WriteAudit, WriteAuditFails, AuditDone
<1>10. CASE CredentialsFail(c) \/ PrepareChild(c) \/ LoadPassthroughCredentials(c)
  BY <1>10 DEF CredentialsFail, PrepareChild, LoadPassthroughCredentials
<1>11. CASE Spawn(c) \/ SpawnFails(c) \/ ChildExits(c)
  BY <1>11 DEF Spawn, SpawnFails, ChildExits
<1>12. CASE AppendRead(c)
  BY <1>12 DEF AppendRead
<1>13. CASE AppendRename(c) \/ AppendFails(c)
  BY <1>13 DEF AppendRename, AppendFails
<1>14. CASE StoreHandle(c)
  BY <1>14 DEF StoreHandle
<1>15. CASE Reply(c)
  BY <1>15 DEF Reply
<1> QED
  BY <1>1, <1>2, <1>3, <1>4, <1>5, <1>6, <1>7, <1>8, <1>9, <1>10, <1>11, <1>12, <1>13, <1>14, <1>15 DEF TaskStep, PeerStep

\* Seen from d, every step is its own, or its end, or somebody else's.
LEMMA StepsSeen ==
    ASSUME TypeInv, [Next]_vars, NEW d \in Conn
    PROVE  Untouched(d) \/ Ended(d) \/ Connect(d) \/ TaskStep(d) \/ PeerStep(d)
<1> USE DEF TypeInv, TypeOK, Untouched, Kept, policyVars, taskVars
<1>u. CASE UNCHANGED vars
  BY <1>u DEF vars
<1>1. CASE Start \/ StartFails \/ StartAborts
  BY <1>1 DEF Start, StartFails, StartAborts
<1>2. CASE Sigterm \/ Shutdown \/ Exit \/ RemoveStaleSocket
  BY <1>2 DEF Sigterm, Shutdown, Exit, RemoveStaleSocket
<1>3. CASE Crash
  BY <1>3 DEF Crash, Ended
<1>4. ASSUME NEW e \in Edits, OperatorEdit(e) PROVE Untouched(d)
  BY <1>4 DEF OperatorEdit
<1>5. CASE Cancel(d)
  BY <1>5 DEF Cancel, Ended, Goto
<1> QED
  BY <1>u, <1>1, <1>2, <1>3, <1>4, <1>5, OthersUntouched DEF Next, Lifecycle

-----------------------------------------------------------------------------
(* What the client is told. *)

\* The frames fs are a true answer to c.
Truthful(c, fs) ==
    /\ "Denied" \in Range(fs) => c \notin spawned \cup wrote
    /\ "Exit" \in Range(fs) =>
         CASE req[c].tool = "allow"        -> c \in wrote \cap published
           [] req[c].tool \in {"git", "gh"} -> c \in spawned
           [] OTHER                         -> c \notin spawned \cup wrote

\* The decision c is recording, with where it goes on and what it will answer.
RecordPlanned(c) ==
    \/ /\ pending[c] = "deny" /\ after[c] = "reply" /\ frames[c] = <<"Denied">>
       /\ c \notin spawned \cup wrote
    \/ /\ pending[c] = "allow" /\ after[c] = "creds"
       /\ req[c].tool \in {"git", "gh"}
       /\ evaluate(snap[c], PolicyRequest(c)) = "allow"
       /\ c \notin spawned \cup wrote
    \/ /\ pending[c] = "passthrough" /\ after[c] = "spawn"
       /\ req[c].form = "passthrough"
       /\ c \notin spawned \cup wrote
    \/ /\ pending[c] = "allow" /\ after[c] = "reply" /\ frames[c] = <<"Stdout", "Exit">>
       /\ req[c].tool = "allow"
       /\ c \in wrote \cap published

\* The strengthening: at every point of a task, what it has done so far is what
\* its answer, composed or still to come, will say.  A document that is about to
\* be published loads: the append never has to be taken back.
TaskTruthful(c) ==
    /\ c \in published => c \in wrote
    /\ pc[c] # "done" => out[c] = <<>>
    /\ pc[c] \in {"idle", "backlog", "accepted", "routing", "creds", "pass_creds", "spawn",
                  "append_read", "append_rename"} => c \notin spawned \cup wrote
    /\ pc[c] = "child" => c \in spawned /\ c \notin wrote
    /\ pc[c] = "store" => c \in wrote /\ c \notin spawned
    /\ pc[c] \in {"append_rename", "store"} => validate(doc[c])
    /\ pc[c] = "auditing" => RecordPlanned(c)
    /\ pc[c] = "reply" => Truthful(c, frames[c])
    /\ Truthful(c, out[c])

TasksTruthful == \A c \in Conn : TaskTruthful(c)

\* Which tools and documents an answer is judged by does not change.
LEMMA TruthfulStable ==
    ASSUME NEW c, NEW fs, Kept(c), Truthful(c, fs)
    PROVE  Truthful(c, fs)'
BY DEF Kept, Truthful

\* What is planned for a task that nobody touches stays planned.
LEMMA PlannedStable ==
    ASSUME NEW c, Kept(c), RecordPlanned(c)
    PROVE  RecordPlanned(c)'
BY DEF Kept, RecordPlanned, PolicyRequest

\* Which frames the composed responses hold.
LEMMA FramesHeld ==
    /\ Range(<<>>) = {}
    /\ Range(<<"Denied">>) = {"Denied"}
    /\ "Denied" \notin Range(<<"Stdout", "Exit">>)
    /\ "Denied" \notin Range(<<"Stdout", "CredentialAudit", "Exit">>)
BY DEF Range

\* What a client gets of a response before it goes away was in the response.
LEMMA PrefixHeld ==
    ASSUME NEW fs \in Seq(Frame), NEW n \in 0..Len(fs)
    PROVE  Range(SubSeq(fs, 1, n)) \subseteq Range(fs)
<1>1. /\ SubSeq(fs, 1, n) \in Seq(Frame) /\ Len(SubSeq(fs, 1, n)) = n
      /\ \A i \in 1..n : SubSeq(fs, 1, n)[i] = fs[i]
  BY PrefixType
<1> QED
  BY <1>1 DEF Range

\* A rule that `allow` composes loads in every document: it names operations, or
\* a built-in role, and the branch pattern that always compiles.
LEMMA GrantRuleValid ==
    ASSUME TypeOK, NEW c \in Conn, OperandsParse(req[c].grant.operands), NEW policy
    PROVE  RuleValid(policy, GrantRule(c))
<1> DEFINE ops == req[c].grant.operands
<1>1. ops \in Seq(Word) /\ ops # <<>>
  BY BrokerAssumption DEF TypeOK, WireRequest, Grant, OperandsParse
<1>2. Len(ops) \in Nat /\ Len(ops) # 0 /\ DOMAIN ops = 1..Len(ops)
  BY <1>1
<1>3. {ops[i] : i \in DOMAIN ops} # {}
  <2>1. 1 \in DOMAIN ops
    BY <1>2
  <2> QED
    BY <2>1, Zenon
<1>4. LET spec == parse_operations_spec(ops)
      IN  (spec.kind = "list" => spec.ops # {}) /\ SpecKnown(policy, spec)
  <2>1. CASE Len(ops) = 1 /\ is_known_role(ops[1])
    BY <2>1 DEF parse_operations_spec, SpecKnown, RoleKnown, is_known_role
  <2>2. CASE ~(Len(ops) = 1 /\ is_known_role(ops[1]))
    BY <1>3, <2>2 DEF parse_operations_spec, SpecKnown
  <2> QED
    BY <2>1, <2>2
<1>5. {Wildcard} \cap BadGlob = {}
  BY GlobAssumption
<1> QED
  BY <1>4, <1>5 DEF RuleValid, GrantRule

\* Nothing has been answered before the daemon is started.
LEMMA TruthfulInit == Init => TasksTruthful
BY FramesHeld DEF Init, TasksTruthful, TaskTruthful, Truthful

\* A task that acts stays truthful.
LEMMA OwnStepTruthful ==
    ASSUME TypeInv, ExecutionCleared, NEW c \in Conn, TaskTruthful(c),
           Connect(c) \/ TaskStep(c) \/ PeerStep(c)
    PROVE  TaskTruthful(c)'
<1> USE FramesHeld DEF TypeInv, TypeOK, TaskTruthful, policyVars, taskVars, Goto
<1>1. CASE Connect(c)
  BY <1>1 DEF Connect, Truthful
<1>2. CASE Accept(c)
  BY <1>2 DEF Accept, Truthful
<1>3. CASE RefuseConnection(c)
  BY <1>3 DEF RefuseConnection, Respond, Truthful
<1>4. CASE ReadRequest(c)
  BY <1>4 DEF ReadRequest, Truthful
<1>5. CASE RouteExplain(c)
  BY <1>5 DEF RouteExplain, Routing, Respond, Truthful
<1>6. CASE RoutePolicy(c)
  BY <1>6 DEF RoutePolicy, Routing, Respond, Truthful
<1>7. CASE RouteCheck(c)
  BY <1>7 DEF RouteCheck, Routing, Respond, Truthful
<1>8. CASE RoutePassthrough(c)
  BY <1>8 DEF RoutePassthrough, Routing, Truthful
<1>9. CASE RouteRefused(c)
  BY <1>9 DEF RouteRefused, Routing, AuditDeny, Audit, Truthful, RecordPlanned
<1>10. CASE RouteEvaluated(c)
  BY <1>10 DEF RouteEvaluated, Routing, AuditDeny, Audit, Truthful, RecordPlanned, PolicyRequest
<1>11. CASE RouteAllow(c)
  BY <1>11 DEF RouteAllow, Routing, AuditDeny, Audit, Truthful, RecordPlanned
<1>12. CASE WriteAudit(c) \/ WriteAuditFails(c)
  <2>1. /\ pc[c] = "auditing" /\ RecordPlanned(c)
        /\ pc' = [pc EXCEPT ![c] = after[c]]
        /\ UNCHANGED <<frames, out, req, doc, spawned, wrote, published>>
    BY <1>12 DEF WriteAudit, WriteAuditFails, AuditDone
  <2>2. pc'[c] = after[c]
    BY <2>1
  <2>3. CASE after[c] = "reply" /\ frames[c] = <<"Denied">> /\ c \notin spawned \cup wrote
    BY <2>1, <2>2, <2>3 DEF Truthful
  <2>4. CASE /\ after[c] = "reply" /\ frames[c] = <<"Stdout", "Exit">>
             /\ req[c].tool = "allow" /\ c \in wrote \cap published
    BY <2>1, <2>2, <2>4 DEF Truthful
  <2>5. CASE after[c] \in {"creds", "spawn"} /\ c \notin spawned \cup wrote
    BY <2>1, <2>2, <2>5 DEF Truthful
  <2> QED
    BY <2>1, <2>3, <2>4, <2>5 DEF RecordPlanned
<1>14. CASE CredentialsFail(c)
  BY <1>14 DEF CredentialsFail, Respond, Truthful
<1>15. CASE PrepareChild(c)
  BY <1>15 DEF PrepareChild, Truthful
<1>16. CASE LoadPassthroughCredentials(c)
  BY <1>16 DEF LoadPassthroughCredentials, Audit, Truthful, RecordPlanned, ExecutionCleared
<1>17. CASE Spawn(c)
  BY <1>17 DEF Spawn, Truthful
<1>18. CASE SpawnFails(c)
  BY <1>18 DEF SpawnFails, Respond, Truthful
<1>19. CASE ChildExits(c)
  BY <1>19 DEF ChildExits, Respond, Truthful, ExecutionCleared, Cleared
<1>20. CASE AppendRead(c)
  <2>1. OperandsParse(req[c].grant.operands)
    BY <1>20 DEF AppendRead, GrantGated
  <2>2. validate(disk) => validate(WithRule(disk, GrantRule(c)))
    BY <2>1, AppendValid, GrantRuleType, GrantRuleValid
  <2> QED
    BY <1>20, <2>2 DEF AppendRead, AuditDeny, Audit, Truthful, RecordPlanned
<1>21. CASE AppendRename(c)
  BY <1>21 DEF AppendRename, Truthful
<1>22. CASE AppendFails(c)
  BY <1>22 DEF AppendFails, AuditDeny, Audit, Truthful, RecordPlanned
<1>23. CASE StoreHandle(c)
  BY <1>23 DEF StoreHandle, Audit, Truthful, RecordPlanned, GrantGated, Privileged
<1>24. CASE Reply(c)
  <2>1. PICK n \in 0..Len(frames[c]) : out' = [out EXCEPT ![c] = SubSeq(frames[c], 1, n)]
    BY <1>24 DEF Reply
  <2>2. Range(out'[c]) \subseteq Range(frames[c])
    BY <2>1, PrefixHeld
  <2>3. Truthful(c, out'[c])
    BY <1>24, <2>2 DEF Reply, Truthful
  <2> QED
    BY <1>24, <2>3 DEF Reply, Truthful
<1> QED
  BY <1>1, <1>2, <1>3, <1>4, <1>5, <1>6, <1>7, <1>8, <1>9, <1>10, <1>11, <1>12, <1>14, <1>15, <1>16, <1>17, <1>18, <1>19, <1>20, <1>21, <1>22, <1>23, <1>24 DEF TaskStep, PeerStep

\* Every step keeps every task truthful.
LEMMA TruthfulNext ==
    TypeInv /\ ExecutionCleared /\ TasksTruthful /\ [Next]_vars => TasksTruthful'
<1> SUFFICES ASSUME TypeInv, ExecutionCleared, TasksTruthful, [Next]_vars, NEW c \in Conn
             PROVE  TaskTruthful(c)'
  BY DEF TasksTruthful
<1>1. TaskTruthful(c)
  BY DEF TasksTruthful
<1>2. CASE Untouched(c)
  BY <1>1, <1>2, TruthfulStable, PlannedStable DEF Untouched, TaskTruthful, Kept
<1>3. CASE Ended(c)
  BY <1>1, <1>3, TruthfulStable DEF Ended, TaskTruthful, Kept
<1> QED
  BY <1>1, <1>2, <1>3, StepsSeen, OwnStepTruthful

\* Whatever the interleaving of requests, grants, shutdowns and crashes, a client
\* that reads Denied had no effect and one that reads an exit code had its child
\* run, or its rule written and published.
THEOREM AnswersAreTruthful == Spec => []AnswerTruthful
<1>1. Spec => [](TypeInv /\ ExecutionCleared /\ TasksTruthful)
  BY TypeInit, TypeNext, ClearedInit, ClearedNext, TruthfulInit, TruthfulNext, PTL DEF Spec
<1>2. TasksTruthful => AnswerTruthful
  BY DEF TasksTruthful, TaskTruthful, Truthful, AnswerTruthful
<1> QED
  BY <1>1, <1>2, PTL

-----------------------------------------------------------------------------
(* What the audit log says. *)

\* The records of the file, then those that a failed flush left in memory.
TheLog == logFile \o logBuf

\* What record r says is true of its connection, which is past its decision.
RecordTrue(r) ==
    LET c == r.conn IN
    /\ pc[c] \in {"creds", "spawn", "child", "reply", "done"}
    /\ CASE r.decision = "deny" -> pc[c] \in {"reply", "done"} /\ c \notin spawned \cup wrote
         [] r.decision = "allow" ->
              IF req[c].tool = "allow" THEN c \in published
              ELSE evaluate(snap[c], PolicyRequest(c)) = "allow"
         [] OTHER -> req[c].form = "passthrough"

\* The strengthening: a connection with a record never comes back to write one.
RecordsTrue ==
    /\ \A i \in DOMAIN TheLog : RecordTrue(TheLog[i])
    /\ \A i, j \in DOMAIN TheLog : TheLog[i].conn = TheLog[j].conn => i = j

\* Emptying the buffer into the file, with or without a record, leaves the order.
LEMMA LogConcat ==
    ASSUME NEW f \in Seq(Record), NEW b \in Seq(Record), NEW r \in Record
    PROVE  /\ f \o <<>> = f
           /\ f \o Append(b, r) = Append(f \o b, r)
           /\ (f \o b) \o <<>> = f \o b
           /\ (f \o Append(b, r)) \o <<>> = Append(f \o b, r)
<1>1. \A s \in Seq(Record) : s \o <<>> = s
  BY ConcatEmptySeq
<1>2. /\ f \o b \in Seq(Record) /\ Append(b, r) \in Seq(Record)
      /\ f \o Append(b, r) \in Seq(Record)
  BY ConcatProperties, AppendProperties
<1>3. f \o Append(b, r) = Append(f \o b, r)
  BY <1>2
<1> QED
  BY <1>1, <1>2, <1>3

\* The log is a sequence of records.
LEMMA LogType == TypeOK => TheLog \in Seq(Record)
BY ConcatProperties DEF TypeOK, TheLog

\* A step leaves the log as it is, loses the end of it, or adds the record of a
\* task at its end.
LEMMA LogSteps ==
    ASSUME TypeInv, [Next]_vars
    PROVE  \/ TheLog' = TheLog
           \/ TheLog' = logFile
           \/ \E c \in Conn : /\ WriteAudit(c) \/ WriteAuditFails(c)
                              /\ TheLog' = Append(TheLog, AuditRecord(c))
<1> USE DEF TypeInv, TypeOK, auditVars
<1>e. /\ logFile \o <<>> = logFile
      /\ (logFile \o logBuf) \o <<>> = logFile \o logBuf
  <2>1. logFile \in Seq(Record) /\ logFile \o logBuf \in Seq(Record)
    BY ConcatProperties
  <2> QED
    BY <2>1, ConcatEmptySeq
<1>u. CASE UNCHANGED auditVars
  BY <1>u DEF TheLog
<1>1. CASE Shutdown \/ Exit
  <2>1. \/ logFile' = logFile \o logBuf /\ logBuf' = <<>>
        \/ logFile' = logFile /\ logBuf' = logBuf
        \/ logFile' = logFile /\ logBuf' = <<>>
    BY <1>1 DEF Shutdown, Exit, FlushOk, FlushFails
  <2> QED
    BY <1>e, <2>1, Zenon DEF TheLog
<1>2. CASE Crash
  BY <1>2, <1>e, Zenon DEF Crash, TheLog
<1>3. ASSUME NEW c \in Conn, WriteAudit(c) \/ WriteAuditFails(c)
      PROVE  \/ TheLog' = TheLog
             \/ TheLog' = Append(TheLog, AuditRecord(c))
  <2>1. AuditRecord(c) \in Record
    BY DEF AuditRecord, Record
  <2>2. /\ logFile \o Append(logBuf, AuditRecord(c)) = Append(TheLog, AuditRecord(c))
        /\ (logFile \o Append(logBuf, AuditRecord(c))) \o <<>> = Append(TheLog, AuditRecord(c))
    BY <2>1, LogConcat DEF TheLog
  <2>3. \/ logFile' = logFile \o Append(logBuf, AuditRecord(c)) /\ logBuf' = <<>>
        \/ logFile' = logFile /\ logBuf' = Append(logBuf, AuditRecord(c))
        \/ logFile' = logFile /\ logBuf' = logBuf
    BY <1>3 DEF WriteAudit, WriteAuditFails
  <2> QED
    BY <2>2, <2>3, Zenon DEF TheLog
<1>4. CASE Lifecycle
  BY <1>4, <1>u, <1>1, <1>2 DEF Lifecycle, Start, StartFails, StartAborts, Sigterm, RemoveStaleSocket, OperatorEdit
<1>5. ASSUME NEW c \in Conn, Connect(c) \/ Cancel(c) \/ PeerStep(c)
      PROVE  UNCHANGED auditVars
  BY <1>5, Zenon DEF Connect, Cancel, PeerStep, RefuseConnection, ReadRequest, ChildExits, Reply
<1>6. ASSUME NEW c \in Conn, TaskStep(c), ~(WriteAudit(c) \/ WriteAuditFails(c))
      PROVE  UNCHANGED auditVars
  BY <1>6, Zenon DEF TaskStep, Accept, RouteExplain, RoutePolicy, RouteCheck, RoutePassthrough,
       RouteRefused, RouteEvaluated, RouteAllow, CredentialsFail, PrepareChild,
       LoadPassthroughCredentials, Spawn, SpawnFails, AppendRead, AppendRename, AppendFails,
       StoreHandle
<1> QED
  BY <1>u, <1>3, <1>4, <1>5, <1>6 DEF Next, vars

\* A record that is true of its connection stays so.
LEMMA RecordStays ==
    ASSUME TypeInv, [Next]_vars, NEW r \in Record, RecordTrue(r)
    PROVE  RecordTrue(r)'
<1> DEFINE c == r.conn
<1>1. c \in Conn
  BY DEF Record
<1>2. CASE Kept(c) /\ pc'[c] \in {pc[c], "done"}
  BY <1>1, <1>2 DEF RecordTrue, Kept, PolicyRequest
<1> USE DEF TypeInv, TypeOK, RecordTrue, policyVars, taskVars, Goto
<1>3. CASE CredentialsFail(c)
  BY <1>1, <1>3 DEF CredentialsFail, Respond, PolicyRequest
<1>4. CASE PrepareChild(c)
  BY <1>1, <1>4 DEF PrepareChild, PolicyRequest
<1>5. CASE Spawn(c)
  BY <1>1, <1>5 DEF Spawn, PolicyRequest
<1>6. CASE SpawnFails(c)
  BY <1>1, <1>6 DEF SpawnFails, Respond, PolicyRequest
<1>7. CASE ChildExits(c)
  BY <1>1, <1>7 DEF ChildExits, Respond, PolicyRequest
<1>8. CASE Reply(c)
  BY <1>1, <1>8 DEF Reply, PolicyRequest
<1>9. \/ Untouched(c) \/ Ended(c) \/ CredentialsFail(c) \/ PrepareChild(c) \/ Spawn(c)
      \/ SpawnFails(c) \/ ChildExits(c) \/ Reply(c)
  <2>1. pc[c] \in {"creds", "spawn", "child", "reply", "done"}
    OBVIOUS
  <2>2. Untouched(c) \/ Ended(c) \/ Connect(c) \/ TaskStep(c) \/ PeerStep(c)
    BY <1>1, StepsSeen
  <2> HIDE DEF TypeInv, TypeOK, RecordTrue
  <2> QED
    BY <2>1, <2>2 DEF Connect, TaskStep, PeerStep, Accept, RefuseConnection, ReadRequest, Routing,
       RouteExplain, RoutePolicy, RouteCheck, RoutePassthrough, RouteRefused, RouteEvaluated,
       RouteAllow, WriteAudit, WriteAuditFails, LoadPassthroughCredentials, AppendRead,
       AppendRename, AppendFails, StoreHandle
<1> QED
  BY <1>2, <1>3, <1>4, <1>5, <1>6, <1>7, <1>8, <1>9 DEF Untouched, Ended

\* The record a task hands to the log is true of it.
LEMMA NewRecordTrue ==
    ASSUME TypeInv, TasksTruthful, NEW c \in Conn, WriteAudit(c) \/ WriteAuditFails(c)
    PROVE  /\ AuditRecord(c) \in Record /\ AuditRecord(c).conn = c
           /\ pc[c] = "auditing"
           /\ \A r : r = AuditRecord(c) => RecordTrue(r)'
<1>1. /\ pc[c] = "auditing" /\ RecordPlanned(c)
      /\ pc' = [pc EXCEPT ![c] = after[c]]
      /\ UNCHANGED <<peer, req, snap, spawned, wrote, published>>
  BY DEF WriteAudit, WriteAuditFails, AuditDone, TasksTruthful, TaskTruthful, policyVars
<1>2. pc'[c] = after[c]
  BY <1>1 DEF TypeInv, TypeOK
<1>3. /\ AuditRecord(c) = [conn |-> c, decision |-> pending[c]]
      /\ AuditRecord(c) \in Record
  BY DEF AuditRecord, Record, TypeInv, TypeOK
<1>4. evaluate(snap[c], PolicyRequest(c))' = evaluate(snap[c], PolicyRequest(c))
  BY <1>1 DEF PolicyRequest
<1>5. ASSUME NEW r, r.conn = c, r.decision = pending[c]
      PROVE  RecordTrue(r)'
  BY <1>1, <1>2, <1>4, <1>5 DEF RecordPlanned, RecordTrue
<1>6. AuditRecord(c).conn = c /\ AuditRecord(c).decision = pending[c]
  BY <1>3
<1> QED
  BY <1>1, <1>3, <1>5, <1>6

\* Nothing is recorded before the first request.
LEMMA RecordsInit == Init => RecordsTrue
BY DEF Init, RecordsTrue, TheLog

\* A sequence whose entries all come from the log says nothing new.
LEMMA RecordsNext ==
    TypeInv /\ TasksTruthful /\ RecordsTrue /\ [Next]_vars => RecordsTrue'
<1> SUFFICES ASSUME TypeInv, TasksTruthful, RecordsTrue, [Next]_vars PROVE RecordsTrue'
  OBVIOUS
<1>1. /\ TheLog \in Seq(Record) /\ logFile \in Seq(Record) /\ logBuf \in Seq(Record)
      /\ DOMAIN TheLog = 1..Len(TheLog) /\ Len(TheLog) \in Nat
  BY LogType DEF TypeInv, TypeOK
<1>2. ASSUME NEW i \in DOMAIN TheLog, NEW r, r = TheLog[i]
      PROVE  RecordTrue(r)'
  BY <1>1, <1>2, RecordStays DEF RecordsTrue
<1>3. CASE TheLog' = TheLog
  BY <1>2, <1>3 DEF RecordsTrue
<1>4. CASE TheLog' = logFile
  <2>1. \A i \in DOMAIN logFile : i \in DOMAIN TheLog /\ TheLog[i] = logFile[i]
    BY <1>1 DEF TheLog
  <2> QED
    BY <1>2, <1>4, <2>1 DEF RecordsTrue
<1>5. ASSUME NEW c \in Conn, WriteAudit(c) \/ WriteAuditFails(c),
             TheLog' = Append(TheLog, AuditRecord(c))
      PROVE  RecordsTrue'
  <2> DEFINE r == AuditRecord(c)
             n == Len(TheLog)
  <2>1. /\ r \in Record /\ r.conn = c /\ pc[c] = "auditing"
        /\ \A x : x = r => RecordTrue(x)'
    BY <1>5, NewRecordTrue
  <2>2. \A i \in DOMAIN TheLog : TheLog[i].conn # c
    BY <2>1 DEF RecordsTrue, RecordTrue
  <2>3. /\ DOMAIN TheLog' = 1..(n + 1)
        /\ \A i \in 1..n : TheLog'[i] = TheLog[i]
        /\ TheLog'[n + 1] = r
    BY <1>1, <1>5, <2>1
  <2> HIDE DEF r
  <2>4. ASSUME NEW i \in 1..(n + 1), NEW x, x = TheLog'[i]
        PROVE  RecordTrue(x)'
    <3>1. CASE i = n + 1
      BY <2>1, <2>3, <2>4, <3>1
    <3>2. CASE i # n + 1
      BY <1>1, <1>2, <2>3, <2>4, <3>2
    <3> QED
      BY <3>1, <3>2
  <2>5. \A i, j \in DOMAIN TheLog' : TheLog'[i].conn = TheLog'[j].conn => i = j
    BY <1>1, <2>1, <2>2, <2>3 DEF RecordsTrue
  <2>6. (\A i \in DOMAIN TheLog : RecordTrue(TheLog[i]))'
    BY <2>3, <2>4
  <2> QED
    BY <2>5, <2>6 DEF RecordsTrue
<1> QED
  BY <1>3, <1>4, <1>5, LogSteps

\* The log agrees with what happened in every reachable state: it denies nothing
\* that took effect, allows no grant that was not published and nothing the
\* snapshot denies, and has one record for a connection, wherever writes and
\* flushes fail and the process dies.
THEOREM AuditAgreesAlways == Spec => []AuditAgrees
<1>1. Spec => [](TypeInv /\ ExecutionCleared /\ TasksTruthful)
  BY TypeInit, TypeNext, ClearedInit, ClearedNext, TruthfulInit, TruthfulNext, PTL DEF Spec
<1>2. Spec => []RecordsTrue
  BY <1>1, RecordsInit, RecordsNext, PTL DEF Spec
<1>3. RecordsTrue => AuditAgrees
  BY DEF RecordsTrue, RecordTrue, TheLog, AuditAgrees
<1> QED
  BY <1>2, <1>3, PTL

-----------------------------------------------------------------------------
(* No child without a record. *)

\* The audit file holds the decision to run c.
Recorded(c) ==
    \E i \in DOMAIN logFile :
        /\ logFile[i].conn = c
        /\ logFile[i].decision \in {"allow", "passthrough"}

\* c is past the point where the decision to run it is recorded.
Committed(c) == pc[c] \in {"creds", "spawn", "child"} \/ c \in spawned

\* The strengthening: already when a task passes that point, and not only when
\* its child starts, each missing record is paid for by a failed write.
Missing == {c \in Conn : Committed(c) /\ ~Recorded(c)}

MissingPaid == IsFiniteSet(Missing) /\ Cardinality(Missing) <= auditErrors

\* Records are only added to the audit file, by all that happens to the daemon,
\* and failed writes only counted up.
LEMMA FileGrows ==
    ASSUME TypeInv, [Next]_vars
    PROVE  /\ logFile' = logFile \/ \E s \in Seq(Record) : logFile' = logFile \o s
           /\ auditErrors' >= auditErrors
<1> USE DEF TypeInv, TypeOK, auditVars
<1>u. CASE UNCHANGED auditVars
  BY <1>u
<1>1. CASE Shutdown \/ Exit
  <2>1. \/ logFile' = logFile \o logBuf /\ auditErrors' = auditErrors
        \/ logFile' = logFile /\ auditErrors' \in {auditErrors, auditErrors + 1}
    BY <1>1 DEF Shutdown, Exit, FlushOk, FlushFails
  <2>2. logFile' = logFile \/ \E s \in Seq(Record) : logFile' = logFile \o s
    BY <2>1, Zenon
  <2>3. auditErrors' >= auditErrors
    BY <2>1
  <2> QED
    BY <2>2, <2>3
<1>2. CASE Crash
  BY <1>2 DEF Crash
<1>3. ASSUME NEW c \in Conn, WriteAudit(c)
      PROVE  /\ \E s \in Seq(Record) : logFile' = logFile \o s
             /\ auditErrors' = auditErrors
  <2>1. Append(logBuf, AuditRecord(c)) \in Seq(Record)
    BY AppendProperties DEF AuditRecord, Record
  <2> QED
    BY <1>3, <2>1, Zenon DEF WriteAudit
<1>4. ASSUME NEW c \in Conn, WriteAuditFails(c)
      PROVE  logFile' = logFile /\ auditErrors' = auditErrors + 1
  BY <1>4 DEF WriteAuditFails
<1>5. CASE Lifecycle
  BY <1>5, <1>u, <1>1, <1>2 DEF Lifecycle, Start, StartFails, StartAborts, Sigterm, RemoveStaleSocket, OperatorEdit
<1>6. ASSUME NEW c \in Conn, Connect(c) \/ Cancel(c) \/ PeerStep(c)
      PROVE  UNCHANGED auditVars
  BY <1>6, Zenon DEF Connect, Cancel, PeerStep, RefuseConnection, ReadRequest, ChildExits, Reply
<1>7. ASSUME NEW c \in Conn, TaskStep(c), ~(WriteAudit(c) \/ WriteAuditFails(c))
      PROVE  UNCHANGED auditVars
  BY <1>7, Zenon DEF TaskStep, Accept, RouteExplain, RoutePolicy, RouteCheck, RoutePassthrough,
       RouteRefused, RouteEvaluated, RouteAllow, CredentialsFail, PrepareChild,
       LoadPassthroughCredentials, Spawn, SpawnFails, AppendRead, AppendRename, AppendFails,
       StoreHandle
<1>8. CASE \E c \in Conn : WriteAudit(c) \/ WriteAuditFails(c)
  <2>1. auditErrors + 1 >= auditErrors /\ auditErrors >= auditErrors
    OBVIOUS
  <2> QED
    BY <1>3, <1>4, <1>8, <2>1, Zenon
<1> QED
  BY <1>u, <1>5, <1>6, <1>7, <1>8 DEF Next, vars

\* What is recorded stays recorded.
LEMMA RecordedStays ==
    ASSUME TypeInv, [Next]_vars, NEW c, Recorded(c)
    PROVE  Recorded(c)'
<1>1. PICK i \in DOMAIN logFile : logFile[i].conn = c /\ logFile[i].decision \in {"allow", "passthrough"}
  BY DEF Recorded
<1>2. i \in DOMAIN logFile' /\ logFile'[i] = logFile[i]
  <2>1. CASE logFile' = logFile
    BY <2>1
  <2>2. ASSUME NEW s \in Seq(Record), logFile' = logFile \o s
        PROVE  i \in DOMAIN logFile' /\ logFile'[i] = logFile[i]
    BY <2>2, ConcatProperties DEF TypeInv, TypeOK
  <2> QED
    BY <2>1, <2>2, FileGrows
<1> QED
  BY <1>1, <1>2 DEF Recorded

\* A record that was written and flushed is in the file.
LEMMA WrittenIsInFile ==
    ASSUME TypeInv, NEW c \in Conn, WriteAudit(c)
    PROVE  \E i \in DOMAIN logFile' : logFile'[i] = AuditRecord(c)
<1> DEFINE n == Len(logFile) + Len(logBuf) + 1
<1>1. AuditRecord(c) \in Record
  BY DEF AuditRecord, Record, TypeInv, TypeOK
<1>2. logFile' = logFile \o Append(logBuf, AuditRecord(c))
  BY DEF WriteAudit
<1>3. n \in DOMAIN logFile' /\ logFile'[n] = AuditRecord(c)
  BY <1>1, <1>2 DEF TypeInv, TypeOK
<1> QED
  BY <1>3

\* A task gets past its record by writing it, or by failing to.
LEMMA MissingSteps ==
    ASSUME TypeInv, TasksTruthful, [Next]_vars, NEW c \in Missing', c \notin Missing
    PROVE  WriteAuditFails(c)
<1>1. c \in Conn /\ Committed(c)' /\ ~Recorded(c)'
  BY DEF Missing
<1>2. ~Recorded(c) /\ ~Committed(c)
  BY <1>1, RecordedStays DEF Missing
<1>3. ~Untouched(c) /\ ~Ended(c)
  BY <1>1, <1>2 DEF Committed, Untouched, Ended, Kept
<1>4. WriteAudit(c) \/ WriteAuditFails(c)
  <2>1. Connect(c) \/ TaskStep(c) \/ PeerStep(c)
    BY <1>1, <1>3, StepsSeen
  <2> USE DEF TypeInv, TypeOK, Committed, Goto, taskVars, Audit, AuditDeny, Respond, Routing
  <2>2. ~Connect(c)
    BY <1>1, <1>2 DEF Connect
  <2>3. ~PeerStep(c)
    BY <1>1, <1>2 DEF PeerStep, RefuseConnection, ReadRequest, ChildExits, Reply
  <2>4. ~(Accept(c) \/ RouteExplain(c) \/ RoutePolicy(c) \/ RouteCheck(c) \/ RoutePassthrough(c))
    BY <1>1, <1>2 DEF Accept, RouteExplain, RoutePolicy, RouteCheck, RoutePassthrough
  <2>5. ~(RouteRefused(c) \/ RouteEvaluated(c) \/ RouteAllow(c))
    BY <1>1, <1>2 DEF RouteRefused, RouteEvaluated, RouteAllow
  <2>6. ~(CredentialsFail(c) \/ PrepareChild(c) \/ LoadPassthroughCredentials(c) \/ Spawn(c)
            \/ SpawnFails(c))
    BY <1>1, <1>2 DEF CredentialsFail, PrepareChild, LoadPassthroughCredentials, Spawn, SpawnFails
  <2>7. ~(AppendRead(c) \/ AppendRename(c) \/ AppendFails(c) \/ StoreHandle(c))
    BY <1>1, <1>2 DEF AppendRead, AppendRename, AppendFails, StoreHandle
  <2> QED
    BY <2>1, <2>2, <2>3, <2>4, <2>5, <2>6, <2>7 DEF TaskStep
<1>5. ~WriteAudit(c)
  <2> SUFFICES ASSUME WriteAudit(c) PROVE FALSE
    OBVIOUS
  <2>1. PICK i \in DOMAIN logFile' : logFile'[i] = AuditRecord(c)
    BY <1>1, WrittenIsInFile
  <2>2. pc'[c] = after[c] /\ RecordPlanned(c) /\ c \notin spawned /\ spawned' = spawned
    BY <1>1, <1>2 DEF WriteAudit, AuditDone, TypeInv, TypeOK, TasksTruthful, TaskTruthful, Committed
  <2>3. pending[c] \in {"allow", "passthrough"}
    BY <1>1, <2>2 DEF RecordPlanned, Committed
  <2> QED
    BY <1>1, <2>1, <2>3 DEF Recorded, AuditRecord
<1> QED
  BY <1>4, <1>5

\* No child runs before the daemon is started.
LEMMA MissingInit == Init => MissingPaid
<1> SUFFICES ASSUME Init PROVE MissingPaid
  OBVIOUS
<1>1. Missing = {}
  BY DEF Init, Missing, Committed
<1> QED
  BY <1>1, FS_EmptySet DEF Init, MissingPaid

\* Each step that adds a connection without a record counts an audit error.
LEMMA MissingNext == TypeInv /\ TasksTruthful /\ MissingPaid /\ [Next]_vars => MissingPaid'
<1> SUFFICES ASSUME TypeInv, TasksTruthful, MissingPaid, [Next]_vars PROVE MissingPaid'
  OBVIOUS
<1>1. /\ IsFiniteSet(Missing) /\ Cardinality(Missing) \in Nat
      /\ Cardinality(Missing) <= auditErrors /\ auditErrors \in Nat /\ auditErrors' \in Nat
      /\ auditErrors' >= auditErrors
  BY FS_CardinalityType, FileGrows, TypeNext DEF MissingPaid, TypeInv, TypeOK
<1>2. CASE Missing' \subseteq Missing
  BY <1>1, <1>2, FS_Subset, FS_CardinalityType DEF MissingPaid
<1>3. CASE ~(Missing' \subseteq Missing)
  <2>1. PICK c \in Missing' : c \notin Missing
    BY <1>3
  <2>2. c \in Conn /\ WriteAuditFails(c)
    BY <2>1, MissingSteps DEF Missing
  <2>3. auditErrors' = auditErrors + 1
    BY <2>2 DEF WriteAuditFails
  <2>4. ASSUME NEW d \in Missing', d \notin Missing PROVE d = c
    <3>1. d \in Conn /\ WriteAuditFails(d)
      BY <2>4, MissingSteps DEF Missing
    <3>2. pc'[c] # "auditing"
      BY <2>2 DEF WriteAuditFails, AuditDone, TypeInv, TypeOK
    <3>3. d # c => pc'[c] = pc[c]
      BY <2>2, <3>1 DEF WriteAuditFails, AuditDone, TypeInv, TypeOK
    <3>4. pc[c] = "auditing"
      BY <2>2 DEF WriteAuditFails
    <3> QED
      BY <3>2, <3>3, <3>4
  <2>5. /\ IsFiniteSet(Missing \cup {c})
        /\ Cardinality(Missing \cup {c}) = Cardinality(Missing) + 1
    BY <1>1, <2>1, FS_AddElement
  <2>6. Missing' \subseteq Missing \cup {c}
    BY <2>4
  <2>7. IsFiniteSet(Missing') /\ Cardinality(Missing') <= Cardinality(Missing \cup {c})
    BY <2>5, <2>6, FS_Subset
  <2>8. Cardinality(Missing') \in Nat
    BY <2>7, FS_CardinalityType
  <2> QED
    BY <1>1, <2>3, <2>5, <2>7, <2>8 DEF MissingPaid
<1> QED
  BY <1>2, <1>3

\* At most as many children ever run without a record in the file as writes of
\* the log failed, for any number of connections, crashes and restarts.
THEOREM ChildrenAreRecorded == Spec => []ChildrenRecorded
<1>1. Spec => [](TypeInv /\ ExecutionCleared /\ TasksTruthful)
  BY TypeInit, TypeNext, ClearedInit, ClearedNext, TruthfulInit, TruthfulNext, PTL DEF Spec
<1>2. Spec => []MissingPaid
  BY <1>1, MissingInit, MissingNext, PTL DEF Spec
<1>3. TypeInv /\ MissingPaid => ChildrenRecorded
  <2> SUFFICES ASSUME TypeInv, MissingPaid PROVE ChildrenRecorded
    OBVIOUS
  <2> DEFINE S == {c \in spawned : ~Recorded(c)}
  <2>1. S \subseteq Missing
    BY DEF Missing, Committed, TypeInv, TypeOK
  <2>2. /\ IsFiniteSet(S) /\ Cardinality(S) <= Cardinality(Missing)
        /\ Cardinality(S) \in Nat /\ Cardinality(Missing) \in Nat
    BY <2>1, FS_Subset, FS_CardinalityType DEF MissingPaid
  <2>3. Cardinality(S) <= auditErrors
    BY <2>2 DEF MissingPaid, TypeInv, TypeOK
  <2> QED
    BY <2>3 DEF Recorded, ChildrenRecorded
<1> QED
  BY <1>1, <1>2, <1>3, PTL

\* While no write of the log has failed, every decision on a git or gh request is
\* in the audit file at the step that hands its answer to the client.
THEOREM DecisionsAreRecorded == Spec => DecisionsRecorded
<1> DEFINE Inv == TypeInv /\ ExecutionCleared /\ TasksTruthful /\ MissingPaid
           Told == \A c \in Conn :
                     /\ pc[c] \notin {"accepted", "reply"} /\ pc'[c] = "reply"
                     /\ req[c].tool \in {"git", "gh"} /\ req[c].form # "passthrough"
                     /\ auditErrors' = 0
                     => \E i \in DOMAIN logFile' : logFile'[i].conn = c
<1>1. Spec => []Inv
  BY TypeInit, TypeNext, ClearedInit, ClearedNext, TruthfulInit, TruthfulNext, MissingInit, MissingNext, PTL DEF Spec
<1>2. Inv /\ [Next]_vars => [Told]_vars
  <2> SUFFICES ASSUME Inv, [Next]_vars, NEW c \in Conn,
                      pc[c] \notin {"accepted", "reply"}, pc'[c] = "reply",
                      req[c].tool \in {"git", "gh"}, req[c].form # "passthrough",
                      auditErrors' = 0
               PROVE  \E i \in DOMAIN logFile' : logFile'[i].conn = c
    OBVIOUS
  <2>1. Missing = {}
    <3>1. auditErrors = 0
      BY FileGrows DEF TypeInv, TypeOK
    <3>2. IsFiniteSet(Missing) /\ Cardinality(Missing) = 0
      BY <3>1, FS_CardinalityType DEF MissingPaid
    <3> QED
      BY <3>2, FS_EmptySet
  <2>2. Committed(c) => Recorded(c)'
    BY <2>1, RecordedStays DEF Missing
  <2>3. CASE Recorded(c)'
    BY <2>3 DEF Recorded
  <2>4. CASE WriteAudit(c)
    BY <2>4, WrittenIsInFile DEF AuditRecord
  <2>5. ~Untouched(c) /\ ~Ended(c)
    BY DEF Untouched, Ended
  <2>6. Committed(c) \/ WriteAudit(c)
    <3>1. Connect(c) \/ TaskStep(c) \/ PeerStep(c)
      BY <2>5, StepsSeen
    <3> USE DEF TypeInv, TypeOK, Goto, Audit, AuditDeny, Respond, Routing
    <3>2. ~Connect(c)
      BY DEF Connect
    <3>3. PeerStep(c) => Committed(c)
      BY DEF PeerStep, RefuseConnection, ReadRequest, ChildExits, Reply, Committed
    <3>4. ~(Accept(c) \/ RouteExplain(c) \/ RoutePolicy(c) \/ RouteCheck(c) \/ RoutePassthrough(c))
      BY DEF Accept, RouteExplain, RoutePolicy, RouteCheck, RoutePassthrough
    <3>5. ~(RouteRefused(c) \/ RouteEvaluated(c) \/ RouteAllow(c))
      BY DEF RouteRefused, RouteEvaluated, RouteAllow
    <3>6. ~WriteAuditFails(c)
      BY <2>1 DEF WriteAuditFails
    <3>7. CredentialsFail(c) \/ PrepareChild(c) \/ Spawn(c) \/ SpawnFails(c) => Committed(c)
      BY DEF CredentialsFail, PrepareChild, Spawn, SpawnFails, Committed, ExecutionCleared
    <3>8. ~(LoadPassthroughCredentials(c) \/ AppendRead(c) \/ AppendRename(c) \/ AppendFails(c)
              \/ StoreHandle(c))
      BY DEF LoadPassthroughCredentials, AppendRead, AppendRename, AppendFails, StoreHandle
    <3> QED
      BY <3>1, <3>2, <3>3, <3>4, <3>5, <3>6, <3>7, <3>8 DEF TaskStep
  <2> QED
    BY <2>2, <2>3, <2>4, <2>6
<1> QED
  BY <1>1, <1>2, PTL DEF Spec, DecisionsRecorded

-----------------------------------------------------------------------------
(* Grants that do not overlap. *)

\* c is between its read of the policy file and its publication.
Installing(c) == pc[c] \in {"append_rename", "store"}

\* The strengthening: without a race one grant at most is being installed, it
\* works on the file as it stands, and the file keeps every rule ever written.
GrantsInSequence ==
    ~raced =>
        /\ \A c, d \in Conn : Installing(c) /\ Installing(d) => c = d
        /\ \A c \in Conn : /\ pc[c] = "append_rename" => doc[c] = WithRule(disk, GrantRule(c))
                           /\ pc[c] = "store" => doc[c] = disk
        /\ daemon = "serving" /\ (\A c \in Conn : pc[c] # "store") => handle = disk
        /\ \A c \in wrote : GrantRule(c) \in Range(disk.rules)

\* Pushing a rule keeps the others and adds this one.
LEMMA WithRuleHolds ==
    ASSUME NEW policy \in Document, NEW rule \in Rule
    PROVE  /\ rule \in Range(WithRule(policy, rule).rules)
           /\ Range(policy.rules) \subseteq Range(WithRule(policy, rule).rules)
<1> DEFINE s == policy.rules
           t == Append(s, rule)
<1>1. WithRule(policy, rule).rules = t /\ s \in Seq(Rule)
  BY WithRuleType DEF Document
<1>2. /\ DOMAIN s = 1..Len(s) /\ Len(s) \in Nat /\ DOMAIN t = 1..(Len(s) + 1)
      /\ t[Len(s) + 1] = rule /\ \A i \in 1..Len(s) : t[i] = s[i]
  BY <1>1
<1>3. rule \in Range(t)
  BY <1>2 DEF Range
<1>4. Range(s) \subseteq Range(t)
  BY <1>2 DEF Range
<1> QED
  BY <1>1, <1>3, <1>4

\* The daemon starts from one document.
LEMMA SequenceInit == Init => GrantsInSequence
BY DEF Init, GrantsInSequence, Installing

\* A step that installs nothing keeps the sequence.
LEMMA BystanderInSequence ==
    ASSUME TypeInv, GrantsInSequence, Bystander PROVE GrantsInSequence'
<1>1. \A c \in Conn : GrantRule(c)' = GrantRule(c)
  BY DEF Bystander, GrantRule
<1>2. \A c \in wrote : c \in Conn
  BY DEF TypeInv, TypeOK
<1> QED
  BY <1>1, <1>2 DEF GrantsInSequence, Bystander, Installing

\* Reading, renaming and publishing one at a time keep the file, the handle and
\* the granted rules together; a second writer or a hand edit counts as a race.
LEMMA SequenceNext ==
    TypeInv /\ TasksTruthful /\ GrantsInSequence /\ [Next]_vars => GrantsInSequence'
<1> SUFFICES ASSUME TypeInv, TasksTruthful, GrantsInSequence, [Next]_vars PROVE GrantsInSequence'
  OBVIOUS
<1>1. CASE Bystander
  BY <1>1, BystanderInSequence
<1>w. \A c \in wrote : c \in Conn
  BY DEF TypeInv, TypeOK
<1> USE DEF TypeInv, TypeOK, GrantsInSequence, Installing
<1>2. CASE Start
  <2>1. \A c \in Conn : GrantRule(c)' = GrantRule(c)
    BY <1>2 DEF Start, GrantRule, taskVars
  <2> QED
    BY <1>2, <1>w, <2>1 DEF Start, taskVars
<1>3. ASSUME NEW d \in Edits, OperatorEdit(d) PROVE GrantsInSequence'
  BY <1>3 DEF OperatorEdit
<1>4. ASSUME NEW c \in Conn, Accept(c) PROVE GrantsInSequence'
  <2>1. \A d \in Conn : GrantRule(d)' = GrantRule(d)
    BY <1>4 DEF Accept, GrantRule
  <2> QED
    BY <1>4, <1>w, <2>1 DEF Accept, Goto, policyVars, daemonVars
<1>5. ASSUME NEW c \in Conn, AppendRead(c) PROVE GrantsInSequence'
  <2>1. \A d \in Conn : GrantRule(d)' = GrantRule(d)
    BY <1>5 DEF AppendRead, GrantRule
  <2>2. /\ pc[c] = "append_read"
        /\ UNCHANGED <<daemon, handle, disk, wrote>>
        /\ \/ pc' = [pc EXCEPT ![c] = "append_rename"]
               /\ doc' = [doc EXCEPT ![c] = WithRule(disk, GrantRule(c))]
           \/ pc' = [pc EXCEPT ![c] = "auditing"] /\ doc' = doc
    BY <1>5 DEF AppendRead, Goto, AuditDeny, Audit, daemonVars
  <2>3. ~raced' => ~raced /\ \A d \in Conn \ {c} : ~Installing(d)
    BY <1>5 DEF AppendRead
  <2>4. (\A d \in wrote : GrantRule(d) \in Range(disk.rules))' \/ raced'
    BY <1>w, <2>1, <2>2, <2>3
  <2>5. \A d \in Conn \ {c} : pc'[d] = pc[d] /\ doc'[d] = doc[d]
    BY <2>2
  <2>6. \/ pc'[c] = "append_rename" /\ doc'[c] = WithRule(disk, GrantRule(c))
        \/ pc'[c] = "auditing"
    BY <2>2
  <2>7. ~raced' => \A d \in Conn : Installing(d)' => d = c
    BY <2>3, <2>5
  <2>8. ~raced' /\ (\A d \in Conn : pc'[d] # "store") => \A d \in Conn : pc[d] # "store"
    BY <2>2, <2>3
  <2> QED
    BY <2>1, <2>2, <2>3, <2>4, <2>6, <2>7, <2>8
<1>6. ASSUME NEW c \in Conn, AppendRename(c) PROVE GrantsInSequence'
  <2>1. /\ pc[c] = "append_rename" /\ pc' = [pc EXCEPT ![c] = "store"]
        /\ disk' = doc[c] /\ wrote' = wrote \cup {c}
        /\ UNCHANGED <<daemon, handle, raced, doc, req>>
    BY <1>6 DEF AppendRename, Goto, taskVars, daemonVars
  <2> SUFFICES ASSUME ~raced PROVE GrantsInSequence'
    BY <2>1
  <2>2. \A d \in Conn : GrantRule(d)' = GrantRule(d)
    BY <2>1 DEF GrantRule
  <2>3. disk' = WithRule(disk, GrantRule(c))
    BY <2>1
  <2>4. \A d \in Conn \ {c} : ~Installing(d)
    BY <2>1
  <2>5. GrantRule(c) \in Rule
    BY <2>1, GrantRuleType DEF GrantGated
  <2>6. \A d \in wrote' : GrantRule(d) \in Range(disk'.rules)
    BY <2>1, <2>3, <2>5, WithRuleHolds
  <2>7. (\A d \in wrote : GrantRule(d) \in Range(disk.rules))'
    BY <1>w, <2>1, <2>2, <2>6
  <2> HIDE DEF TypeOK
  <2>8. pc \in [Conn -> PC]
    BY DEF TypeOK
  <2>9. \A d \in Conn : pc'[d] = IF d = c THEN "store" ELSE pc[d]
    BY <2>1, <2>8
  <2> QED
    BY <2>1, <2>4, <2>7, <2>9
<1>7. ASSUME NEW c \in Conn, AppendFails(c) PROVE GrantsInSequence'
  <2>1. \A d \in Conn : GrantRule(d)' = GrantRule(d)
    BY <1>7 DEF AppendFails, GrantRule
  <2> QED
    BY <1>7, <1>w, <2>1 DEF AppendFails, AuditDeny, Audit, Goto, policyVars, daemonVars
<1>8. ASSUME NEW c \in Conn, StoreHandle(c) PROVE GrantsInSequence'
  <2>1. \A d \in Conn : GrantRule(d)' = GrantRule(d)
    BY <1>8 DEF StoreHandle, GrantRule
  <2>2. /\ pc[c] = "store" /\ pc' = [pc EXCEPT ![c] = "auditing"]
        /\ handle' = doc[c] /\ doc' = [doc EXCEPT ![c] = NoDoc]
        /\ UNCHANGED <<daemon, disk, wrote, raced>>
    BY <1>8 DEF StoreHandle, Audit, AuditDeny, Goto, daemonVars, TasksTruthful, TaskTruthful
  <2> QED
    BY <1>w, <2>1, <2>2
<1> QED
  BY <1>1, <1>2, <1>3, <1>4, <1>5, <1>6, <1>7, <1>8, Bystanders

\* As long as no grant overlaps another and nobody edits the file by hand, the
\* policy in force is the file, and no confirmed grant is ever lost from it,
\* across cancellations, crashes and restarts.
THEOREM SequentialGrantsAreDurable == Spec => []SequentialGrantsDurable
<1>1. Spec => [](TypeInv /\ ExecutionCleared /\ TasksTruthful)
  BY TypeInit, TypeNext, ClearedInit, ClearedNext, TruthfulInit, TruthfulNext, PTL DEF Spec
<1>2. Spec => []GrantsInSequence
  BY <1>1, SequenceInit, SequenceNext, PTL DEF Spec
<1>3. TypeInv /\ TasksTruthful /\ GrantsInSequence => SequentialGrantsDurable
  BY DEF TypeInv, TypeOK, TasksTruthful, TaskTruthful, GrantsInSequence, SequentialGrantsDurable
<1> QED
  BY <1>1, <1>2, <1>3, PTL
\* q decides as p does, or allows what p leaves to the default denial.
Opens(p, q) ==
    \A r \in Request :
        \/ evaluate(q, r) = evaluate(p, r)
        \/ evaluate(p, r) = "no matching rule" /\ evaluate(q, r) = "allow"

\* While no grants overlap and nobody edits the file, neither the file nor the
\* policy in force ever goes back on what a rule decides: what a rule denies stays
\* denied and what one allows stays allowed, through every step of every task and
\* through cancellations, crashes and restarts (append_rule_atomically, run_inner).
NothingCloses == [][~raced' => Opens(disk, disk') /\ Opens(handle, handle')]_vars

\* The strengthening: a crash or a cancellation can leave the handle behind the
\* file, by grants only; the next publication or start makes up for it.
HandleBehind == ~raced => Opens(handle, disk)

\* A document opens itself, and what opens a document that opens another opens that.
LEMMA OpensOrder ==
    /\ \A p : Opens(p, p)
    /\ \A p, q, s : Opens(p, q) /\ Opens(q, s) => Opens(p, s)
BY DEF Opens

\* What a step does to file and handle while nothing races.
LEMMA OpeningStep ==
    ASSUME TypeInv, TasksTruthful, GrantsInSequence, HandleBehind, [Next]_vars, ~raced'
    PROVE  Opens(disk, disk') /\ Opens(handle, handle') /\ Opens(handle', disk')
<1>1. CASE UNCHANGED <<disk, handle>> /\ raced' = raced
  BY <1>1, OpensOrder DEF HandleBehind
<1>2. CASE Start
  <2>1. handle' = disk /\ disk' = disk /\ raced' = raced
    BY <1>2 DEF Start
  <2> QED
    BY <2>1, OpensOrder DEF HandleBehind
<1>3. ASSUME NEW d \in Edits, OperatorEdit(d) PROVE FALSE
  BY <1>3 DEF OperatorEdit
<1>4. ASSUME NEW c \in Conn, AppendRead(c)
      PROVE  Opens(disk, disk') /\ Opens(handle, handle') /\ Opens(handle', disk')
  <2>1. UNCHANGED <<disk, handle>> /\ ~raced
    BY <1>4 DEF AppendRead
  <2> QED
    BY <2>1, OpensOrder DEF HandleBehind
<1>5. ASSUME NEW c \in Conn, AppendRename(c)
      PROVE  Opens(disk, disk') /\ Opens(handle, handle') /\ Opens(handle', disk')
  <2>1. pc[c] = "append_rename" /\ disk' = doc[c] /\ handle' = handle /\ ~raced
    BY <1>5 DEF AppendRename
  <2>2. disk' = WithRule(disk, GrantRule(c))
    BY <2>1 DEF GrantsInSequence
  <2>3. disk \in Document /\ GrantRule(c) \in Rule /\ GrantRule(c).effect = "allow"
    BY <2>1, GrantRuleType DEF TypeInv, TypeOK, GrantGated
  <2>4. Opens(disk, disk')
    BY <2>2, <2>3, AppendOpens DEF Opens
  <2>5. Opens(handle, disk)
    BY <2>1 DEF HandleBehind
  <2> QED
    BY <2>1, <2>4, <2>5, OpensOrder
<1>6. ASSUME NEW c \in Conn, StoreHandle(c)
      PROVE  Opens(disk, disk') /\ Opens(handle, handle') /\ Opens(handle', disk')
  <2>1. pc[c] = "store" /\ disk' = disk /\ ~raced /\ (handle' = doc[c] \/ handle' = handle)
    BY <1>6 DEF StoreHandle
  <2>2. doc[c] = disk
    BY <2>1 DEF GrantsInSequence
  <2>3. Opens(handle, disk)
    BY <2>1 DEF HandleBehind
  <2> QED
    BY <2>1, <2>2, <2>3, OpensOrder
<1>7. ASSUME NEW c \in Conn, Accept(c) \/ AppendFails(c)
      PROVE  UNCHANGED <<disk, handle>> /\ raced' = raced
  BY <1>7 DEF Accept, AppendFails, policyVars
<1>8. Bystander => UNCHANGED <<disk, handle>> /\ raced' = raced
  BY DEF Bystander
<1> QED
  BY <1>1, <1>2, <1>3, <1>4, <1>5, <1>6, <1>7, <1>8, Bystanders

\* No rule is ever gone back on by grants that do not overlap: the composition of
\* `GrantsOnlyOpen` with the daemon that makes them.
THEOREM SequentialGrantsOnlyOpen == Spec => NothingCloses
<1>1. Spec => [](TypeInv /\ TasksTruthful /\ GrantsInSequence)
  <2>1. Spec => [](TypeInv /\ ExecutionCleared /\ TasksTruthful)
    BY TypeInit, TypeNext, ClearedInit, ClearedNext, TruthfulInit, TruthfulNext, PTL DEF Spec
  <2> QED
    BY <2>1, SequenceInit, SequenceNext, PTL DEF Spec
<1>2. Init => HandleBehind
  BY OpensOrder DEF Init, HandleBehind
<1>3. TypeInv /\ TasksTruthful /\ GrantsInSequence /\ HandleBehind /\ [Next]_vars => HandleBehind'
  BY OpeningStep DEF HandleBehind
<1>4. TypeInv /\ TasksTruthful /\ GrantsInSequence /\ HandleBehind /\ [Next]_vars
        => (~raced' => Opens(disk, disk') /\ Opens(handle, handle'))
  BY OpeningStep
<1> QED
  BY <1>1, <1>2, <1>3, <1>4, PTL DEF Spec, NothingCloses
=============================================================================
