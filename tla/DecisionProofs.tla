------------------------- MODULE DecisionProofs -------------------------
(***************************************************************************)
(* Theorems about decisions: what grants may do to a policy, for every     *)
(* document and any number of grants, and what a session is told and what  *)
(* comes of it, for every command line, working tree, view of the broker   *)
(* and document.                                                           *)
(***************************************************************************)
EXTENDS PolicyGrowth, Dispatch, PolicyLemmas, SequenceTheorems

\* The rule an `allow` builds is a rule.
LEMMA AllowRuleType ==
    ASSUME NEW user \in User, NEW org \in Org, NEW repo \in Repo, NEW spec \in Grants
    PROVE  AllowRule(user, org, repo, spec) \in Rule
<1>1. spec \in OperationsSpec
  BY GrowthAssumption DEF GrantSpec, OperationsSpec, RoleName
<1> QED
  BY <1>1, GlobAssumption DEF AllowRule, Rule

\* The policy file is always a well-formed document (append_rule_atomically).
THEOREM GrowthTypeCorrect == GrowthSpec => []GrowthTypeOK
<1>1. GrowthInit => GrowthTypeOK
  BY GrowthAssumption DEF GrowthInit, GrowthTypeOK
<1>2. GrowthTypeOK /\ [GrowthNext]_file => GrowthTypeOK'
  BY AllowRuleType, WithRuleType DEF GrowthTypeOK, GrowthNext, Push
<1> QED
  BY <1>1, <1>2, PTL DEF GrowthSpec

\* A grant only ever turns a default denial into an allow: no sequence of
\* grants changes what an operator's rule decides.
THEOREM GrantsOnlyOpen == GrowthSpec => GrantOnlyOpens
<1> DEFINE A == \A r \in Request :
                  \/ evaluate(file', r) = evaluate(file, r)
                  \/ evaluate(file, r) = "no matching rule" /\ evaluate(file', r) = "allow"
<1>1. GrowthTypeOK /\ GrowthNext => A
  <2> SUFFICES ASSUME GrowthTypeOK, GrowthNext PROVE A
    OBVIOUS
  <2>1. PICK user \in User, org \in Org, repo \in Repo, spec \in Grants :
            Push(user, org, repo, spec)
    BY DEF GrowthNext
  <2> DEFINE rule == AllowRule(user, org, repo, spec)
  <2>2. rule \in Rule /\ rule.effect = "allow"
    BY AllowRuleType DEF AllowRule
  <2>3. file' = WithRule(file, rule)
    BY <2>1 DEF Push
  <2> QED
    BY <2>2, <2>3, AppendOpens DEF GrowthTypeOK
<1>2. GrowthTypeOK /\ [GrowthNext]_file => [A]_file
  BY <1>1
<1> QED
  BY <1>2, GrowthTypeCorrect, PTL DEF GrowthSpec, GrantOnlyOpens

\* Once loadable, always loadable: the reload after a grant, and every later
\* start of the daemon, find a document that validates.
THEOREM GrantsStayLoadable == GrowthSpec => LoadableStaysLoadable
<1>1. GrowthTypeOK /\ GrowthNext => validate(file')
  <2> SUFFICES ASSUME GrowthTypeOK, GrowthNext PROVE validate(file')
    OBVIOUS
  <2>1. PICK user \in User, org \in Org, repo \in Repo, spec \in Grants :
            Push(user, org, repo, spec)
    BY DEF GrowthNext
  <2> DEFINE rule == AllowRule(user, org, repo, spec)
  <2>2. rule \in Rule
    BY AllowRuleType
  <2>3. spec \in GrantSpec
    BY GrowthAssumption
  <2>4. RuleValid(file, rule)
    BY <2>3, GlobAssumption DEF RuleValid, AllowRule, GrantSpec, SpecKnown, RoleKnown
  <2>5. validate(file) /\ file' = WithRule(file, rule)
    BY <2>1 DEF Push
  <2> QED
    BY <2>2, <2>4, <2>5, AppendValid DEF GrowthTypeOK
<1>2. GrowthTypeOK /\ [GrowthNext]_file => [validate(file) => validate(file')]_file
  BY <1>1
<1> QED
  BY <1>2, GrowthTypeCorrect, PTL DEF GrowthSpec, LoadableStaysLoadable

\* A rule that covers a push whose branch is not named covers it on every branch:
\* branch_matches takes only the literal "*" for it, and "*" matches everything.
LEMMA UnnamedBranchCoversAll ==
    ASSUME NEW policy, NEW r \in Request, NEW b \in Branch,
           r.operation = "push", r.branch = NoBranch
    PROVE  Matching(policy, r) \subseteq Matching(policy, [r EXCEPT !.branch = b])
<1> DEFINE q == [r EXCEPT !.branch = b]
<1>1. /\ q.user = r.user /\ q.org = r.org /\ q.repo = r.repo /\ q.operation = r.operation
      /\ q.branch = b /\ b # NoBranch
  BY GlobAssumption DEF Request
<1> HIDE DEF q
<1>2. ASSUME NEW i \in Matching(policy, r) PROVE i \in Matching(policy, q)
  <2>1. i \in DOMAIN policy.rules /\ rule_matches(policy, policy.rules[i], r)
    BY DEF Matching
  <2>2. Wildcard \in policy.rules[i].branches
    BY <2>1 DEF rule_matches, branch_matches, HasBranch
  <2>3. branch_matches(policy.rules[i].branches, q)
    BY <1>1, <2>2, GlobAssumption DEF branch_matches
  <2>4. rule_matches(policy, policy.rules[i], q)
    BY <1>1, <2>1, <2>3 DEF rule_matches
  <2> QED
    BY <2>1, <2>4 DEF Matching
<1> QED
  BY <1>2 DEF q

\* What `ghbrk policy` reports of a push, whose branch it does not name, it may
\* report: under an allow no branch is left to the default denial.
THEOREM ReportedPushHolds == GrowthSpec => []ReportedPushNeverDefaulted
<1>1. ReportedPushNeverDefaulted
  <2> SUFFICES ASSUME NEW r \in Request, r.operation = "push", r.branch = NoBranch,
                      evaluate(file, r) = "allow", NEW b \in Branch
               PROVE  evaluate(file, [r EXCEPT !.branch = b]) # "no matching rule"
    BY DEF ReportedPushNeverDefaulted
  <2>1. Matching(file, r) # {}
    BY DEF evaluate
  <2>2. Matching(file, [r EXCEPT !.branch = b]) # {}
    BY <2>1, UnnamedBranchCoversAll
  <2> QED
    BY <2>2 DEF evaluate
<1> QED
  BY <1>1, PTL

\* The first-match reading of the policy and the loop of Policy::evaluate agree on
\* every document the file can hold, for every number of rules.
THEOREM FirstMatchIsLoop == GrowthSpec => []EvaluateIsLoop
<1>1. GrowthTypeOK => EvaluateIsLoop
  BY LoopIsFirstMatch DEF GrowthTypeOK, EvaluateIsLoop
<1> QED
  BY <1>1, GrowthTypeCorrect, PTL

-----------------------------------------------------------------------------
(* The session: explain, run, ask, grant.                                  *)

\* The hints of every request of the session.
UserHints == repo_hints(Tree[job.tree], job.cwd)

\* What explain answers about the job, and what comes of running it: both are
\* settled by the job and the policy.
Told ==
    IF job.tool = "other" THEN Answer("error")
    ELSE IF job.tool = "git" /\ ~git_is_remote_op(job.args) THEN Answer("local")
    ELSE Explained(With(UserHints))

Ran ==
    IF job.tool = "git" /\ ~git_is_remote_op(job.args) THEN Answer("refused by the client")
    ELSE IF job.tool = "gh" /\ ~gh_is_broker_op(job.args) THEN Answer("passthrough")
    ELSE Served(With(UserHints))

\* What has been decided at each point of the session.
SessionInv ==
    /\ job \in Jobs
    /\ Sent => hints = UserHints
    /\ pc \in {"explained", "running", "ran"} => told = Told
    /\ pc = "running" => job.tool # "other" /\ (job.tool = "git" => git_is_remote_op(job.args))
    /\ outcome # Nothing =>
          pc \in {"ran", "done"} /\ job.tool # "other" /\ told = Told /\ outcome = Ran
    /\ report # Nothing =>
          pc = "done" /\ (report.kind = "report" => \E pair : report = PolicyReport(pair))
    /\ grant # Nothing =>
          /\ pc = "done"
          /\ grant.kind = "parsed" =>
                \E line \in Lines :
                    /\ validate_repo_spec(line.repo)
                    /\ grant.line = line
                    /\ grant.request = parse_allow_args(assemble_args(line), Caller)

\* The client and the broker find the same subcommand and look it up in the same
\* table (is_remote_op in src/cmd/git.rs, git_is_remote_op in src/broker.rs).
LEMMA SameGitFilter ==
    ASSUME NEW args
    PROVE  is_remote_op(args) <=> git_is_remote_op(args)
BY DEF is_remote_op, git_is_remote_op, first_non_flag, git_first_subcommand, GIT_GLOBAL_VALUE_FLAGS

\* The kinds an answer can have.
LEMMA AnswerKinds ==
    ASSUME NEW resolved
    PROVE  /\ Explained(resolved).kind = IF Ok(resolved) THEN "report" ELSE "resolver error"
           /\ Served(resolved).kind = IF Ok(resolved)
                                      THEN IF evaluate(doc, Question(resolved)) = "allow"
                                           THEN "executed" ELSE "denied"
                                      ELSE "resolver error"
BY DEF Explained, Served, Judged, Answer

\* The answers are the same as long as the job and the policy are.
LEMMA Settled ==
    ASSUME job' = job, doc' = doc
    PROVE  UserHints' = UserHints /\ Told' = Told /\ Ran' = Ran
BY DEF UserHints, Told, Ran, Explained, Served, With, BrokerView

\* What each step of the session settles, it settles as the invariant says.
THEOREM SessionInvariant == Spec => []SessionInv
<1>1. Init => SessionInv
  BY DEF Init, SessionInv, Sent
<1>2. SessionInv /\ [Next]_vars => SessionInv'
  <2> SUFFICES ASSUME SessionInv, [Next]_vars PROVE SessionInv'
    OBVIOUS
  <2>1. ASSUME ExplainCommand PROVE SessionInv'
    <3>1. /\ pc = "start" /\ job' = job /\ doc' = doc
          /\ outcome' = outcome /\ report' = report /\ grant' = grant
          /\ outcome = Nothing /\ report = Nothing /\ grant = Nothing
      BY <2>1 DEF ExplainCommand, SessionInv
    <3>2. UserHints' = UserHints /\ Told' = Told /\ Ran' = Ran
      BY <3>1, Settled
    <3>3. CASE job.tool = "other" /\ job.args = <<>> /\ told' = Answer("error") /\ pc' = "explained"
      BY <3>1, <3>2, <3>3 DEF SessionInv, Sent, Told
    <3>4. CASE hints' = UserHints /\ pc' = "explaining"
      BY <3>1, <3>2, <3>4 DEF SessionInv, Sent
    <3> QED
      BY <2>1, <3>3, <3>4 DEF ExplainCommand, UserHints
  <2>2. ASSUME HandleExplain PROVE SessionInv'
    <3>1. /\ pc = "explaining" /\ pc' = "explained" /\ job' = job /\ doc' = doc /\ hints = UserHints
          /\ outcome' = outcome /\ report' = report /\ grant' = grant
          /\ outcome = Nothing /\ report = Nothing /\ grant = Nothing
      BY <2>2 DEF HandleExplain, SessionInv, Sent
    <3>2. UserHints' = UserHints /\ Told' = Told /\ Ran' = Ran
      BY <3>1, Settled
    <3>3. told' = Told
      BY <2>2, <3>1 DEF HandleExplain, Told
    <3> QED
      BY <3>1, <3>2, <3>3 DEF SessionInv, Sent
  <2>3. ASSUME RunCommand PROVE SessionInv'
    <3>1. /\ pc = "explained" /\ job' = job /\ doc' = doc /\ job.tool # "other"
          /\ told' = told /\ report' = report /\ grant' = grant
          /\ told = Told /\ outcome = Nothing /\ report = Nothing /\ grant = Nothing
      BY <2>3 DEF RunCommand, SessionInv
    <3>2. UserHints' = UserHints /\ Told' = Told /\ Ran' = Ran
      BY <3>1, Settled
    <3>3. is_remote_op(job.args) <=> git_is_remote_op(job.args)
      BY SameGitFilter
    <3>4. CASE job.tool = "git" /\ ~is_remote_op(job.args)
      <4>1. outcome' = Ran /\ pc' = "ran"
        BY <2>3, <3>3, <3>4 DEF RunCommand, Ran
      <4> QED
        BY <3>1, <3>2, <4>1 DEF SessionInv, Sent
    <3>5. CASE ~(job.tool = "git" /\ ~is_remote_op(job.args))
      <4>1. hints' = UserHints /\ outcome' = outcome /\ pc' = "running"
        BY <2>3, <3>5 DEF RunCommand, UserHints
      <4> QED
        BY <3>1, <3>2, <3>3, <3>5, <4>1 DEF SessionInv, Sent
    <3> QED
      BY <3>4, <3>5
  <2>4. ASSUME ServeCommand PROVE SessionInv'
    <3>1. /\ pc = "running" /\ pc' = "ran" /\ job' = job /\ doc' = doc /\ hints = UserHints
          /\ job.tool # "other" /\ (job.tool = "git" => git_is_remote_op(job.args))
          /\ told' = told /\ report' = report /\ grant' = grant
          /\ told = Told /\ report = Nothing /\ grant = Nothing
      BY <2>4 DEF ServeCommand, SessionInv, Sent
    <3>2. UserHints' = UserHints /\ Told' = Told /\ Ran' = Ran
      BY <3>1, Settled
    <3>3. outcome' = Ran
      BY <2>4, <3>1 DEF ServeCommand, Ran
    <3> QED
      BY <3>1, <3>2, <3>3 DEF SessionInv, Sent
  <2>5. ASSUME NEW spec \in Specs, PolicyQuery(spec) PROVE SessionInv'
    <3>1. /\ Asking /\ pc' = "done" /\ job' = job /\ doc' = doc
          /\ told' = told /\ outcome' = outcome /\ grant' = grant
      BY <2>5 DEF PolicyQuery
    <3>2. UserHints' = UserHints /\ Told' = Told /\ Ran' = Ran
      BY <3>1, Settled
    <3>3. pc # "done" /\ grant = Nothing
      BY <3>1 DEF Asking, SessionInv
    <3>4. report'.kind = "report" => \E pair : report' = PolicyReport(pair)
      BY <2>5 DEF PolicyQuery, Answer
    <3>5. report'.kind = "report" => \E pair : report' = PolicyReport(pair)'
      BY <3>1, <3>4 DEF PolicyReport
    <3> QED
      BY <3>1, <3>2, <3>3, <3>5 DEF SessionInv, Sent
  <2>6. ASSUME NEW line \in Lines, AllowLine(line) PROVE SessionInv'
    <3>1. /\ Asking /\ pc' = "done" /\ job' = job /\ doc' = doc
          /\ told' = told /\ outcome' = outcome /\ report' = report
      BY <2>6 DEF AllowLine
    <3>2. UserHints' = UserHints /\ Told' = Told /\ Ran' = Ran
      BY <3>1, Settled
    <3>3. pc # "done" /\ report = Nothing
      BY <3>1 DEF Asking, SessionInv
    <3>4. grant'.kind = "parsed" =>
            /\ validate_repo_spec(line.repo)
            /\ grant'.line = line
            /\ grant'.request = parse_allow_args(assemble_args(line), Caller)
      BY <2>6 DEF AllowLine
    <3> QED
      BY <3>1, <3>2, <3>3, <3>4 DEF SessionInv, Sent
  <2>7. CASE UNCHANGED vars
    <3>1. job' = job /\ doc' = doc /\ UNCHANGED <<pc, hints, told, outcome, report, grant>>
      BY <2>7 DEF vars
    <3>2. UserHints' = UserHints /\ Told' = Told /\ Ran' = Ran
      BY <3>1, Settled
    <3>3. \A pair : PolicyReport(pair)' = PolicyReport(pair)
      BY <3>1 DEF PolicyReport
    <3> QED
      BY <3>1, <3>2, <3>3 DEF SessionInv, Sent
  <2> QED
    BY <2>1, <2>2, <2>3, <2>4, <2>5, <2>6, <2>7 DEF Next
<1> QED
  BY <1>1, <1>2, PTL DEF Spec

-----------------------------------------------------------------------------
(* What the session may rely on.                                           *)

\* What explain said of a git command or a brokered gh command is what running it
\* did: both sides of the socket, asked twice, settle the same scope, target,
\* decision and credential (handle_explain_request, process_request).
THEOREM ExplainPredictsRuns == Spec => []ExplainPredicts
<1>1. SessionInv => ExplainPredicts
  <2> SUFFICES ASSUME SessionInv, outcome.kind \notin {"none", "passthrough"}
               PROVE  Predicts
    BY DEF ExplainPredicts
  <2> DEFINE resolved == With(UserHints)
  <2>1. job.tool # "other" /\ told = Told /\ outcome = Ran
    BY DEF SessionInv, Nothing
  <2>2. CASE job.tool = "git" /\ ~git_is_remote_op(job.args)
    BY <2>1, <2>2 DEF Told, Ran, Answer, Predicts
  <2>3. CASE ~(job.tool = "git" /\ ~git_is_remote_op(job.args))
    <3>1. told = Explained(resolved)
      BY <2>1, <2>3 DEF Told
    <3>2. outcome = Served(resolved)
      BY <2>1, <2>3 DEF Ran, Answer
    <3> HIDE DEF resolved
    <3>3. CASE ~Ok(resolved)
      BY <3>1, <3>2, <3>3, AnswerKinds DEF Predicts
    <3>4. CASE Ok(resolved)
      <4> DEFINE decision == evaluate(doc, Question(resolved))
      <4>1. told.kind = "report" /\ outcome.kind \in {"executed", "denied"}
        BY <3>1, <3>2, <3>4, AnswerKinds
      <4>2. /\ told.request = Question(resolved) /\ told.decision = decision
            /\ told.inject = IF decision = "allow" THEN inject_label(job.tool, resolved) ELSE "none"
        BY <3>1, <3>4 DEF Explained, Judged
      <4>3. /\ outcome.request = Question(resolved) /\ outcome.decision = decision
            /\ outcome.inject = IF decision = "allow" THEN build_env(job.tool, resolved) ELSE "none"
        BY <3>2, <3>4 DEF Served, Judged
      <4>4. inject_label(job.tool, resolved) = build_env(job.tool, resolved)
        BY DEF inject_label, build_env
      <4> QED
        BY <4>1, <4>2, <4>3, <4>4 DEF Predicts, IsJudged
    <3> QED
      BY <3>3, <3>4
  <2> QED
    BY <2>2, <2>3
<1> QED
  BY <1>1, SessionInvariant, PTL

\* Away from a push, no pattern of a rule is asked about the branch: two requests that
\* differ in it are decided alike.
LEMMA BranchCountsForPushOnly ==
    ASSUME NEW policy, NEW q, NEW r, q.operation # "push",
           q.user = r.user, q.org = r.org, q.repo = r.repo, q.operation = r.operation
    PROVE  evaluate(policy, q) = evaluate(policy, r)
<1>1. \A rule : rule_matches(policy, rule, q) <=> rule_matches(policy, rule, r)
  BY DEF rule_matches, branch_matches, HasBranch
<1>2. Matching(policy, q) = Matching(policy, r)
  BY <1>1 DEF Matching
<1> QED
  BY <1>2 DEF evaluate, FirstMatch

\* `ghbrk policy` reports an operation as allowed exactly if the broker runs it
\* (policy_report leaves the branch out, process_request does not).
THEOREM ReportIsTrue == Spec => []ReportTrue
<1>1. SessionInv => ReportTrue
  <2> SUFFICES ASSUME SessionInv,
                      report.kind = "report", IsJudged(outcome),
                      outcome.request.org = report.org, outcome.request.repo = report.repo,
                      outcome.request.operation
                          \in (report.allowed \cup report.forbidden) \ {"push", "gh_api_read"}
               PROVE  outcome.kind = "executed" <=> outcome.request.operation \in report.allowed
    BY DEF ReportTrue
  <2> DEFINE resolved == With(UserHints)
             r == Question(resolved)
  <2>1. outcome = Ran
    BY DEF SessionInv, Nothing, IsJudged
  <2>2. outcome = Served(resolved)
    BY <2>1 DEF Ran, Answer, IsJudged
  <2>3. Ok(resolved)
    <3> HIDE DEF resolved
    <3> QED
      BY <2>2, AnswerKinds DEF IsJudged
  <2>4. outcome.request = r /\ (outcome.kind = "executed" <=> evaluate(doc, r) = "allow")
    <3> HIDE DEF resolved
    <3> QED
      BY <2>2, <2>3 DEF Served, Judged
  <2>5. PICK pair : report = PolicyReport(pair)
    BY DEF SessionInv, Nothing
  <2> DEFINE q(op) == [user |-> Caller, org |-> pair.org, repo |-> pair.repo,
                       operation |-> op, branch |-> NoBranch]
  <2>6. /\ report.org = pair.org /\ report.repo = pair.repo
        /\ report.allowed = {op \in ALL_OPS : evaluate(doc, q(op)) = "allow"}
        /\ report.forbidden = ALL_OPS \ report.allowed
    BY <2>5 DEF PolicyReport
  <2>7. r.operation \in ALL_OPS /\ r.operation # "push" /\ r.org = pair.org /\ r.repo = pair.repo
    BY <2>4, <2>6
  <2>8. r.user = Caller
    BY DEF Question
  <2> HIDE DEF r, resolved
  <2>9. evaluate(doc, r) = evaluate(doc, q(r.operation))
    BY <2>7, <2>8, BranchCountsForPushOnly
  <2> QED
    BY <2>4, <2>6, <2>7, <2>9
<1> QED
  BY <1>1, SessionInvariant, PTL

\* The two tables of gh commands, as words.
LEMMA GhTables ==
    ASSUME NEW group, NEW action
    PROVE  <<group, action>> \in BrokerOps <=>
               group \in DOMAIN GhActions /\ action \in DOMAIN GhActions[group]
<1>1. DOMAIN GhActions = {"pr", "issue", "release"}
  BY DEF GhActions
<1>2. DOMAIN GhActions["pr"] = {"create", "comment", "merge", "close", "review"}
  BY DEF GhActions
<1>3. DOMAIN GhActions["issue"] = {"create", "comment", "close"}
  BY DEF GhActions
<1>4. DOMAIN GhActions["release"] =
          {"create", "delete", "delete-asset", "download", "edit", "list", "upload", "view"}
  BY DEF GhActions, ReleaseActions
<1>5. <<group, action>> \in BrokerOps <=>
          \/ group = "pr" /\ action \in DOMAIN GhActions["pr"]
          \/ group = "issue" /\ action \in DOMAIN GhActions["issue"]
          \/ group = "release" /\ action \in DOMAIN GhActions["release"]
  BY <1>2, <1>3, <1>4 DEF BrokerOps
<1> QED
  BY <1>1, <1>5

\* Away from `gh api`, the resolver knows a command exactly if it is in the table.
LEMMA ClassifiedByTable ==
    ASSUME NEW args, Nth(NonFlags(args), 1) # "api"
    PROVE  Ok(classify_gh(args)) <=> <<Nth(NonFlags(args), 1), Nth(NonFlags(args), 2)>> \in BrokerOps
<1> DEFINE group == Nth(NonFlags(args), 1)
           action == Nth(NonFlags(args), 2)
           known == group \in DOMAIN GhActions /\ action \in DOMAIN GhActions[group]
<1>1. gh_positional_args(args) = NonFlags(args)
  BY DEF gh_positional_args
<1>2. classify_gh(args) =
        CASE known -> [err |-> "ok", operation |-> GhActions[group][action]]
          [] group = "api" -> classify_api(action, gh_api_method(args))
          [] group \notin {"api", None} /\ action = None -> Err("MissingGhArgument")
          [] OTHER -> Err("UnknownGhSubcommand")
  BY <1>1, Zenon DEF classify_gh
<1>3. known <=> <<group, action>> \in BrokerOps
  BY GhTables
<1>4. group # "api"
  OBVIOUS
<1>5. known => action # None
  BY ActionAssumption
<1> HIDE DEF group, action, known
<1>6. CASE known
  <2>1. classify_gh(args) = [err |-> "ok", operation |-> GhActions[group][action]]
    BY <1>2, <1>4, <1>5, <1>6
  <2> QED
    BY <1>3, <1>6, <2>1 DEF Ok, group, action
<1>7. CASE ~known
  <2>1. classify_gh(args) \in {Err("MissingGhArgument"), Err("UnknownGhSubcommand")}
    BY <1>2, <1>4, <1>7
  <2> QED
    BY <1>3, <1>7, <2>1 DEF Ok, Err, group, action
<1> QED
  BY <1>6, <1>7

\* The broker's routing table and the resolver's agree: nothing the resolver knows is
\* passed through unjudged, nothing else that is brokered but `gh api` is unknown to it
\* (gh_is_broker_op, classify_gh).
THEOREM TablesAgree == Spec => []ClassifiersAgree
<1>1. SessionInv => ClassifiersAgree
  <2> SUFFICES ASSUME SessionInv, job.tool = "gh", outcome.kind # "none"
               PROVE  IF outcome.kind = "passthrough" THEN ~Ok(classify_gh(job.args))
                      ELSE Nth(NonFlags(job.args), 1) = "api" \/ Ok(classify_gh(job.args))
    BY DEF ClassifiersAgree
  <2>1. outcome = Ran
    BY DEF SessionInv, Nothing
  <2>2. outcome.kind = "passthrough" <=> ~gh_is_broker_op(job.args)
    <3>1. CASE gh_is_broker_op(job.args)
      <4>1. outcome = Served(With(UserHints))
        BY <2>1, <3>1 DEF Ran
      <4> DEFINE resolved == With(UserHints)
      <4> HIDE DEF resolved
      <4>2. Served(resolved).kind # "passthrough"
        BY AnswerKinds
      <4> QED
        BY <3>1, <4>1, <4>2 DEF resolved
    <3>2. CASE ~gh_is_broker_op(job.args)
      BY <2>1, <3>2 DEF Ran, Answer
    <3> QED
      BY <3>1, <3>2
  <2>3. gh_is_broker_op(job.args) <=>
          \/ Nth(NonFlags(job.args), 1) = "api"
          \/ <<Nth(NonFlags(job.args), 1), Nth(NonFlags(job.args), 2)>> \in BrokerOps
    BY DEF gh_is_broker_op
  <2> QED
    BY <2>2, <2>3, ClassifiedByTable
<1> QED
  BY <1>1, SessionInvariant, PTL

-----------------------------------------------------------------------------
(* Hints.  A request carries what the client read of the tree, the broker  *)
(* reads the tree itself if it carries nothing.                            *)

\* The branch of the client's hint is the one HEAD names in the repository that
\* discovery finds, and the absent one if it finds none.
LEMMA HintedBranch ==
    ASSUME NEW tree, NEW cwd
    PROVE  LocalBranch(tree, discover(tree, cwd)) = repo_hints(tree, cwd).branch
BY DEF LocalBranch, repo_hints, NoHints

\* With a URL hint the broker does not look at the tree for the remote; without one
\* it looks for what the client had looked for.  Either way it is the same remote.
LEMMA SameRemote ==
    ASSUME NEW tree, NEW cwd, NEW fs, fs = tree \/ repo_hints(tree, cwd).url # None
    PROVE  LET hinted == resolve_remote_url(fs, cwd, repo_hints(tree, cwd).url)
               looked == resolve_remote_url(tree, cwd, None)
           IN  /\ hinted.remote = looked.remote
               /\ hinted.local \in {NoRepo, discover(tree, cwd)}
               /\ looked.local \in {NoRepo, discover(tree, cwd)}
               /\ Ok(looked.remote) => hinted.local = NoRepo /\ looked.local = discover(tree, cwd)
                                       /\ discover(tree, cwd).found
<1> DEFINE repo == discover(tree, cwd)
           url == repo_hints(tree, cwd).url
           hinted == resolve_remote_url(fs, cwd, url)
           looked == resolve_remote_url(tree, cwd, None)
<1>1. url = IF repo.found THEN origin_url(tree, repo) ELSE None
  BY DEF repo_hints, NoHints
<1>2. looked = IF repo.found
               THEN IF origin_url(tree, repo) = None
                    THEN [remote |-> Err("NoRemoteConfigured"), local |-> NoRepo]
                    ELSE [remote |-> parse_github_remote(origin_url(tree, repo)), local |-> repo]
               ELSE [remote |-> Err("NoRepoContext"), local |-> NoRepo]
  BY DEF resolve_remote_url
<1>3. url # None => hinted = [remote |-> parse_github_remote(url), local |-> NoRepo]
  BY DEF resolve_remote_url
<1>4. url = None => hinted = looked
  OBVIOUS
<1> HIDE DEF repo, url, hinted, looked
<1>5. CASE url # None
  <2>1. repo.found /\ url = origin_url(tree, repo)
    BY <1>1, <1>5
  <2>2. looked = [remote |-> parse_github_remote(url), local |-> repo]
    BY <1>2, <1>5, <2>1
  <2> QED
    BY <1>3, <1>5, <2>1, <2>2 DEF repo, url, hinted, looked
<1>6. CASE url = None
  <2>1. looked \in {[remote |-> Err("NoRemoteConfigured"), local |-> NoRepo],
                    [remote |-> Err("NoRepoContext"), local |-> NoRepo]}
    BY <1>1, <1>2, <1>6
  <2>2. looked.local = NoRepo /\ ~Ok(looked.remote)
    BY <2>1 DEF Ok, Err
  <2> QED
    BY <1>4, <1>6, <2>2 DEF repo, url, hinted, looked
<1> QED
  BY <1>5, <1>6

\* A refspec whose local side is not HEAD names its branch without the repository.
LEMMA RefspecNamesBranch ==
    ASSUME NEW fs, NEW repo, NEW tree, NEW other, NEW refspec,
           (IF refspec \in DOMAIN AsRefspec THEN AsRefspec[refspec].local ELSE refspec)
               \notin {"HEAD", ""}
    PROVE  branch_from_refspec(fs, repo, refspec) = branch_from_refspec(tree, other, refspec)
BY DEF branch_from_refspec, resolve_local_side

\* The same for a git command, whatever the broker sees of the tree once a URL is hinted.
LEMMA GitHinted ==
    ASSUME NEW tree, NEW cwd, NEW fs, fs = tree \/ repo_hints(tree, cwd).url # None,
           NEW args,
           LET refspec == Nth(positional_after_subcommand(args, "push"), 3)
               local == IF refspec \in DOMAIN AsRefspec THEN AsRefspec[refspec].local ELSE refspec
           IN  ~(first_non_flag(args) = "push" /\ local \in {"HEAD", ""})
    PROVE  resolve_git(fs, cwd, args, repo_hints(tree, cwd)) = resolve_git(tree, cwd, args, NoHints)
<1> DEFINE h == repo_hints(tree, cwd)
           repo == discover(tree, cwd)
           hinted == resolve_remote_url(fs, cwd, h.url)
           looked == resolve_remote_url(tree, cwd, None)
           refspec == Nth(positional_after_subcommand(args, "push"), 3)
<1>1. /\ hinted.remote = looked.remote
      /\ Ok(looked.remote) => hinted.local = NoRepo /\ looked.local = repo /\ repo.found
  BY SameRemote, Zenon
<1>2. NoHints.url = None /\ NoHints.branch = None
  BY DEF NoHints
<1>3. ASSUME first_non_flag(args) = "push"
      PROVE  resolve_git_push(fs, cwd, args, h) = resolve_git_push(tree, cwd, args, NoHints)
  <2> DEFINE Branch1 == IF refspec # None THEN branch_from_refspec(fs, hinted.local, refspec)
                        ELSE IF h.branch # None THEN h.branch ELSE LocalBranch(fs, hinted.local)
             Branch2 == IF refspec # None THEN branch_from_refspec(tree, looked.local, refspec)
                        ELSE LocalBranch(tree, looked.local)
  <2>1. resolve_git_push(fs, cwd, args, h) = Resolved(hinted.remote, "push", Branch1)
    BY DEF resolve_git_push
  <2>2. resolve_git_push(tree, cwd, args, NoHints) = Resolved(looked.remote, "push", Branch2)
    BY <1>2 DEF resolve_git_push
  <2>3. ASSUME Ok(looked.remote) PROVE Branch1 = Branch2
    <3>1. hinted.local = NoRepo /\ looked.local = repo
      BY <1>1, <2>3
    <3>2. CASE refspec # None
      <4>1. branch_from_refspec(fs, hinted.local, refspec) = branch_from_refspec(tree, looked.local, refspec)
        BY <1>3, RefspecNamesBranch
      <4> QED
        BY <3>2, <4>1
    <3>3. CASE refspec = None
      <4>1. LocalBranch(tree, repo) = h.branch
        BY HintedBranch
      <4>2. LocalBranch(fs, NoRepo) = None
        BY DEF LocalBranch, NoRepo
      <4> HIDE DEF h, repo, hinted, looked, refspec
      <4> QED
        BY <3>1, <3>3, <4>1, <4>2
    <3> QED
      BY <3>2, <3>3
  <2> HIDE DEF h, hinted, looked, Branch1, Branch2
  <2>4. CASE Ok(looked.remote)
    BY <1>1, <2>1, <2>2, <2>3, <2>4, Zenon
  <2>5. CASE ~Ok(looked.remote)
    <3>1. \A branch : Resolved(looked.remote, "push", branch) = looked.remote
      BY <2>5 DEF Resolved
    <3> QED
      BY <1>1, <2>1, <2>2, <3>1, Zenon
  <2> QED
    BY <2>4, <2>5
<1>4. \A op : resolve_git_remote_op(fs, cwd, op, h) = resolve_git_remote_op(tree, cwd, op, NoHints)
  BY <1>1, <1>2 DEF resolve_git_remote_op
<1> HIDE DEF h
<1>5. resolve_git(fs, cwd, args, h) = resolve_git(tree, cwd, args, NoHints)
  BY <1>3, <1>4 DEF resolve_git
<1> QED
  BY <1>5 DEF h

\* The same for a gh command, once the hints also name a branch or the tree is the same.
LEMMA GhHinted ==
    ASSUME NEW tree, NEW cwd, NEW fs,
           fs = tree \/ (repo_hints(tree, cwd).url # None /\ repo_hints(tree, cwd).branch # None),
           NEW args
    PROVE  resolve_gh(fs, cwd, args, repo_hints(tree, cwd)) = resolve_gh(tree, cwd, args, NoHints)
<1> DEFINE h == repo_hints(tree, cwd)
           repo == discover(tree, cwd)
           spec == extract_repo_flag(args)
           named == [remote |-> parse_org_repo_pair(spec), local |-> NoRepo]
           hinted == IF spec # None THEN named ELSE resolve_remote_url(fs, cwd, h.url)
           looked == IF spec # None THEN named ELSE resolve_remote_url(tree, cwd, None)
           Branch1 == IF h.branch # None THEN h.branch
                      ELSE LocalBranch(fs, IF hinted.local.found THEN hinted.local
                                           ELSE discover(fs, cwd))
           Branch2 == LocalBranch(tree, IF looked.local.found THEN looked.local ELSE repo)
           class == classify_gh(args)
           ApiRead == [err |-> "ok", org |-> Wildcard, repo |-> Wildcard, scheme |-> "https",
                       operation |-> "gh_api_read", branch |-> None]
           On(found, branch) ==
               Resolved(found.remote, class.operation,
                        IF class.operation = "pr_open" THEN branch ELSE None)
           Answered(found, branch) ==
               CASE ~Ok(class) -> class
                 [] Ok(class) /\ class.operation = "gh_api_read" -> ApiRead
                 [] OTHER -> On(found, branch)
<1>1. NoHints.url = None /\ NoHints.branch = None
  BY DEF NoHints
<1>2. resolve_gh(fs, cwd, args, h) = Answered(hinted, Branch1)
  BY Zenon DEF resolve_gh
<1>3. resolve_gh(tree, cwd, args, NoHints) = Answered(looked, Branch2)
  BY <1>1 DEF resolve_gh
<1>4. /\ hinted.remote = looked.remote
      /\ hinted.local \in {NoRepo, repo} /\ looked.local \in {NoRepo, repo}
  <2>1. CASE spec # None
    BY <2>1
  <2>2. CASE spec = None
    <3>1. hinted = resolve_remote_url(fs, cwd, h.url) /\ looked = resolve_remote_url(tree, cwd, None)
      BY <2>2
    <3> QED
      BY <3>1, SameRemote, Zenon
  <2> QED
    BY <2>1, <2>2
<1>5. ~NoRepo.found
  BY DEF NoRepo
<1>6. LocalBranch(tree, repo) = h.branch
  BY HintedBranch
<1>7. fs = tree \/ h.branch # None
  OBVIOUS
<1>8. Branch1 = Branch2
  <2> HIDE DEF h, repo, hinted, looked
  <2>1. Branch2 = h.branch
    BY <1>4, <1>5, <1>6
  <2>2. CASE h.branch # None
    BY <2>1, <2>2
  <2>3. CASE h.branch = None
    <3>1. discover(fs, cwd) = repo
      BY <1>7, <2>3 DEF repo
    <3>2. Branch1 = LocalBranch(fs, repo)
      BY <1>4, <1>5, <2>3, <3>1
    <3> QED
      BY <1>6, <1>7, <2>1, <2>3, <3>2
  <2> QED
    BY <2>2, <2>3
<1>9. Answered(hinted, Branch1) = Answered(looked, Branch2)
  <2> HIDE DEF h, repo, hinted, looked, Branch1, Branch2, class, ApiRead
  <2> QED
    BY <1>4, <1>8, Zenon
<1> QED
  BY <1>2, <1>3, <1>9 DEF h

\* The broker answers from hints as it would from the tree, read as the user reads it
\* (repo_hints in the client; resolve_request, resolve_remote_url in the broker).
THEOREM HintsReplaceTheTree == Spec => []HintsMatchFallback
<1>1. SessionInv => HintsMatchFallback
  <2> SUFFICES ASSUME SessionInv, Sent, job.tool # "other", ~PushesHead,
                      \/ job.hidden = {}
                      \/ hints.url # None /\ (job.tool = "git" \/ hints.branch # None)
               PROVE  With(hints) = AsUserSees
    BY DEF HintsMatchFallback
  <2> DEFINE tree == Tree[job.tree]
  <2>1. hints = repo_hints(tree, job.cwd)
    BY DEF SessionInv, UserHints
  <2>2. job.hidden = {} => BrokerView = tree
    <3>1. job.tree \in DOMAIN Tree /\ tree = [p \in DOMAIN tree |-> tree[p]]
      BY SessionAssumption DEF SessionInv
    <3> QED
      BY <3>1 DEF BrokerView
  <2> HIDE DEF tree
  <2>3. With(hints) = resolve_for_tool(BrokerView, job.tool, job.args, job.cwd, hints)
    BY DEF With
  <2>4. AsUserSees = resolve_for_tool(tree, job.tool, job.args, job.cwd, NoHints)
    BY DEF AsUserSees, tree
  <2>5. CASE job.tool = "git"
    <3>1. BrokerView = tree \/ hints.url # None
      BY <2>2
    <3>2. resolve_git(BrokerView, job.cwd, job.args, hints) = resolve_git(tree, job.cwd, job.args, NoHints)
      BY <2>1, <2>5, <3>1, GitHinted DEF PushesHead
    <3> QED
      BY <2>3, <2>4, <2>5, <3>2 DEF resolve_for_tool
  <2>6. CASE job.tool # "git"
    <3>1. BrokerView = tree \/ (hints.url # None /\ hints.branch # None)
      BY <2>2, <2>6
    <3>2. resolve_gh(BrokerView, job.cwd, job.args, hints) = resolve_gh(tree, job.cwd, job.args, NoHints)
      BY <2>1, <3>1, GhHinted
    <3> QED
      BY <2>3, <2>4, <2>6, <3>2 DEF resolve_for_tool
  <2> QED
    BY <2>5, <2>6
<1> QED
  BY <1>1, SessionInvariant, PTL

-----------------------------------------------------------------------------
(* Grants.                                                                 *)

\* Two loops that begin alike and go on alike end alike.
LEMMA SameLoop ==
    ASSUME NEW n \in Nat, NEW f, NEW g, f[0] = g[0],
           \A k \in 1..n : f[k - 1] = g[k - 1] => f[k] = g[k]
    PROVE  f[n] = g[n]
<1> DEFINE wrong == {k \in 0..n : f[k] # g[k]}
<1>1. ASSUME wrong # {} PROVE FALSE
  <2>1. wrong \in SUBSET Nat
    OBVIOUS
  <2>2. PICK k \in wrong : \A j \in wrong : k <= j
    <3> HIDE DEF wrong
    <3> QED
      BY <1>1, <2>1, LeastNatural
  <2>3. k \in 1..n /\ k - 1 \in 0..n /\ k - 1 \notin wrong
    BY <2>2
  <2> QED
    BY <2>2, <2>3
<1> QED
  BY <1>1

\* The arguments the client assembles behind the repository: the operands, and the
\* flag with the user if one was given.
LEMMA AssembledArgs ==
    ASSUME NEW line \in Lines
    PROVE  LET rest == Tail(assemble_args(line))
               n == Len(line.operands)
           IN  /\ n \in Nat /\ assemble_args(line)[1] = line.repo
               /\ \A i \in 1..n : rest[i] = line.operands[i]
               /\ line.user = None => Len(rest) = n
               /\ line.user # None => Len(rest) = n + 2 /\ rest[n + 1] = "--user" /\ rest[n + 2] = line.user
<1> DEFINE T == Range(line.operands) \cup {line.repo, line.user, "--user"}
           tail == IF line.user = None THEN <<>> ELSE <<"--user", line.user>>
<1>1. line.operands \in Seq(T) /\ <<line.repo>> \in Seq(T) /\ tail \in Seq(T)
  <2>1. Range(line.operands) \subseteq T /\ line.repo \in T /\ line.user \in T /\ "--user" \in T
    OBVIOUS
  <2>2. line.operands \in Seq(Range(line.operands))
    BY SessionAssumption
  <2> HIDE DEF T
  <2>3. line.operands \in Seq(T)
    BY <2>1, <2>2
  <2> QED
    BY <2>1, <2>3
<1>2. assemble_args(line) = <<line.repo>> \o line.operands \o tail
  BY DEF assemble_args
<1>3. Len(tail) = IF line.user = None THEN 0 ELSE 2
  OBVIOUS
<1>4. line.user # None => tail[1] = "--user" /\ tail[2] = line.user
  OBVIOUS
<1> HIDE DEF tail, T
<1> DEFINE front == <<line.repo>> \o line.operands
<1>5. front \in Seq(T) /\ Len(front) = Len(line.operands) + 1 /\ front[1] = line.repo
      /\ \A i \in 1..Len(line.operands) : front[i + 1] = line.operands[i]
  BY <1>1
<1> HIDE DEF front
<1>6. /\ front \o tail \in Seq(T) /\ Len(front \o tail) = Len(front) + Len(tail)
      /\ \A i \in 1..(Len(front) + Len(tail)) :
            (front \o tail)[i] = IF i <= Len(front) THEN front[i] ELSE tail[i - Len(front)]
  BY <1>1, <1>5, ConcatProperties
<1> DEFINE args == assemble_args(line)
           n == Len(line.operands)
           m == Len(tail)
<1>7. n \in Nat /\ m \in Nat /\ args = front \o tail
  BY <1>1, <1>2 DEF front
<1> HIDE DEF args, n, m
<1>8. args \in Seq(T) /\ Len(args) = n + 1 + m /\ args[1] = line.repo
  BY <1>5, <1>6, <1>7 DEF n, m
<1>9. ASSUME NEW i \in 1..n PROVE args[i + 1] = line.operands[i]
  <2>1. i + 1 \in 1..(n + 1 + m) /\ i + 1 <= n + 1
    BY <1>7
  <2> QED
    BY <1>5, <1>6, <1>7, <2>1 DEF n, m
<1>10. ASSUME NEW i \in 1..m PROVE args[n + 1 + i] = tail[i]
  <2>1. n + 1 + i \in 1..(n + 1 + m) /\ ~(n + 1 + i <= n + 1) /\ n + 1 + i - (n + 1) = i
    BY <1>7
  <2> QED
    BY <1>5, <1>6, <1>7, <2>1 DEF n, m
<1> DEFINE rest == Tail(args)
<1>11. /\ Len(rest) = n + m
       /\ \A i \in 1..(n + m) : rest[i] = args[i + 1]
  <2>1. args # <<>> /\ Len(args) - 1 = n + m
    BY <1>7, <1>8
  <2> QED
    BY <1>8, <2>1, HeadTailProperties
<1> HIDE DEF rest
<1>12. ASSUME NEW i \in 1..n PROVE rest[i] = line.operands[i]
  <2>1. i \in 1..(n + m)
    BY <1>7
  <2> QED
    BY <1>9, <1>11, <2>1
<1>13. line.user = None => Len(rest) = n
  BY <1>3, <1>7, <1>11 DEF m
<1>14. ASSUME line.user # None
       PROVE  Len(rest) = n + 2 /\ rest[n + 1] = "--user" /\ rest[n + 2] = line.user
  <2>1. m = 2
    BY <1>3, <1>14 DEF m
  <2>2. n + 1 \in 1..(n + m) /\ n + 2 \in 1..(n + m) /\ n + 2 = n + 1 + 1 /\ n + 2 + 1 = n + 1 + 2
    BY <1>7, <2>1
  <2>3. rest[n + 1] = args[n + 1 + 1] /\ rest[n + 2] = args[n + 1 + 2]
    BY <1>11, <2>2
  <2>4. args[n + 1 + 1] = tail[1] /\ args[n + 1 + 2] = tail[2]
    <3>1. 1 \in 1..m /\ 2 \in 1..m
      BY <2>1
    <3> QED
      BY <1>10, <3>1
  <2> QED
    BY <1>4, <1>11, <1>14, <2>1, <2>3, <2>4
<1> QED
  BY <1>7, <1>8, <1>12, <1>13, <1>14 DEF args, n, rest

\* What stands so far, the last user and the operands: between two arguments, ...
SoFar(user, operands) == [err |-> "ok", user |-> user, operands |-> operands, flagged |-> FALSE]

\* ... and behind a flag that waits for its value.
Flagged(user, operands) == [err |-> "ok", user |-> user, operands |-> operands, flagged |-> TRUE]

\* A user name the broker takes as the value of the flag.
Named(user) == user # ""

\* The three things an argument can be: an operand, ...
LEMMA ArgIsOperand ==
    ASSUME NEW user, NEW operands, NEW arg, arg # "--user"
    PROVE  AllowArg(SoFar(user, operands), arg) = SoFar(user, Append(operands, arg))
BY DEF AllowArg, SoFar, Flagged

\* ... the flag, ...
LEMMA ArgIsFlag ==
    ASSUME NEW user, NEW operands
    PROVE  AllowArg(SoFar(user, operands), "--user") = Flagged(user, operands)
BY DEF AllowArg, SoFar, Flagged

\* ... or the flag's value.
LEMMA ArgIsUser ==
    ASSUME NEW user, NEW operands, NEW arg, Named(arg)
    PROVE  AllowArg(Flagged(user, operands), arg) = SoFar(arg, operands)
BY DEF AllowArg, SoFar, Flagged, Named

\* Reading the operands one by one, then the flag and its user, gives back what was typed.
LEMMA ArgumentsReadBack ==
    ASSUME NEW T, NEW operands \in Seq(T), NEW n \in Nat, n = Len(operands),
           \A i \in 1..n : operands[i] # "--user",
           NEW user, Named(user),
           NEW rest, NEW m \in Nat, m = Len(rest),
           \A i \in 1..n : rest[i] = operands[i],
           user = None => m = n,
           user # None => m = n + 2 /\ rest[n + 1] = "--user" /\ rest[n + 2] = user
    PROVE  read_allow_args(rest) = SoFar(user, operands)
<1> DEFINE Prefix(i) == SubSeq(operands, 1, i)
           At(i) == IF i <= n THEN SoFar(None, Prefix(i))
                    ELSE IF i = n + 1 THEN Flagged(None, operands)
                    ELSE SoFar(user, operands)
           Is(f) == f = [i \in 0..m |-> IF i = 0 THEN SoFar(None, <<>>)
                                        ELSE AllowArg(f[i - 1], rest[i])]
           after == CHOOSE f : Is(f)
           g == [i \in 0..m |-> At(i)]
<1>1. Prefix(0) = <<>> /\ Prefix(n) = operands
  BY SubSeqEmpty, SubSeqFull
<1>2. ASSUME NEW i \in 1..n PROVE Prefix(i) = Append(Prefix(i - 1), operands[i])
  <2>1. i \in 1..Len(operands) /\ 1 \in 1..Len(operands) /\ i \in 1..i /\ i - 1 \in Int
    OBVIOUS
  <2>2. Prefix(i) = Prefix(i - 1) \o <<operands[i]>>
    BY <2>1, SubSeqRecursiveSecond
  <2>3. \A j \in 1..(i - 1) : operands[j] \in T
    BY ElementOfSeq
  <2>4. Prefix(i - 1) \in Seq(T) /\ operands[i] \in T
    BY <2>1, <2>3, SubSeqProperties, ElementOfSeq
  <2> HIDE DEF Prefix
  <2> QED
    BY <2>2, <2>4, AppendIsConcat
<1> HIDE DEF Prefix
<1>3. read_allow_args(rest) = after[m]
  BY DEF read_allow_args, SoFar
<1>4. At(0) = SoFar(None, <<>>) /\ At(n) = SoFar(None, operands)
  <2>1. 0 <= n /\ n <= n
    OBVIOUS
  <2> QED
    BY <1>1, <2>1, Zenon
<1>5. At(n + 1) = Flagged(None, operands) /\ At(n + 2) = SoFar(user, operands)
  <2>1. ~(n + 1 <= n) /\ ~(n + 2 <= n) /\ n + 2 # n + 1
    OBVIOUS
  <2> QED
    BY <2>1, Zenon
<1>6. ASSUME NEW i \in 0..n PROVE At(i) = SoFar(None, Prefix(i))
  <2>1. i <= n
    OBVIOUS
  <2> QED
    BY <2>1, Zenon
<1> HIDE DEF At
<1>7. ASSUME NEW i \in 1..n PROVE At(i) = AllowArg(At(i - 1), rest[i])
  <2>1. i \in 0..n /\ i - 1 \in 0..n
    OBVIOUS
  <2>2. At(i) = SoFar(None, Prefix(i)) /\ At(i - 1) = SoFar(None, Prefix(i - 1))
    BY <1>6, <2>1, Zenon
  <2>3. rest[i] = operands[i] /\ rest[i] # "--user"
    OBVIOUS
  <2>4. AllowArg(SoFar(None, Prefix(i - 1)), rest[i])
          = SoFar(None, Append(Prefix(i - 1), rest[i]))
    BY <2>3, ArgIsOperand
  <2>5. Prefix(i) = Append(Prefix(i - 1), rest[i])
    BY <1>2, <2>3, Zenon
  <2> QED
    BY <2>2, <2>4, <2>5, Zenon
<1>8. ASSUME m = n + 2
      PROVE  At(n + 1) = AllowArg(At(n), rest[n + 1]) /\ At(n + 2) = AllowArg(At(n + 1), rest[n + 2])
  <2>1. rest[n + 1] = "--user" /\ rest[n + 2] = user
    <3>1. user # None
      BY <1>8
    <3> QED
      BY <3>1, Zenon
  <2>2. AllowArg(SoFar(None, operands), rest[n + 1]) = Flagged(None, operands)
    BY <2>1, ArgIsFlag
  <2>3. AllowArg(Flagged(None, operands), user) = SoFar(user, operands)
    BY ArgIsUser
  <2> QED
    BY <1>4, <1>5, <2>1, <2>2, <2>3, Zenon
<1>9. ASSUME NEW i \in 1..m PROVE At(i) = AllowArg(At(i - 1), rest[i])
  <2>1. CASE i \in 1..n
    BY <1>7, <2>1
  <2>2. CASE i \notin 1..n
    <3>1. m = n + 2 /\ (i = n + 1 \/ i = n + 2) /\ n + 1 - 1 = n /\ n + 2 - 1 = n + 1
      BY <2>2
    <3> QED
      BY <1>8, <3>1
  <2> QED
    BY <2>1, <2>2
<1>10. At(m) = SoFar(user, operands)
  BY <1>4, <1>5
<1>11. Is(g)
  <2>1. ASSUME NEW i \in 0..m
        PROVE  g[i] = IF i = 0 THEN SoFar(None, <<>>) ELSE AllowArg(g[i - 1], rest[i])
    <3>1. CASE i = 0
      BY <1>4, <3>1
    <3>2. CASE i # 0
      <4>1. i \in 1..m /\ i - 1 \in 0..m
        BY <3>2
      <4> QED
        BY <1>9, <3>2, <4>1
    <3> QED
      BY <3>1, <3>2
  <2>2. g = [i \in 0..m |-> g[i]]
    OBVIOUS
  <2> HIDE DEF g
  <2> QED
    BY <2>1, <2>2
<1>12. Is(after)
  <2> HIDE DEF Is, g
  <2> QED
    BY <1>11
<1> HIDE DEF after
<1>13. \A i \in 0..m : after[i] = IF i = 0 THEN SoFar(None, <<>>)
                                 ELSE AllowArg(after[i - 1], rest[i])
  BY <1>12
<1> HIDE DEF Is
<1>14. after[m] = g[m]
  <2>1. after[0] = g[0]
    <3>1. 0 \in 0..m
      OBVIOUS
    <3>2. after[0] = SoFar(None, <<>>)
      BY <1>13, <3>1, Zenon
    <3>3. g[0] = At(0)
      BY <3>1, Zenon
    <3> QED
      BY <1>4, <3>2, <3>3, Zenon
  <2>2. ASSUME NEW k \in 1..m, after[k - 1] = g[k - 1] PROVE after[k] = g[k]
    <3>1. k \in 0..m /\ k - 1 \in 0..m /\ k # 0
      OBVIOUS
    <3>2. after[k] = AllowArg(after[k - 1], rest[k])
      BY <1>13, <3>1
    <3>3. g[k] = AllowArg(g[k - 1], rest[k])
      BY <1>9, <3>1
    <3> HIDE DEF g
    <3> QED
      BY <2>2, <3>2, <3>3
  <2> HIDE DEF g
  <2> QED
    BY <2>1, <2>2, SameLoop
<1>15. g[m] = At(m)
  OBVIOUS
<1> QED
  BY <1>3, <1>10, <1>14, <1>15, Zenon

\* The operands parse exactly when they are one built-in role or operations only, and
\* what they parse to is what they say.
LEMMA OperandsSay ==
    ASSUME NEW operands, operands \in Seq(Range(operands))
    PROVE  /\ OperandsParse(operands) <=> Grantable(operands)
           /\ OperandsParse(operands) => SpecIsTyped(parse_operations_spec(operands), operands)
<1>1. Range(operands) = {operands[i] : i \in DOMAIN operands}
  BY DEF Range
<1>2. \A role : operands = <<role>> <=> Len(operands) = 1 /\ operands[1] = role
  OBVIOUS
<1>3. (\A i \in DOMAIN operands : operands[i] \in Operation) <=> Range(operands) \subseteq Operation
  BY <1>1
<1>4. OperandsParse(operands) <=> Grantable(operands)
  BY <1>2, <1>3 DEF OperandsParse, Grantable, is_known_role
<1>5. CASE Len(operands) = 1 /\ is_known_role(operands[1])
  <2>1. SpecIsTyped(parse_operations_spec(operands), operands)
    BY <1>2, <1>5 DEF SpecIsTyped, parse_operations_spec
  <2> QED
    BY <1>4, <2>1
<1>6. CASE ~(Len(operands) = 1 /\ is_known_role(operands[1]))
  <2>1. SpecIsTyped(parse_operations_spec(operands), operands)
    BY <1>1, <1>6 DEF SpecIsTyped, parse_operations_spec
  <2> QED
    BY <1>4, <2>1
<1> QED
  BY <1>5, <1>6

\* What `ghbrk allow` grants is what was typed, or nothing: for every line, the broker
\* accepts it exactly when its operands are one built-in role or operations only, and
\* reads the repository, the role or operations and the user of the flag or, without
\* one, the caller (assemble_args, parse_allow_args, parse_operations_spec).
THEOREM GrantsArriveAsTyped == Spec => []GrantAsTyped
<1>1. SessionInv => GrantAsTyped
  <2> SUFFICES ASSUME SessionInv, grant.kind = "parsed", Named(grant.line.user),
                      "--user" \notin Range(grant.line.operands)
               PROVE  /\ Ok(grant.request) <=> Grantable(grant.line.operands)
                      /\ Ok(grant.request) =>
                            /\ grant.request.org = Segments[grant.line.repo][1]
                            /\ grant.request.repo = Segments[grant.line.repo][2]
                            /\ grant.request.user = IF grant.line.user = None THEN Caller
                                                    ELSE grant.line.user
                            /\ SpecIsTyped(grant.request.operations, grant.line.operands)
    BY DEF GrantAsTyped, Named
  <2>1. PICK line \in Lines :
            /\ validate_repo_spec(line.repo) /\ grant.line = line
            /\ grant.request = parse_allow_args(assemble_args(line), Caller)
    <3>1. grant # Nothing
      BY DEF Nothing
    <3> QED
      BY <3>1 DEF SessionInv
  <2> DEFINE rest == Tail(assemble_args(line))
             end == SoFar(line.user, line.operands)
  <2>2. line.operands \in Seq(Range(line.operands))
    BY SessionAssumption
  <2>3. assemble_args(line)[1] = line.repo
    BY AssembledArgs
  <2>4. read_allow_args(rest) = end
    <3>1. /\ \A i \in 1..Len(line.operands) : rest[i] = line.operands[i]
          /\ line.user = None => Len(rest) = Len(line.operands)
          /\ line.user # None => /\ Len(rest) = Len(line.operands) + 2
                                 /\ rest[Len(line.operands) + 1] = "--user"
                                 /\ rest[Len(line.operands) + 2] = line.user
      BY AssembledArgs
    <3>2. Len(line.operands) \in Nat /\ Len(rest) \in Nat
      BY <2>2, <3>1, AssembledArgs
    <3>3. \A i \in 1..Len(line.operands) : line.operands[i] # "--user"
      BY <2>1, <2>2 DEF Range
    <3>4. Named(line.user) /\ end = SoFar(line.user, line.operands)
      BY <2>1, Zenon
    <3> HIDE DEF rest, end
    <3>5. PICK n \in Nat, m \in Nat : n = Len(line.operands) /\ m = Len(rest)
      BY <3>2, Zenon
    <3>6. /\ \A i \in 1..n : line.operands[i] # "--user"
          /\ \A i \in 1..n : rest[i] = line.operands[i]
          /\ line.user = None => m = n
          /\ line.user # None => /\ m = n + 2
                                 /\ rest[n + 1] = "--user" /\ rest[n + 2] = line.user
      BY <3>1, <3>3, <3>5, Zenon
    <3>7. read_allow_args(rest) = SoFar(line.user, line.operands)
      BY <2>2, <3>4, <3>5, <3>6, ArgumentsReadBack
    <3> QED
      BY <3>4, <3>7, Zenon
  <2> DEFINE pair == parse_repo_spec(line.repo)
  <2>5. Ok(pair) /\ pair.org = Segments[line.repo][1] /\ pair.repo = Segments[line.repo][2]
    BY <2>1 DEF validate_repo_spec, parse_repo_spec, parse_org_repo_pair, Ok, Err
  <2>6. Ok(end) /\ end.operands = line.operands /\ end.user = line.user /\ ~end.flagged
    BY DEF Ok, SoFar
  <2> HIDE DEF end, pair
  <2>7. parse_allow_args(assemble_args(line), Caller) =
          IF OperandsParse(line.operands)
          THEN [err |-> "ok", org |-> pair.org, repo |-> pair.repo,
                user |-> IF line.user = None THEN Caller ELSE line.user,
                operations |-> parse_operations_spec(line.operands)]
          ELSE Err("malformed")
    BY <2>1, <2>3, <2>4, <2>5, <2>6 DEF parse_allow_args, pair
  <2>8. /\ OperandsParse(line.operands) <=> Grantable(line.operands)
        /\ OperandsParse(line.operands) =>
              SpecIsTyped(parse_operations_spec(line.operands), line.operands)
    BY <2>2, OperandsSay
  <2>9. CASE OperandsParse(line.operands)
    BY <2>1, <2>5, <2>7, <2>8, <2>9 DEF Ok
  <2>10. CASE ~OperandsParse(line.operands)
    BY <2>1, <2>7, <2>8, <2>10 DEF Ok, Err
  <2> QED
    BY <2>9, <2>10
<1> QED
  BY <1>1, SessionInvariant, PTL
=============================================================================
