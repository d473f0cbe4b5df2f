------------------------------ MODULE Dispatch ------------------------------
(***************************************************************************)
(* One user's session with ghbrk, end to end for the routing question: the *)
(* user asks `ghbrk explain` about a command, runs it, and asks for the    *)
(* policy of a repository or for a grant.  Each side of the socket has its *)
(* own classifiers (src/cmd/git.rs, src/cmd/policy.rs, src/cmd/allow.rs on *)
(* the client, src/broker.rs in the daemon), which must agree; the client  *)
(* reads the working tree as the user, the broker as its own user, which   *)
(* may not be allowed into some directories.  What happens to a routed     *)
(* request afterwards is Broker's subject.                                 *)
(***************************************************************************)
EXTENDS Resolver, AllowOperands

CONSTANTS
    Tree,         \* tree name |-> its file system, as the user sees it
    Jobs,         \* commands: [tool, args, tree, cwd, hidden]
    Docs,         \* policy documents in force
    Specs,        \* what is typed behind `ghbrk policy`
    Lines,        \* what is typed behind `ghbrk allow`: [repo, operands, user]
    Caller,       \* the user name of the session
    WordSegments, \* segments made of the characters `allow` accepts
    Truth         \* tree |-> cwd |-> [url, branch, org, repo] of the repository git finds
                  \* from there: its origin or, without one, its first remote

ASSUME SessionAssumption ==
    /\ \A t \in DOMAIN Tree : Tree[t] = [p \in DOMAIN Tree[t] |-> Tree[t][p]]
    /\ \A j \in Jobs : j.tree \in DOMAIN Tree
    /\ \A line \in Lines : line.operands \in Seq(Range(line.operands))

VARIABLES
    job,      \* the command of this session
    doc,      \* the broker's policy
    pc,       \* how far the session is
    hints,    \* url and branch on the request in flight
    told,     \* what explain answered
    outcome,  \* what running the command led to
    report,   \* the answer to the policy question
    grant     \* what the broker read from an allow request

vars == <<job, doc, pc, hints, told, outcome, report, grant>>

\* A relayed command counts as explained only with git or gh in front.
Tools == {"git", "gh", "other"}
RemoteSubcommand == {"push", "fetch", "clone", "pull"}

-----------------------------------------------------------------------------
(* Classifiers. *)

\* The client's own filter.
is_remote_op(args) == first_non_flag(args) \in RemoteSubcommand

\* The broker keeps its own copy of the loop and of the table.
git_first_subcommand(args) ==
    FirstWord(args, {"-c", "-C", "--config", "--git-dir", "--work-tree", "--namespace"})

git_is_remote_op(args) == git_first_subcommand(args) \in RemoteSubcommand

BrokerOps ==
    ({"pr"} \X {"create", "comment", "merge", "close", "review"}) \cup
    ({"issue"} \X {"create", "comment", "close"}) \cup
    ({"release"} \X {"create", "delete", "delete-asset", "download", "edit", "list",
                     "upload", "view"})

\* Seeded fault: the read-only release commands are left to passthrough.
gh_is_broker_op_NoReads(args) ==
    LET Listed(group, action) ==
            group = "api" \/ <<group, action>>
                \in BrokerOps \ {<<"release", "list">>, <<"release", "view">>}
    IN  Listed(Nth(NonFlags(args), 1), Nth(NonFlags(args), 2))

gh_is_broker_op(args) ==
    LET Listed(group, action) == group = "api" \/ <<group, action>> \in BrokerOps
    IN  Listed(Nth(NonFlags(args), 1), Nth(NonFlags(args), 2))

\* Both ends split at the first "/" and want one non-empty name on each side.
is_valid_repo_spec(spec) == Ok(parse_org_repo_pair(spec))
parse_repo_spec(spec) == parse_org_repo_pair(spec)

\* The allow client also looks at the characters.
validate_repo_spec(spec) ==
    Ok(parse_org_repo_pair(spec))
      /\ {Segments[spec][1], Segments[spec][2]} \subseteq WordSegments

\* Seeded fault: the user goes in front of the operands, without its flag.
assemble_args_NoFlag(line) ==
    <<line.repo>> \o (IF line.user = None THEN <<>> ELSE <<line.user>>) \o line.operands

assemble_args(line) ==
    <<line.repo>> \o line.operands
        \o (IF line.user = None THEN <<>> ELSE <<"--user", line.user>>)

\* One argument behind the repository: the value of a `--user` in front of it,
\* another `--user`, or an operand.  The last user wins.
AllowArg(acc, arg) ==
    CASE acc.err # "ok" -> acc
      [] acc.err = "ok" /\ acc.flagged ->
            IF arg = "" THEN Err("malformed") ELSE [acc EXCEPT !.flagged = FALSE, !.user = arg]
      [] OTHER ->
            IF arg = "--user" THEN [acc EXCEPT !.flagged = TRUE]
            ELSE [acc EXCEPT !.operands = Append(@, arg)]

\* What stands in the arguments behind the repository, read from the left.
read_allow_args(rest) ==
    LET after[i \in 0..Len(rest)] ==
            IF i = 0 THEN [err |-> "ok", user |-> None, operands |-> <<>>, flagged |-> FALSE]
            ELSE AllowArg(after[i - 1], rest[i])
    IN  after[Len(rest)]

parse_allow_args(args, caller) ==
    LET Read(pair, end) ==
            IF ~Ok(pair) \/ ~Ok(end) THEN Err("malformed")
            ELSE IF end.flagged \/ ~OperandsParse(end.operands) THEN Err("malformed")
            ELSE [err |-> "ok", org |-> pair.org, repo |-> pair.repo,
                  user |-> IF end.user = None THEN caller ELSE end.user,
                  operations |-> parse_operations_spec(end.operands)]
    IN  Read(parse_repo_spec(args[1]), read_allow_args(Tail(args)))

-----------------------------------------------------------------------------
(* Resolution and its consequences in the broker. *)

\* What the broker can see: everything outside the directories closed to it.
BrokerView ==
    [p \in {q \in DOMAIN Tree[job.tree] : \A h \in job.hidden : ~IsStrictPrefix(h, q)}
        |-> Tree[job.tree][p]]

\* resolve_request and resolve_for_tool dispatch alike.
resolve_for_tool(fs, tool, args, cwd, hint) ==
    IF tool = "git" THEN resolve_git(fs, cwd, args, hint) ELSE resolve_gh(fs, cwd, args, hint)

Question(resolved) ==
    [user |-> Caller, org |-> resolved.org, repo |-> resolved.repo,
     operation |-> resolved.operation, branch |-> resolved.branch]

\* Which credential the environment of the child carries.
build_env(tool, resolved) ==
    IF tool = "gh" THEN "token" ELSE IF resolved.scheme = "ssh" THEN "ssh-agent" ELSE "askpass"

\* Seeded fault: git is always shown the SSH credential.
inject_label_Ssh(tool, resolved) == IF tool = "gh" THEN "token" ELSE "ssh-agent"

inject_label(tool, resolved) ==
    CASE tool = "gh"                               -> "token"
      [] tool # "gh" /\ resolved.scheme = "ssh"    -> "ssh-agent"
      [] OTHER                                     -> "askpass"

Nothing == [kind |-> "none"]
Answer(kind) == [kind |-> kind]
Judged(kind, resolved, decision, inject) ==
    [kind |-> kind, request |-> Question(resolved), decision |-> decision, inject |-> inject]

Init ==
    /\ job \in Jobs
    /\ doc \in Docs
    /\ pc = "start"
    /\ hints = NoHints
    /\ told = Nothing /\ outcome = Nothing /\ report = Nothing /\ grant = Nothing

\* `ghbrk explain`: hint pass, then the request goes out.  With no command the
\* client fails on its own.
ExplainCommand ==
    /\ pc = "start"
    /\ \/ /\ job.tool = "other" /\ job.args = <<>>
          /\ told' = Answer("error") /\ pc' = "explained" /\ UNCHANGED hints
       \/ /\ job.tool # "other" \/ job.args # <<>>
          /\ hints' = repo_hints(Tree[job.tree], job.cwd)
          /\ pc' = "explaining" /\ UNCHANGED told
    /\ UNCHANGED <<job, doc, outcome, report, grant>>

\* The broker's answer to the request in flight, as the broker sees the tree.
With(hint) == resolve_for_tool(BrokerView, job.tool, job.args, job.cwd, hint)

Explained(resolved) ==
    LET Report(decision) ==
            Judged("report", resolved, decision,
                   IF decision = "allow" THEN inject_label(job.tool, resolved) ELSE "none")
    IN  IF Ok(resolved) THEN Report(evaluate(doc, Question(resolved)))
        ELSE Answer("resolver error")

\* The broker's side of explain.  A local git command is answered without
\* resolution; every gh command is resolved.
HandleExplain ==
    /\ pc = "explaining"
    /\ told' = CASE job.tool = "other" -> Answer("error")
                 [] job.tool = "git" /\ ~git_is_remote_op(job.args) -> Answer("local")
                 [] OTHER -> Explained(With(hints))
    /\ pc' = "explained"
    /\ UNCHANGED <<job, doc, hints, outcome, report, grant>>

\* `ghbrk git` and `ghbrk gh`: the git client refuses local commands with
\* exit 2, everything else is sent with a fresh hint pass.
RunCommand ==
    /\ pc = "explained" /\ job.tool # "other"
    /\ IF job.tool = "git" /\ ~is_remote_op(job.args)
       THEN outcome' = Answer("refused by the client") /\ pc' = "ran" /\ UNCHANGED hints
       ELSE hints' = repo_hints(Tree[job.tree], job.cwd) /\ pc' = "running" /\ UNCHANGED outcome
    /\ UNCHANGED <<job, doc, told, report, grant>>

Served(resolved) ==
    LET Act(decision) ==
            IF decision = "allow"
            THEN Judged("executed", resolved, decision, build_env(job.tool, resolved))
            ELSE Judged("denied", resolved, decision, "none")
    IN  IF Ok(resolved) THEN Act(evaluate(doc, Question(resolved)))
        ELSE Answer("resolver error")

\* The broker's routing of a git or gh request (credentials are in order).
ServeCommand ==
    /\ pc = "running"
    /\ outcome' = CASE job.tool = "gh" /\ ~gh_is_broker_op(job.args)   -> Answer("passthrough")
                    [] job.tool = "git" /\ ~git_is_remote_op(job.args) -> Answer("refused as local")
                    [] OTHER -> Served(With(hints))
    /\ pc' = "ran"
    /\ UNCHANGED <<job, doc, hints, told, report, grant>>

\* Every operation the report is about.
ALL_OPS ==
    {"push", "fetch", "pull", "clone", "pr_open", "pr_comment", "pr_close", "pr_merge",
     "pr_review", "issue_open", "issue_comment", "issue_close", "release_create",
     "gh_api_read"}

\* Seeded fault: every operation is asked of all repositories at once, as `gh api` is.
PolicyReport_Everywhere(pair) ==
    LET allowed == {op \in ALL_OPS :
            evaluate(doc, [user |-> Caller, org |-> Wildcard, repo |-> Wildcard,
                           operation |-> op, branch |-> NoBranch]) = "allow"}
    IN  [kind |-> "report", org |-> pair.org, repo |-> pair.repo,
         allowed |-> allowed, forbidden |-> ALL_OPS \ allowed]

\* handle_policy_request: one evaluation per operation, without a branch.
PolicyReport(pair) ==
    LET allowed == {op \in ALL_OPS :
            evaluate(doc, [user |-> Caller, org |-> pair.org, repo |-> pair.repo,
                           operation |-> op, branch |-> NoBranch]) = "allow"}
    IN  [kind |-> "report", org |-> pair.org, repo |-> pair.repo,
         allowed |-> allowed, forbidden |-> ALL_OPS \ allowed]

Asking == pc = "ran" \/ (pc = "explained" /\ job.tool = "other")

\* `ghbrk policy`: checked by the client, then parsed and answered by the broker.
PolicyQuery(spec) ==
    /\ Asking
    /\ report' = IF ~is_valid_repo_spec(spec) THEN Answer("refused by the client")
                 ELSE IF ~Ok(parse_repo_spec(spec)) THEN Answer("refused by the broker")
                 ELSE PolicyReport(parse_repo_spec(spec))
    /\ pc' = "done"
    /\ UNCHANGED <<job, doc, hints, told, outcome, grant>>

\* `ghbrk allow`: checked and assembled by the client, parsed by the broker.
AllowLine(line) ==
    /\ Asking
    /\ grant' = IF ~validate_repo_spec(line.repo)
                THEN [kind |-> "refused by the client", line |-> line]
                ELSE [kind |-> "parsed", line |-> line,
                      request |-> parse_allow_args(assemble_args(line), Caller)]
    /\ pc' = "done"
    /\ UNCHANGED <<job, doc, hints, told, outcome, report>>

Next ==
    \/ ExplainCommand \/ HandleExplain \/ RunCommand \/ ServeCommand
    \/ \E spec \in Specs : PolicyQuery(spec)
    \/ \E line \in Lines : AllowLine(line)

Spec == Init /\ [][Next]_vars

-----------------------------------------------------------------------------
(* Properties. *)

IsJudged(answer) == answer.kind \in {"report", "denied", "executed"}

\* The two tables of gh operations agree: a command the resolver knows is never
\* run unjudged as a passthrough, and a brokered command other than `gh api` is
\* never turned away as unknown.
ClassifiersAgree ==
    job.tool = "gh" /\ outcome.kind # "none" =>
        IF outcome.kind = "passthrough" THEN ~Ok(classify_gh(job.args))
        ELSE Nth(NonFlags(job.args), 1) = "api" \/ Ok(classify_gh(job.args))

Sent == pc \in {"explaining", "running"}

\* The broker may not search the caller's directory.
Blind == \E h \in job.hidden : IsPrefix(h, job.cwd)

\* The command speaks of the origin of the caller's own repository: it names no other
\* remote or URL, and no option ahead of it sends git elsewhere.
SpeaksOfOrigin ==
    /\ \A i \in DOMAIN job.args :
          IsFlag(job.args[i]) => job.args[i] \in {"--force", "--namespace"}
    /\ Nth(positional_after_subcommand(job.args, first_non_flag(job.args)), 2) \in {None, "origin"}

\* A push, fetch or pull that speaks of origin is judged on the repository git finds
\* from the caller's directory, by its origin or, where it has none, its first remote,
\* and a push that names no branch on the branch checked out there: through worktrees,
\* submodules, links and redirected common directories, and never on an enclosing
\* repository, whether the client's hints or the broker's own look answered.  (The
\* resolver looks at no other remote, URL, -C or --git-dir of the command line: what
\* those reach, the judgement does not claim.  Left out too is a broker without hints
\* that may not search the caller's directory: it can find the repository around it.)
JudgedOnOwnRepository ==
    /\ job.tool = "git" /\ IsJudged(outcome) /\ outcome.request.operation # "clone"
    /\ SpeaksOfOrigin
    /\ hints.url # None \/ ~Blind
    => LET truth == Truth[job.tree][job.cwd] IN
       /\ outcome.request.org = truth.org /\ outcome.request.repo = truth.repo
       /\ outcome.request.operation = "push" /\ Nth(positional_after_subcommand(job.args, "push"), 3) = None
          => outcome.request.branch = truth.branch

\* A push whose refspec leaves the branch to HEAD.
PushesHead ==
    LET refspec == Nth(positional_after_subcommand(job.args, "push"), 3)
        local == IF refspec \in DOMAIN AsRefspec THEN AsRefspec[refspec].local ELSE refspec
    IN  job.tool = "git" /\ first_non_flag(job.args) = "push" /\ local \in {"HEAD", ""}

\* Without hints, from the tree as the user sees it.
AsUserSees == resolve_for_tool(Tree[job.tree], job.tool, job.args, job.cwd, NoHints)

\* The answer depends neither on who read the tree nor on what is closed to the
\* broker: where the broker can read everything, and also where it cannot but the
\* hints carry what the command needs of the tree, it resolves to what the user's
\* own view gives: same error, or same repository, operation, credential and,
\* unless the refspec says HEAD, branch.
HintsMatchFallback ==
    Sent /\ job.tool # "other" /\ ~PushesHead
      /\ \/ job.hidden = {}
         \/ hints.url # None /\ (job.tool = "git" \/ hints.branch # None)
    => With(hints) = AsUserSees

Predicts ==
    CASE told.kind = "local"          -> outcome.kind = "refused by the client"
      [] told.kind = "resolver error" -> outcome.kind = "resolver error"
      [] OTHER -> /\ IsJudged(told) /\ IsJudged(outcome)
                  /\ told.request = outcome.request
                  /\ told.decision = outcome.decision
                  /\ told.inject = outcome.inject

\* What explain says of a git command or a brokered gh command is what running
\* it then does: scope, target, decision and credential; so the two copies of the
\* git subcommand loop agree, and what `ghbrk git` sends is never refused as local.
ExplainPredicts ==
    outcome.kind \notin {"none", "passthrough"} => Predicts

\* One built-in role, or operations only.
Grantable(operands) ==
    \/ \E role \in BUILTIN_ROLE_NAMES : operands = <<role>>
    \/ operands # <<>> /\ Range(operands) \subseteq Operation

\* An operations spec is the operands: their one role, or exactly their operations.
SpecIsTyped(spec, operands) ==
    IF spec.kind = "role" THEN operands = <<spec.name>> ELSE spec.ops = Range(operands)

\* What `ghbrk allow` grants is what was typed or nothing: past the client's check of
\* the repository, one built-in role or a list of operations reaches the broker whole,
\* for the repository and the user typed, or the caller without one; any other
\* operands, roles of the operator's own among them, are refused, never read as less
\* or more than was typed.  (The broker cannot tell an operand `--user`, which can
\* only be typed behind `--`, from the flag.)
GrantAsTyped ==
    /\ grant.kind = "parsed" /\ grant.line.user # ""
    /\ "--user" \notin Range(grant.line.operands)
    =>
        /\ Ok(grant.request) <=> Grantable(grant.line.operands)
        /\ Ok(grant.request) =>
              /\ grant.request.org = Segments[grant.line.repo][1]
              /\ grant.request.repo = Segments[grant.line.repo][2]
              /\ grant.request.user = IF grant.line.user = None THEN Caller ELSE grant.line.user
              /\ SpecIsTyped(grant.request.operations, grant.line.operands)

\* The policy report is true of the commands that follow or went before: on the
\* reported repository a listed operation is executed if it is listed as allowed
\* and denied if not.  (A push depends on its branch, which the report leaves
\* out, and `gh api` is judged on no repository.)
ReportTrue ==
    /\ report.kind = "report" /\ IsJudged(outcome)
    /\ outcome.request.org = report.org /\ outcome.request.repo = report.repo
    /\ outcome.request.operation \in (report.allowed \cup report.forbidden) \ {"push", "gh_api_read"}
    => (outcome.kind = "executed" <=> outcome.request.operation \in report.allowed)
=============================================================================
