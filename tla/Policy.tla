------------------------------- MODULE Policy -------------------------------
(***************************************************************************)
(* The policy engine of ghbrk (src/policy.rs): rules in document order, a  *)
(* role table that shadows the built-in roles, first match wins, and deny  *)
(* when nothing matches.  Pure operators: the broker applies them to the   *)
(* snapshot a connection took, to the live handle and to the file on disk. *)
(*                                                                         *)
(* Data abstraction.  Vectors whose order the engine never looks at (the   *)
(* operations of a list or a role, the branch patterns of a rule) are      *)
(* sets; the rules, whose order decides, are a sequence.  The payload of   *)
(* gh_api_read is dropped, as Operation::same_kind drops it.  Operators    *)
(* about a rule take the document it stands in, because a role name means  *)
(* whatever that document's role table says.                               *)
(***************************************************************************)
EXTENDS Naturals, Sequences

CONSTANTS
    User,        \* user names a rule or a request can name
    Org,         \* organisation names
    Repo,        \* repository names
    Branch,      \* branch names
    NoBranch,    \* the `None` of Request::branch
    Wildcard,    \* the literal "*"
    Glob,        \* branch patterns the glob crate compiles, Wildcard included
    BadGlob,     \* branch patterns the glob crate refuses
    GlobMatch,   \* external: the <<pattern, branch>> pairs glob::Pattern::matches accepts
    CustomRole,  \* role names that are not built in
    Undeclared   \* what a role table holds for a name it does not declare

ASSUME GlobAssumption ==
    /\ GlobMatch \subseteq Glob \X Branch
    /\ Wildcard \in Glob
    /\ Glob \cap BadGlob = {}
    /\ \A b \in Branch : <<Wildcard, b>> \in GlobMatch
    /\ NoBranch \notin Branch

BUILTIN_ROLE_NAMES == {"read-only", "write", "maintain", "admin"}

ASSUME RoleAssumption == CustomRole \cap BUILTIN_ROLE_NAMES = {}

Operation ==
    {"push", "fetch", "pull", "clone",
     "pr_open", "pr_comment", "pr_close", "pr_merge", "pr_review",
     "issue_open", "issue_comment", "issue_close",
     "release_create", "release_delete", "release_edit", "release_upload",
     "release_delete_asset", "release_list", "release_view",
     "release_download", "gh_api_read"}

HasBranch(op) == op = "push"

-----------------------------------------------------------------------------
(* Built-in roles. *)

ReadOnlyRole ==
    {"fetch", "clone", "pull", "pr_review", "gh_api_read",
     "release_list", "release_view", "release_download"}

WriteRole ==
    ReadOnlyRole \cup
        {"push", "pr_open", "pr_comment", "pr_close", "pr_merge",
         "issue_open", "issue_comment", "issue_close"}

MaintainRole ==
    WriteRole \cup
        {"release_create", "release_delete", "release_edit",
         "release_upload", "release_delete_asset"}

builtin_roles ==
    [name \in BUILTIN_ROLE_NAMES |->
        CASE name = "read-only" -> ReadOnlyRole
          [] name = "write"     -> WriteRole
          [] OTHER              -> MaintainRole]

-----------------------------------------------------------------------------
(* Documents and requests. *)

RoleName == BUILTIN_ROLE_NAMES \cup CustomRole

OperationsSpec ==
    [kind : {"role"}, name : RoleName] \cup
    [kind : {"list"}, ops : SUBSET Operation]

Rule ==
    [user : User \cup {Wildcard}, org : Org \cup {Wildcard},
     repo : Repo \cup {Wildcard}, operations : OperationsSpec,
     branches : SUBSET (Glob \cup BadGlob), effect : {"allow", "deny"}]

RoleTable == [RoleName -> (SUBSET Operation) \cup {Undeclared}]

Document == [rules : Seq(Rule), roles : RoleTable]

Request ==
    [user : User, org : Org, repo : Repo, operation : Operation,
     branch : Branch \cup {NoBranch}]

-----------------------------------------------------------------------------
(* Evaluation. *)

\* Seeded fault: only the roles a document declares are known.
RoleKnown_DeclaredOnly(policy, name) == policy.roles[name] # Undeclared

RoleKnown(policy, name) ==
    policy.roles[name] # Undeclared \/ name \in BUILTIN_ROLE_NAMES

\* A user-defined role takes priority over a built-in one of the same name.
resolve_role(policy, name) ==
    IF policy.roles[name] # Undeclared THEN policy.roles[name]
                                       ELSE builtin_roles[name]

SpecKnown(policy, spec) ==
    spec.kind = "role" => RoleKnown(policy, spec.name)

rule_operations(policy, rule) ==
    IF rule.operations.kind = "list" THEN rule.operations.ops
    ELSE resolve_role(policy, rule.operations.name)

field_matches(pattern, value) == pattern = Wildcard \/ pattern = value

\* Seeded fault: a push without a branch is covered by any pattern.
branch_matches_AnyPattern(branches, request) ==
    \/ ~HasBranch(request.operation)
    \/ request.branch = NoBranch /\ branches # {}
    \/ request.branch # NoBranch
         /\ \E p \in branches : <<p, request.branch>> \in GlobMatch

\* A push without a branch is covered only by the literal "*"; a pattern that
\* does not compile covers nothing.
branch_matches(branches, request) ==
    \/ ~HasBranch(request.operation)
    \/ request.branch = NoBranch /\ Wildcard \in branches
    \/ request.branch # NoBranch
         /\ \E p \in branches : <<p, request.branch>> \in GlobMatch

rule_matches(policy, rule, request) ==
    /\ field_matches(rule.user, request.user)
    /\ field_matches(rule.org, request.org)
    /\ field_matches(rule.repo, request.repo)
    /\ SpecKnown(policy, rule.operations)
    /\ request.operation \in rule_operations(policy, rule)
    /\ branch_matches(rule.branches, request)

Matching(policy, request) ==
    {i \in DOMAIN policy.rules : rule_matches(policy, policy.rules[i], request)}

\* Seeded fault: the last matching rule wins.
FirstMatch_Last(policy, request) ==
    CHOOSE i \in Matching(policy, request) :
        \A j \in Matching(policy, request) : j <= i

FirstMatch(policy, request) ==
    CHOOSE i \in Matching(policy, request) :
        \A j \in Matching(policy, request) : i <= j

\* The two reasons a denial can give are kept apart.
Decision == {"allow", "denied by rule", "no matching rule"}

evaluate(policy, request) ==
    IF Matching(policy, request) = {} THEN "no matching rule"
    ELSE IF policy.rules[FirstMatch(policy, request)].effect = "allow"
         THEN "allow" ELSE "denied by rule"

\* The loop of Policy::evaluate as it is written, rule by rule.
EvaluateLoop(policy, request) ==
    LET n == Len(policy.rules)
        from[i \in 1..(n + 1)] ==
            IF i > n THEN "no matching rule"
            ELSE IF rule_matches(policy, policy.rules[i], request)
                 THEN IF policy.rules[i].effect = "allow" THEN "allow" ELSE "denied by rule"
                 ELSE from[i + 1]
    IN  from[1]

-----------------------------------------------------------------------------
(* Loading and extending a document. *)

RuleValid(policy, rule) ==
    /\ rule.operations.kind = "list" => rule.operations.ops # {}
    /\ SpecKnown(policy, rule.operations)
    /\ rule.branches \cap BadGlob = {}

validate(policy) ==
    /\ \A name \in RoleName : policy.roles[name] # {}
    /\ \A i \in DOMAIN policy.rules : RuleValid(policy, policy.rules[i])

\* Seeded fault: the grant is put in front of the operator's rules.
WithRule_Front(policy, rule) == [policy EXCEPT !.rules = <<rule>> \o @]

\* Seeded fault: the effect is written back under the name of its enum variant.
WithRule_VariantName(policy, rule) ==
    [policy EXCEPT !.rules = Append(@, [rule EXCEPT !.effect = "Allow"])]

\* policy.rules.push(rule)
WithRule(policy, rule) == [policy EXCEPT !.rules = Append(@, rule)]
=============================================================================
