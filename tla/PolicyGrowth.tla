---------------------------- MODULE PolicyGrowth ----------------------------
(***************************************************************************)
(* What a sequence of grants does to the decisions of a policy document.   *)
(* The only change ghbrk makes to a document is to load it, push one rule  *)
(* to its end and write it back (append_rule_atomically in src/broker.rs); *)
(* this module lets that happen any number of times to an arbitrary        *)
(* operator's document, and states what may and may not change.            *)
(***************************************************************************)
EXTENDS Policy

CONSTANTS
    Bases,     \* documents the operator may have installed
    Grants,    \* operations specs an `allow` can carry, after parsing
    MaxRules   \* bound: rules in the document

\* parse_operations_spec yields a built-in role or a non-empty list.
GrantSpec ==
    [kind : {"role"}, name : BUILTIN_ROLE_NAMES] \cup
    [kind : {"list"}, ops : (SUBSET Operation) \ {{}}]

ASSUME GrowthAssumption ==
    /\ Bases \subseteq Document
    /\ \A g \in Grants : g \in GrantSpec
    /\ MaxRules \in Nat

VARIABLE file   \* the policy file's content

\* The rule handle_allow builds.
AllowRule(user, org, repo, spec) ==
    [user |-> user, org |-> org, repo |-> repo, operations |-> spec,
     branches |-> {Wildcard}, effect |-> "allow"]

GrowthInit == file \in Bases

\* A document that does not load is refused and stays as it is.
Push(user, org, repo, spec) ==
    /\ Len(file.rules) < MaxRules
    /\ validate(file)
    /\ file' = WithRule(file, AllowRule(user, org, repo, spec))

GrowthNext ==
    \E user \in User, org \in Org, repo \in Repo, spec \in Grants :
        Push(user, org, repo, spec)

GrowthSpec == GrowthInit /\ [][GrowthNext]_file

-----------------------------------------------------------------------------

\* The file always holds a document of the right shape.
GrowthTypeOK == file \in Document

\* A grant turns "no matching rule" into "allow" or changes nothing: what an
\* earlier rule decided, allowed or denied, stays decided the same way.
GrantOnlyOpens ==
    [][\A r \in Request :
          \/ evaluate(file', r) = evaluate(file, r)
          \/ evaluate(file, r) = "no matching rule" /\ evaluate(file', r) = "allow"]_file

\* A document that loads still loads after a grant, so the reload that follows
\* the write cannot fail and neither can the next start of the daemon.
LoadableStaysLoadable == [][validate(file) => validate(file')]_file

\* The first-match definition is what the loop over the rules computes.
EvaluateIsLoop == \A r \in Request : evaluate(file, r) = EvaluateLoop(file, r)

\* `ghbrk policy` asks about a push without naming a branch.  If the answer is
\* allow, then on no branch is the push left to the default: it is allowed, or
\* an explicit rule denies it.
ReportedPushNeverDefaulted ==
    \A r \in Request :
        r.operation = "push" /\ r.branch = NoBranch /\ evaluate(file, r) = "allow" =>
            \A b \in Branch : evaluate(file, [r EXCEPT !.branch = b]) # "no matching rule"
=============================================================================
