--------------------------- MODULE MCPolicyGrowth ---------------------------
(* Operator documents of up to two rules, extended by up to two grants. *)
EXTENDS PolicyGrowth, SequencesExt

MCUser == {"alice", "bob"}
MCOrg == {"acme"}
MCRepo == {"web"}
MCBranch == {"main", "rel"}
MCGlob == {"*", "rel*"}
MCBadGlob == {"["}
MCGlobMatch == {<<"*", "main">>, <<"*", "rel">>, <<"rel*", "rel">>}
MCCustomRole == {"ci"}

RoleSpec(name) == [kind |-> "role", name |-> name]
ListSpec(ops) == [kind |-> "list", ops |-> ops]

Undeclare == [name \in RoleName |-> Undeclared]

\* None declared; "write" shadowed and "ci" declared; "ci" declared empty.
RoleTables ==
    {Undeclare,
     [Undeclare EXCEPT !["write"] = {"push"}, !["ci"] = {"fetch", "pr_open"}],
     [Undeclare EXCEPT !["ci"] = {}]}

RulePool ==
    {[user |-> u, org |-> "*", repo |-> "web", operations |-> s, branches |-> b, effect |-> e] :
        u \in {"*", "alice"},
        s \in {RoleSpec("write"), RoleSpec("ci"), ListSpec({"push"})},
        b \in {{"rel*"}, {"*"}},
        e \in {"allow", "deny"}}
    \cup
    {[user |-> "*", org |-> "acme", repo |-> "*", operations |-> s, branches |-> b,
      effect |-> "allow"] : s \in {ListSpec({})}, b \in {{"*"}, {"["}}}

MCBases ==
    {[rules |-> rs, roles |-> t] : rs \in BoundedSeq(RulePool, 2), t \in RoleTables}

MCGrants == {RoleSpec("write"), RoleSpec("read-only"), ListSpec({"push", "fetch"})}
=============================================================================
