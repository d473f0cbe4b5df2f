------------------------------ MODULE MCBroker ------------------------------
(* Small instances of Broker for TLC. *)
EXTENDS Broker, TLC

CONSTANTS c1, c2

MCUser == {"alice", "bob", "root"}
MCOrg == {"acme"}
MCRepo == {"web"}
MCBranch == {"main", "rel"}
MCGlob == {"*", "rel*"}
MCBadGlob == {"["}
MCGlobMatch == {<<"*", "main">>, <<"*", "rel">>, <<"rel*", "rel">>}
MCCustomRole == {"ci"}

Alice == [known |-> TRUE, user |-> "alice", uid |-> 1000]
Root == [known |-> TRUE, user |-> "root", uid |-> 0]
Stranger == [known |-> FALSE, user |-> "bob", uid |-> 1001]

RoleSpec(name) == [kind |-> "role", name |-> name]
ListSpec(ops) == [kind |-> "list", ops |-> ops]
RuleFor(user, spec, branches, effect) ==
    [user |-> user, org |-> "acme", repo |-> "*", operations |-> spec,
     branches |-> branches, effect |-> effect]

NoRoles == [name \in RoleName |-> Undeclared]

\* Pushes to release branches are denied to everyone, by every document of the
\* operator; alice may read.
NoReleases == RuleFor("*", ListSpec({"push"}), {"rel*"}, "deny")
MCPolicy ==
    [rules |-> <<NoReleases,
                 RuleFor("alice", RoleSpec("read-only"), {"*"}, "allow")>>,
     roles |-> NoRoles]

\* A hand edit that denies alice's fetch and narrows the write role, and one
\* that does not load (an empty operations list).
EditedPolicy ==
    [rules |-> <<RuleFor("alice", ListSpec({"fetch"}), {"*"}, "deny"), NoReleases>>,
     roles |-> [name \in RoleName |-> IF name = "write" THEN {"push"} ELSE Undeclared]]
BrokenPolicy ==
    [rules |-> <<RuleFor("alice", ListSpec({}), {"*"}, "allow"), NoReleases>>, roles |-> NoRoles]

At(op, branch) == [org |-> "acme", repo |-> "web", operation |-> op, branch |-> branch]
NoTarget == At("fetch", NoBranch)
Give(user, operands) == [user |-> user, org |-> "acme", repo |-> "web", operands |-> operands]
NoGrant == Give("alice", <<>>)

Run(tool, form, target) == [tool |-> tool, form |-> form, target |-> target, grant |-> NoGrant]
Allow(form, grant) == [tool |-> "allow", form |-> form, target |-> NoTarget, grant |-> grant]

Fetch == Run("git", "resolved", NoTarget)
PushMain == Run("git", "resolved", At("push", "main"))
PushRelease == Run("git", "resolved", At("push", "rel"))
PushHead == Run("git", "resolved", At("push", NoBranch))
OpenPr == Run("gh", "resolved", At("pr_open", NoBranch))
RepoView == Run("gh", "passthrough", NoTarget)
GiveWrite == Allow("wellformed", Give("alice", <<"write">>))
GivePush == Allow("wellformed", Give("alice", <<"push", "fetch">>))

MCRequests ==
    {Fetch, PushMain, PushRelease, PushHead, OpenPr, RepoView,
     Run("git", "local", NoTarget), Run("gh", "unresolved", NoTarget),
     Run("check", "wellformed", NoTarget), Run("policy", "wellformed", NoTarget),
     Run("explain", "resolved", NoTarget),
     GiveWrite, GivePush,
     Allow("malformed", NoGrant), Allow("wellformed", Give("bob", <<"frobnicate">>))}

GrantRequests == {GiveWrite, GivePush}

\* Root grants to itself, so that one peer both changes and uses the policy.
LiveRequests == {Allow("wellformed", Give("root", <<"write">>)), PushMain, RepoView}

AllPeers == {Alice, Root, Stranger}
OnlyRoot == {Root}
NoEdits == {}
HandEdits == {EditedPolicy, BrokenPolicy}

\* Bounds on what is combined.  Any two requests meet in one life of the
\* daemon, each from the peers whose standing decides it (a stranger's is
\* refused unread: one request of its will do), and one of a pair with a grant
\* may lose an audit record; root's grants and alice's pushes also meet a hand
\* edit or a lost record, a restart and one failure; grants and a passthrough
\* meet two faults and three starts.
Unedited ==
    \A edit \in HandEdits : \A i \in DOMAIN disk.rules : disk.rules[i] # edit.rules[1]
Decisive(c) ==
    CASE peer[c] = Stranger -> req[c] = Fetch
      [] peer[c] = Root     -> req[c].tool = "allow" \/ req[c] = PushMain
      [] peer[c] = Alice    -> req[c].tool # "allow" \/ req[c] = GiveWrite
Asked(requests) ==
    \A c \in Conn : /\ req[c] \in requests
                    /\ peer[c] = IF req[c].tool = "allow" THEN Root ELSE Alice
Scenario ==
    \/ /\ starts <= 1 /\ faults = 0 /\ Unedited
       /\ \A c \in Conn : Decisive(c)
       /\ auditErrors = 0 \/ \E c \in Conn : req[c] = GiveWrite
    \/ /\ starts <= 2 /\ faults + auditErrors <= 1 /\ Asked({GiveWrite, PushMain})
       /\ Unedited \/ auditErrors = 0
    \/ /\ auditErrors = 0 /\ Unedited /\ Asked(GrantRequests \cup {RepoView})
       /\ starts <= 2 \/ Asked(GrantRequests)

Symmetry == Permutations(Conn)
=============================================================================
