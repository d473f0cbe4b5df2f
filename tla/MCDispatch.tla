----------------------------- MODULE MCDispatch -----------------------------
(* Small instances of Dispatch: argvs, working trees and documents. *)
EXTENDS Dispatch

MCUser == {"alice"}
MCOrg == {"acme"}
MCRepo == {"web", "lib"}
MCBranch == {"main", "feat", "rel", "HEAD"}
MCGlob == {"*", "rel"}
MCCustomRole == {"deployer"}
MCGlobMatch == ({"*"} \X MCBranch) \cup {<<"rel", "rel">>}

MCFlag ==
    {"-c", "-C", "--config", "--git-dir", "--work-tree", "--namespace", "--force",
     "-X", "--method", "-f", "-H", "-R", "--repo", "-XPOST", "--method=get",
     "--repo=acme/lib", "--title", "--paginate"}
MCSegments ==
    ("acme/web" :> <<"acme", "web">>) @@ ("acme/lib" :> <<"acme", "lib">>) @@
    ("a/b/c" :> <<"a", "b", "c">>) @@ ("/web" :> <<"", "web">>) @@ ("a b/c" :> <<"a b", "c">>)
MCWithoutHeads ==
    ("refs/heads/rel" :> "rel") @@ ("refs/heads/main" :> "main") @@ ("refs/heads/feat" :> "feat")
MCWithoutDotGit == ("web.git" :> "web") @@ ("lib.git" :> "lib") @@ (".git" :> "")
MCAttachedMethod == ("-XPOST" :> "POST") @@ ("--method=get" :> "get")
MCAttachedRepo == "--repo=acme/lib" :> "acme/lib"
MCIsGet == {"GET", "get"}
MCWordSegments == {"acme", "web", "lib", "a", "b", "c"}
MCAsRefspec ==
    ("HEAD:rel" :> [local |-> "HEAD", remote |-> "rel"]) @@
    ("feat:" :> [local |-> "feat", remote |-> ""]) @@
    ("feat:refs/heads/rel" :> [local |-> "feat", remote |-> "refs/heads/rel"]) @@
    ("HEAD:HEAD" :> [local |-> "HEAD", remote |-> "HEAD"])

UrlOf(prefix, authority, path) ==
    [prefix |-> prefix, authority |-> authority, path |-> path, separated |-> TRUE]
Gh == <<<<"github.com">>>>
MCAsUrl ==
    ("git@web" :> UrlOf("git@", Gh, <<"acme", "web.git">>)) @@
    ("https-lib" :> UrlOf("https://", Gh, <<"acme", "lib", "">>)) @@
    ("https-user" :> UrlOf("https://", <<<<"bot", "pw">>, <<"github.com", "443">>>>,
                           <<"acme", "web.git">>)) @@
    ("ssh-lib" :> UrlOf("ssh://git@", <<<<"github.com", "22">>>>, <<"", "acme", "lib.git">>)) @@
    ("gitlab" :> UrlOf("git@", <<<<"gitlab.com">>>>, <<"acme", "web.git">>)) @@
    ("userinfo" :> UrlOf("https://", <<<<"github.com">>, <<"gitlab.com">>>>,
                         <<"acme", "web">>)) @@
    ("deep" :> UrlOf("https://", Gh, <<"acme", "web", ".git">>)) @@
    ("nopath" :> [UrlOf("git@", Gh, <<>>) EXCEPT !.separated = FALSE])

-----------------------------------------------------------------------------
(* Working trees. *)

D(p) == p :> [kind |-> "dir"]
F(p, text) == p :> [kind |-> "file", text |-> text]
L(p, to) == p :> [kind |-> "link", to |-> to]
At(path) == [named |-> TRUE, absolute |-> TRUE, up |-> 0, path |-> path]
Up(n, path) == [named |-> TRUE, absolute |-> FALSE, up |-> n, path |-> path]
Blank == [named |-> FALSE]
Remote(name) == [kind |-> "remote", text |-> name]
UrlLine(url) == [kind |-> "url", text |-> url]
Section == [kind |-> "section", text |-> "core"]
Comment == [kind |-> "skip", text |-> "#"]
Origin(url) == <<Section, Remote("origin"), UrlLine(url)>>

W == <<"w">>
S == <<"w", "sub">>
\* A git directory at p with a config and a HEAD.
Git(p, config, head) == D(p) @@ F(Append(p, "config"), config) @@ F(Append(p, "HEAD"), head)
Ref(branch) == [symbolic |-> TRUE,
                target |-> CHOOSE t \in DOMAIN MCWithoutHeads : MCWithoutHeads[t] = branch]
Detached == [symbolic |-> FALSE, target |-> "c0ffee"]
OtherRef == [symbolic |-> TRUE, target |-> "refs/remotes/origin/main"]
Dot(p) == Append(p, ".git")
Outer == Git(Dot(W), Origin("git@web"), Ref("main"))

MCTree ==
    [plain    |-> Outer,
     https    |-> Git(Dot(W), Origin("https-user"), Ref("rel")),
     sshUrl   |-> Git(Dot(W), Origin("ssh-lib"), Ref("feat")),
     gitlab   |-> Git(Dot(W), Origin("gitlab"), Ref("main")),
     detached |-> Git(Dot(W), Origin("git@web"), Detached),
     bisect   |-> Git(Dot(W), Origin("git@web"), OtherRef),
     remotes  |-> Git(Dot(W), <<UrlLine("gitlab"), Remote("up"), UrlLine("https-lib"), Comment,
                                Remote("origin"), UrlLine("git@web"), UrlLine("gitlab")>>, Ref("main")),
     noOrigin |-> Git(Dot(W), <<Remote("up"), UrlLine("https-lib"), Section, UrlLine("gitlab")>>,
                      Ref("main")),
     linked   |-> L(Dot(W), <<"store">>) @@ Git(<<"store">>, Origin("git@web"), Ref("feat")),
     worktree |-> Git(<<"m", ".git">>, Origin("git@web"), Ref("main"))
                    @@ F(Dot(W), At(<<"m", ".git", "worktrees", "wt">>))
                    @@ D(<<"m", ".git", "worktrees", "wt">>)
                    @@ F(<<"m", ".git", "worktrees", "wt", "commondir">>, Up(2, <<>>))
                    @@ F(<<"m", ".git", "worktrees", "wt", "HEAD">>, Ref("feat")),
     module   |-> Outer @@ F(Dot(S), Up(1, <<".git", "modules", "sub">>))
                    @@ Git(<<"w", ".git", "modules", "sub">>, Origin("https-lib"), Ref("feat")),
     redirect |-> Git(Dot(W), Origin("https-lib"), Ref("feat"))
                    @@ F(<<"w", ".git", "commondir">>, At(<<"store">>))
                    @@ Git(<<"store">>, Origin("git@web"), Ref("main")),
     blank    |-> Outer @@ F(<<"w", ".git", "commondir">>, Blank),
     dangling |-> Outer @@ L(Dot(S), <<"gone">>),
     garbage  |-> Outer @@ F(Dot(S), Blank),
     noConfig |-> Outer @@ D(Dot(S)),
     socket   |-> Outer @@ (Dot(S) :> [kind |-> "other"]),
     noRemote |-> Outer @@ Git(Dot(S), <<Section>>, Ref("feat")),
     none     |-> D(W)]

Known(url, branch, repo) == [url |-> url, branch |-> branch, org |-> "acme", repo |-> repo]
Outside == [url |-> None, branch |-> None, org |-> None, repo |-> None]
Everywhere(t) == [p \in {W, S} |-> t]
InSub(t) == (W :> Known("git@web", "main", "web")) @@ (S :> t)
MCTruth ==
    [plain    |-> Everywhere(Known("git@web", "main", "web")),
     https    |-> Everywhere(Known("https-user", "rel", "web")),
     sshUrl   |-> Everywhere(Known("ssh-lib", "feat", "lib")),
     gitlab   |-> Everywhere([Outside EXCEPT !.url = "gitlab", !.branch = "main"]),
     detached |-> Everywhere(Known("git@web", None, "web")),
     bisect   |-> Everywhere(Known("git@web", None, "web")),
     remotes  |-> Everywhere(Known("git@web", "main", "web")),
     noOrigin |-> Everywhere(Known("https-lib", "main", "lib")),
     linked   |-> Everywhere(Known("git@web", "feat", "web")),
     worktree |-> Everywhere(Known("git@web", "feat", "web")),
     module   |-> InSub(Known("https-lib", "feat", "lib")),
     redirect |-> Everywhere(Known("git@web", "feat", "web")),
     blank    |-> Everywhere(Known("git@web", "main", "web")),
     dangling |-> InSub(Outside),
     garbage  |-> InSub(Outside),
     noConfig |-> InSub(Outside),
     socket   |-> InSub(Outside),
     noRemote |-> InSub([Outside EXCEPT !.branch = "feat"]),
     none     |-> Everywhere(Outside)]

-----------------------------------------------------------------------------
(* Commands. *)

GitArgs ==
    {<<>>, <<"status">>, <<"--force">>, <<"push">>, <<"push", "origin">>,
     <<"push", "origin", "feat">>, <<"push", "origin", "refs/heads/rel">>,
     <<"push", "--force", "origin", "HEAD:rel">>, <<"push", "origin", "feat:refs/heads/rel">>,
     <<"push", "origin", "feat:">>, <<"push", "origin", "HEAD">>, <<"push", "origin", "HEAD:HEAD">>,
     <<"push", "up", "main">>, <<"-C", "sub", "fetch">>, <<"-c", "k=v", "push">>,
     <<"--namespace", "ns", "fetch", "origin">>,
     <<"--namespace", "status", "pull">>, <<"fetch">>, <<"pull", "origin">>, <<"clone">>,
     <<"clone", "https-lib">>, <<"clone", "userinfo">>, <<"clone", "deep">>,
     <<"clone", "nopath">>, <<"clone", "gitlab">>, <<"clone", "main">>}

GhArgs ==
    {<<>>, <<"pr">>, <<"pr", "create", "--title", "t">>, <<"pr", "view">>, <<"pr", "merge", "4">>,
     <<"pr", "create", "-R", "acme/lib">>, <<"pr", "create", "--repo=acme/lib">>,
     <<"pr", "comment", "-R", "a/b/c">>, <<"pr", "close", "--repo">>,
     <<"issue", "create">>, <<"issue", "list">>, <<"release", "view">>,
     <<"release", "delete-asset", "v1">>, <<"repo", "view">>, <<"api">>,
     <<"api", "user">>, <<"api", "-X", "GET", "user">>, <<"api", "-XPOST", "user">>,
     <<"api", "--method=get", "user">>, <<"api", "-H", "k", "--paginate", "user">>,
     <<"-H", "api", "user">>, <<"api", "user", "-X">>}

Job(tool, args, tree, cwd, hidden) ==
    [tool |-> tool, args |-> args, tree |-> tree, cwd |-> cwd, hidden |-> hidden]

CommandJobs(hidden) ==
    {Job("git", args, tree, cwd, hidden) :
        args \in GitArgs, tree \in DOMAIN MCTree, cwd \in {W, S}} \cup
    {Job("gh", args, tree, cwd, hidden) :
        args \in GhArgs, tree \in DOMAIN MCTree, cwd \in {W, S}} \cup
    {Job("other", args, "plain", W, hidden) : args \in {<<>>, <<"hg", "push">>}}

\* The broker may read everything, nothing below the home directory /w, or
\* nothing below /w/sub.
MCJobs == CommandJobs({}) \cup CommandJobs({W}) \cup CommandJobs({S})

RuleFor(org, repo, spec, branches, effect) ==
    [user |-> "alice", org |-> org, repo |-> repo, operations |-> spec,
     branches |-> branches, effect |-> effect]
RoleSpec(name) == [kind |-> "role", name |-> name]
NoRoles == [name \in RoleName |-> Undeclared]
\* Releases may not be pushed to; everything else on acme is allowed.
Wide ==
    [rules |-> <<RuleFor("acme", "*", [kind |-> "list", ops |-> {"push"}], {"rel"}, "deny"),
                 RuleFor("*", "*", RoleSpec("admin"), {"*"}, "allow")>>, roles |-> NoRoles]
\* Read access to one repository, and a role of the operator's own.
Narrow == [rules |-> <<RuleFor("acme", "web", RoleSpec("read-only"), {"*"}, "allow")>>,
           roles |-> [NoRoles EXCEPT !["deployer"] = {"fetch"}]]
MCDocs == {Wide, Narrow}

MCSpecs == {"acme/web", "a/b/c", "/web", "word"}
Line(repo, operands, user) == [repo |-> repo, operands |-> operands, user |-> user]
Word == {"push", "fetch", "write", "deployer", "frobnicate"}
MCLines ==
    {Line("acme/web", operands, user) :
        operands \in {<<>>} \cup {<<w>> : w \in Word} \cup (Word \X Word),
        user \in {None, "bob"}} \cup
    {Line("acme/web", <<"push">>, ""), Line("acme/web", <<"push", "--user", "bob">>, None),
     Line("a b/c", <<"push">>, None), Line("a/b/c", <<"push">>, None)}
=============================================================================
