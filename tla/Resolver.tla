------------------------------ MODULE Resolver ------------------------------
(***************************************************************************)
(* From a command line to a policy question (src/resolver.rs): which       *)
(* repository a working directory belongs to, which operation an argv      *)
(* asks for, and on which organisation, repository and branch.  The same   *)
(* operators serve the client's hint pass, which reads the file system as  *)
(* the invoking user, and the broker, which reads it as its own user.      *)
(*                                                                         *)
(* Data abstraction.  A text is an atomic token.  What the code finds by   *)
(* splitting a text at a character is given by one constant function per   *)
(* kind of split, defined on the tokens that have the character.  A path   *)
(* is a sequence of names and the file system a function from the paths    *)
(* that exist to what is there; a path the reader may not search is simply *)
(* not in its domain, since every probe of the code treats the two alike.  *)
(***************************************************************************)
EXTENDS Policy, SequencesExt

CONSTANTS
    Flag,            \* tokens that begin with "-"
    AsUrl,           \* token |-> the parts of a remote URL
    AsRefspec,       \* token with ":" |-> [local, remote]
    Segments,        \* token with "/" |-> its segments
    WithoutHeads,    \* token "refs/heads/x" |-> x
    WithoutDotGit,   \* name "x.git" |-> x
    AttachedMethod,  \* token "-XM" or "--method=M" |-> M
    AttachedRepo,    \* token "--repo=S" |-> S
    IsGet,           \* tokens equal to GET in any case
    GITHUB_HOST

None == NoBranch   \* the one absent value: no branch, no URL, no token

ASSUME TokenAssumption ==
    /\ {"-X", "--method", "-R", "--repo"} \subseteq Flag
    /\ None \notin Flag
    /\ DOMAIN AttachedMethod \cup DOMAIN AttachedRepo \subseteq Flag

IsFlag(t) == t \in Flag
NonFlags(args) == SelectSeq(args, LAMBDA t : ~IsFlag(t))
Nth(s, n) == IF n \in DOMAIN s THEN s[n] ELSE None
StripWith(f, t) == IF t \in DOMAIN f THEN f[t] ELSE t

\* The argument behind the first token of a set, or the value attached to it.
FlagValue(args, spaced, attached) ==
    LET hits == {i \in DOMAIN args : args[i] \in spaced \cup DOMAIN attached}
        ValueAt(i) == IF args[i] \in spaced THEN Nth(args, i + 1) ELSE attached[args[i]]
    IN  IF hits = {} THEN None ELSE ValueAt(Min(hits))

Err(e) == [err |-> e]
Ok(r) == r.err = "ok"

-----------------------------------------------------------------------------
(* Remote URLs.  A URL has a prefix, an authority (split at "@", each part  *)
(* split at ":") and the segments of its path; a text without the separator *)
(* between the two has no path.                                             *)

PlainText == [prefix |-> "", authority |-> <<<<>>>>, path |-> <<>>, separated |-> FALSE]
UrlText(t) == IF t \in DOMAIN AsUrl THEN AsUrl[t] ELSE PlainText

\* Slashes around a path do not count.
TrimmedPath(path) ==
    LET used == {i \in DOMAIN path : path[i] # ""}
    IN  IF used = {} THEN <<>> ELSE SubSeq(path, Min(used), Max(used))

\* Two non-empty segments, the second without a trailing ".git".
split_org_repo(path) ==
    LET Split(inner) ==
            IF Len(inner) = 2 /\ StripWith(WithoutDotGit, Last(inner)) # ""
            THEN [err |-> "ok", org |-> inner[1], repo |-> StripWith(WithoutDotGit, inner[2])]
            ELSE Err("InvalidRemoteUrl")
    IN  Split(TrimmedPath(path))

OnGithub(host, path, scheme) ==
    LET Over(pair) ==
            IF ~Ok(pair) THEN pair
            ELSE [err |-> "ok", org |-> pair.org, repo |-> pair.repo, scheme |-> scheme]
    IN  IF host # GITHUB_HOST THEN Err("NonGithubHost") ELSE Over(split_org_repo(path))

\* All that stands before the first ":" must be the host.
parse_scp_like(url) ==
    IF url.separated
    THEN OnGithub(IF Len(url.authority) = 1 THEN url.authority[1][1] ELSE None, url.path, "ssh")
    ELSE Err("InvalidRemoteUrl")

\* The host stands after the last "@" and before the port.
parse_authority_path(url, scheme) ==
    IF url.separated THEN OnGithub(Last(url.authority)[1], url.path, scheme)
    ELSE Err("InvalidRemoteUrl")

parse_url(url) ==
    CASE url.prefix = "git@"                     -> parse_scp_like(url)
      [] url.prefix \in {"ssh://git@", "ssh://"} -> parse_authority_path(url, "ssh")
      [] url.prefix = "https://"                 -> parse_authority_path(url, "https")
      [] OTHER                                   -> Err("InvalidRemoteUrl")

parse_github_remote(t) == parse_url(UrlText(t))

-----------------------------------------------------------------------------
(* Repository discovery. *)

\* One line of a config file: a [remote "name"] header, another section, a
\* url assignment, or a comment, blank or other assignment.
ConfigLine(acc, line) ==
    CASE line.kind = "remote"  -> [acc EXCEPT !.current = line.text]
      [] line.kind = "section" -> [acc EXCEPT !.current = None]
      [] line.kind = "url" /\ acc.current # None ->
            [acc EXCEPT
                !.origin = IF @ = None /\ acc.current = "origin" THEN line.text ELSE @,
                !.first  = IF @ = None THEN line.text ELSE @]
      [] OTHER -> acc

parse_remote_url(lines) ==
    LET Chosen(end) == IF end.origin # None THEN end.origin ELSE end.first
    IN  Chosen(FoldLeft(ConfigLine, [current |-> None, origin |-> None, first |-> None], lines))

\* External: where a path leads once its one symbolic link is followed.
Real(fs, path) ==
    LET links == {n \in 1..Len(path) :
                    SubSeq(path, 1, n) \in DOMAIN fs /\ fs[SubSeq(path, 1, n)].kind = "link"}
        Follow(n) == fs[SubSeq(path, 1, n)].to \o SubSeq(path, n + 1, Len(path))
    IN  IF links = {} THEN path ELSE Follow(Min(links))

\* External: what a probe of a path finds.
Stat(fs, path) ==
    LET At(real) == IF real \in DOMAIN fs THEN fs[real] ELSE [kind |-> "absent"]
    IN  At(Real(fs, path))

\* External: Path::join, with ".." steps counted.
Join(base, target) ==
    IF target.absolute THEN target.path
    ELSE SubSeq(base, 1, Len(base) - target.up) \o target.path

NoRepo == [found |-> FALSE]

\* A relative pointer starts at the directory that holds the `.git` file.
private_dir_from_pointer(work_dir, target) == Join(work_dir, target)

\* The first line of a file, if it is one that names a path.
NamesPath(entry) == entry.kind = "file" /\ entry.text.named

common_dir_from_pointer(fs, private_dir) ==
    LET Follow(entry) ==
            IF NamesPath(entry) THEN Join(private_dir, entry.text) ELSE private_dir
    IN  Follow(Stat(fs, Append(private_dir, "commondir")))

LocalRepo(fs, private_dir) ==
    LET Under(common) ==
            IF Stat(fs, Append(common, "config")).kind = "file"
            THEN [found |-> TRUE, private_dir |-> private_dir, common_dir |-> common]
            ELSE NoRepo
    IN  Under(common_dir_from_pointer(fs, private_dir))

\* A directory is the private directory, a file names it in its first line,
\* and anything else (a dangling link, a socket) is no repository.
from_git_entry(fs, work_dir) ==
    LET Opened(entry) ==
            CASE entry.kind = "dir" -> LocalRepo(fs, Append(work_dir, ".git"))
              [] NamesPath(entry)   ->
                    LocalRepo(fs, private_dir_from_pointer(work_dir, entry.text))
              [] OTHER              -> NoRepo
    IN  Opened(Stat(fs, Append(work_dir, ".git")))

\* Seeded fault: an entry that cannot be followed is walked past.
discover_Usable(fs, cwd) ==
    LET hits == {n \in 0..Len(cwd) : from_git_entry(fs, SubSeq(cwd, 1, n)).found}
    IN  IF hits = {} THEN NoRepo ELSE from_git_entry(fs, SubSeq(cwd, 1, Max(hits)))

\* The nearest `.git` entry of any kind decides, usable or not.
discover(fs, cwd) ==
    LET hits == {n \in 0..Len(cwd) : Append(SubSeq(cwd, 1, n), ".git") \in DOMAIN fs}
    IN  IF hits = {} THEN NoRepo ELSE from_git_entry(fs, SubSeq(cwd, 1, Max(hits)))

origin_url(fs, repo) == parse_remote_url(Stat(fs, Append(repo.common_dir, "config")).text)

\* "ref: refs/heads/x" names x; a detached HEAD or another ref names no branch.
parse_head_branch(text) ==
    IF text.symbolic /\ text.target \in DOMAIN WithoutHeads THEN WithoutHeads[text.target]
    ELSE None

\* HEAD belongs to the worktree.
head_branch(fs, repo) ==
    LET Read(head) == IF head.kind = "file" THEN parse_head_branch(head.text) ELSE None
    IN  Read(Stat(fs, Append(repo.private_dir, "HEAD")))

NoHints == [url |-> None, branch |-> None]

repo_hints(fs, cwd) ==
    LET Of(repo) ==
            IF repo.found THEN [url |-> origin_url(fs, repo), branch |-> head_branch(fs, repo)]
            ELSE NoHints
    IN  Of(discover(fs, cwd))

-----------------------------------------------------------------------------
(* git. *)

GIT_GLOBAL_VALUE_FLAGS == {"-c", "-C", "--config", "--git-dir", "--work-tree", "--namespace"}

\* The first token that is neither a flag nor the value of a flag of `valued`.
FirstWord(args, valued) ==
    LET n == Len(args)
        from[i \in 1..(n + 2)] ==
            IF i > n THEN None
            ELSE IF ~IsFlag(args[i]) THEN args[i]
            ELSE IF args[i] \in valued THEN from[i + 2] ELSE from[i + 1]
    IN  from[1]

first_non_flag(args) == FirstWord(args, GIT_GLOBAL_VALUE_FLAGS)

positional_after_subcommand(args, subcmd) ==
    LET hits == {i \in DOMAIN args : args[i] = subcmd}
    IN  IF hits = {} THEN <<>> ELSE NonFlags(SubSeq(args, Min(hits), Len(args)))

\* The remote of the hint or, without a hint, of the discovered repository.
resolve_remote_url(fs, cwd, hint) ==
    LET Named(repo, url) ==
            IF url = None THEN [remote |-> Err("NoRemoteConfigured"), local |-> NoRepo]
            ELSE [remote |-> parse_github_remote(url), local |-> repo]
        Of(repo) ==
            IF repo.found THEN Named(repo, origin_url(fs, repo))
            ELSE [remote |-> Err("NoRepoContext"), local |-> NoRepo]
    IN  IF hint # None THEN [remote |-> parse_github_remote(hint), local |-> NoRepo]
        ELSE Of(discover(fs, cwd))

\* Seeded fault: the fallback asks for the remote only.
LocalBranch_Forgotten(fs, repo) == None

\* The branch HEAD names in the repository, if there is one.
LocalBranch(fs, repo) == IF repo.found THEN head_branch(fs, repo) ELSE None

\* `HEAD` stands for the branch of the discovered repository; without one it
\* stays the word it is.
resolve_local_side(fs, repo, local) ==
    LET Or(branch) == IF branch # None THEN branch ELSE StripWith(WithoutHeads, local)
    IN  Or(IF local \in {"HEAD", ""} THEN LocalBranch(fs, repo) ELSE None)

branch_from_refspec(fs, repo, refspec) ==
    IF refspec \notin DOMAIN AsRefspec THEN resolve_local_side(fs, repo, refspec)
    ELSE IF AsRefspec[refspec].remote \notin {"", "HEAD"}
    THEN StripWith(WithoutHeads, AsRefspec[refspec].remote)
    ELSE resolve_local_side(fs, repo, AsRefspec[refspec].local)

Resolved(remote, operation, branch) ==
    IF ~Ok(remote) THEN remote
    ELSE [err |-> "ok", org |-> remote.org, repo |-> remote.repo, scheme |-> remote.scheme,
          operation |-> operation, branch |-> branch]

resolve_git_push(fs, cwd, args, hints) ==
    LET PushBranch(repo, refspec) ==
            IF refspec # None THEN branch_from_refspec(fs, repo, refspec)
            ELSE IF hints.branch # None THEN hints.branch
            ELSE LocalBranch(fs, repo)
        Push(found) ==
            Resolved(found.remote, "push",
                     PushBranch(found.local, Nth(positional_after_subcommand(args, "push"), 3)))
    IN  Push(resolve_remote_url(fs, cwd, hints.url))

resolve_git_remote_op(fs, cwd, operation, hints) ==
    Resolved(resolve_remote_url(fs, cwd, hints.url).remote, operation, None)

resolve_git_clone(args) ==
    LET Clone(url) == IF url = None THEN Err("UnknownGitSubcommand")
                      ELSE Resolved(parse_github_remote(url), "clone", None)
    IN  Clone(Nth(positional_after_subcommand(args, "clone"), 2))

resolve_git(fs, cwd, args, hints) ==
    LET As(subcmd) ==
            CASE subcmd = "push"              -> resolve_git_push(fs, cwd, args, hints)
              [] subcmd \in {"fetch", "pull"} -> resolve_git_remote_op(fs, cwd, subcmd, hints)
              [] subcmd = "clone"             -> resolve_git_clone(args)
              [] OTHER                        -> Err("UnknownGitSubcommand")
    IN  As(first_non_flag(args))

-----------------------------------------------------------------------------
(* gh. *)

ReleaseActions ==
    {"create", "delete", "delete-asset", "download", "edit", "list", "upload", "view"}

GhActions ==
    [pr      |-> [create |-> "pr_open", comment |-> "pr_comment", merge |-> "pr_merge",
                  close |-> "pr_close", review |-> "pr_review"],
     issue   |-> [create |-> "issue_open", comment |-> "issue_comment",
                  close |-> "issue_close"],
     release |-> [action \in ReleaseActions |->
                    CASE action = "create"       -> "release_create"
                      [] action = "delete"       -> "release_delete"
                      [] action = "delete-asset" -> "release_delete_asset"
                      [] action = "download"     -> "release_download"
                      [] action = "edit"         -> "release_edit"
                      [] action = "list"         -> "release_list"
                      [] action = "upload"       -> "release_upload"
                      [] action = "view"         -> "release_view"]]

\* An argument that is missing is no action of the table.
ASSUME ActionAssumption == \A group \in DOMAIN GhActions : None \notin DOMAIN GhActions[group]

GH_API_VALUE_FLAGS ==
    {"-X", "--method", "-F", "--field", "-f", "--raw-field", "-H", "--header", "-q", "--jq",
     "-t", "--template", "--input", "--cache", "--hostname"}

gh_api_positional_args(args) ==
    LET n == Len(args)
        from[i \in 1..(n + 2)] ==
            IF i > n THEN <<>>
            ELSE IF args[i] \in GH_API_VALUE_FLAGS THEN from[i + 2]
            ELSE IF IsFlag(args[i]) THEN from[i + 1]
            ELSE <<args[i]>> \o from[i + 1]
    IN  from[1]

\* Only `gh api` knows which of its flags take a value.
gh_positional_args(args) ==
    IF Nth(NonFlags(args), 1) = "api" THEN gh_api_positional_args(args) ELSE NonFlags(args)

gh_api_method(args) == FlagValue(args, {"-X", "--method"}, AttachedMethod)

\* Only a read of the API has an operation; a missing method is a GET.
classify_api(action, method) ==
    CASE action = None -> Err("MissingGhArgument")
      [] action # None /\ method \in IsGet \cup {None} ->
            [err |-> "ok", operation |-> "gh_api_read"]
      [] OTHER -> Err("UnknownGhCommand")

classify_gh(args) ==
    LET As(group, action) ==
            CASE group \in DOMAIN GhActions /\ action \in DOMAIN GhActions[group] ->
                    [err |-> "ok", operation |-> GhActions[group][action]]
              [] group = "api" -> classify_api(action, gh_api_method(args))
              [] group \notin {"api", None} /\ action = None -> Err("MissingGhArgument")
              [] OTHER -> Err("UnknownGhSubcommand")
        OfWords(words) == As(Nth(words, 1), Nth(words, 2))
    IN  OfWords(gh_positional_args(args))

extract_repo_flag(args) == FlagValue(args, {"-R", "--repo"}, AttachedRepo)

\* "org/repo" with two non-empty parts.
parse_org_repo_pair(spec) ==
    IF spec \in DOMAIN Segments /\ Len(Segments[spec]) = 2
         /\ Segments[spec][1] # "" /\ Segments[spec][2] # ""
    THEN [err |-> "ok", org |-> Segments[spec][1], repo |-> Segments[spec][2],
          scheme |-> "https"]
    ELSE Err("InvalidRemoteUrl")

\* A read of the API is judged for the user alone; an explicit repository
\* wins over the hint; only `pr create` carries a branch.
resolve_gh(fs, cwd, args, hints) ==
    LET Target(spec) ==
            IF spec # None THEN [remote |-> parse_org_repo_pair(spec), local |-> NoRepo]
            ELSE resolve_remote_url(fs, cwd, hints.url)
        HeadBranch(found) ==
            IF hints.branch # None THEN hints.branch
            ELSE LocalBranch(fs, IF found.local.found THEN found.local ELSE discover(fs, cwd))
        On(found, operation) ==
            Resolved(found.remote, operation,
                     IF operation = "pr_open" THEN HeadBranch(found) ELSE None)
        Of(class) ==
            CASE ~Ok(class) -> class
              [] Ok(class) /\ class.operation = "gh_api_read" ->
                    [err |-> "ok", org |-> Wildcard, repo |-> Wildcard, scheme |-> "https",
                     operation |-> "gh_api_read", branch |-> None]
              [] OTHER -> On(Target(extract_repo_flag(args)), class.operation)
    IN  Of(classify_gh(args))
=============================================================================
