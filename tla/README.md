# ghbrk: TLA+ models, checks and proofs

ghbrk is a broker between local users and GitHub. Users run `ghbrk git …` and
`ghbrk gh …`; a gateway process sends the command over a Unix socket to a daemon
that holds the credentials, decides by a policy file whether to run it, records
the decision, runs `git` or `gh` with the credentials injected and relays the
child's streams. Root changes the policy through the same socket
(`ghbrk allow`). The modules here model that system from its source; TLC checks
small instances and TLAPS proves most of the properties for every instance.

## Inventory

| Component | State it keeps | Operations | What makes it correct |
|---|---|---|---|
| Policy engine, `src/policy.rs` | none; documents are values | load and validate, resolve a role, evaluate a request | first match wins, default deny, a user's role shadows a built-in one, a grant never overrides an earlier rule |
| Broker server, `src/broker.rs` | policy handle (`ArcSwap`), one task per connection with its policy snapshot | accept, identify the peer, read a request, route, decide, record, run, answer | only what the policy allows is run; the answer and the record agree with what happened |
| Policy administration, `handle_allow` | policy file | gate on uid 0, parse, validate, append by rename, publish, record | the policy only ever grows by whole rules that root asked for |
| Audit log, `src/audit.rs` | file opened for append, `BufWriter` behind a mutex | write and flush, flush, flush on drop | records survive restarts, in order; nothing runs unrecorded unless a write failed |
| Daemon life cycle, `src/cmd/daemon.rs`, the unit file | socket path, process | start, fail to start, stop on a signal, crash, restart | stops when told to, can be started again |
| Executor, `src/executor.rs` | child, its three pipes | spawn with dropped privileges, relay both directions, wait, report the exit code | no deadlock between the directions; the exit code comes last and is the child's |
| Gateway, `src/cmd/gateway.rs` | socket, caller's stdio | send the request, pump stdin, write responses, exit | exits with the child's code or an error, never with a false success |
| Wire protocol, `src/protocol.rs` | none | length-prefixed JSON frames | a cut frame is an error, never a shorter frame; neither end refuses what the other may send |
| Credentials and escrow, `src/credentials.rs` | ssh-agent, its directory, proxy socket and bridges, askpass script | load, check modes, start the agent step by step, drop it | nothing outlives the operation, whichever step fails; nothing is signed after it |
| Resolver, `src/resolver.rs` | none | command line, hints and working tree to (org, repo, operation, branch) | a command about origin is judged on the repository of its directory, whoever looked at the tree |
| Query tools, `explain`, `policy`; command line | none | reports, requests | agree with what a run does |
| Health checks and doctor, `src/health_check.rs`, `src/cmd/doctor.rs` | none | the broker's checks, the client's classification, one exit code | a clean bill is true, a fault is blamed on its own subsystem |

Interaction: the gateway talks to a connection's task over the socket; tasks
share the handle, the policy file and the audit logger, and nothing else. Blocking
work (audit writes, the policy append) runs on a blocking pool, so the task's
next step can be delayed arbitrarily while other tasks go on.

What is hard here: the append is read, modify, rename with no lock; the handle
is published in a later step than the rename; a record that failed to be flushed
can reach the file with a later one; a task can be dropped at any await; the
relay joins three processes by queues that fill up; the start of an ssh-agent can
fail at eleven steps and its proxy's tasks are detached; the client and the
daemon look at the same working tree with different rights, classify the same
command in two places, and may be of different releases. The hazards are listed, each
at its line and with the properties that would catch it, in `PROJECT.json`.

## Modules

| Module | Models | Notes |
|---|---|---|
| `Policy` | the policy engine | pure operators; the glob matcher is a parameter (`GlobMatch`) |
| `PolicyGrowth` | any sequence of grants on any operator's document | one action, `Push`, the body of `append_rule_atomically` |
| `AllowOperands` | how the broker reads the operands of `allow` | shared by `Broker` and `Dispatch` |
| `Broker` | daemon, tasks, `allow`, audit log, restart | composes `Policy` |
| `DirectRun` | what a caller is promised about a command that is run | abstract specification |
| `Relay` | gateway, connection, executor and child | implements `DirectRun` |
| `Resolver` | remote URLs, git config, discovery, refspecs, classification of git and gh | pure operators on tokens and small file systems |
| `Dispatch` | one session: explain, run, ask for the policy or grant, client and broker | composes `Resolver`, `Policy` and `AllowOperands` |
| `Escrow` | the credential of one operation: agent, proxy, script, dropped child | per-step failures, abandoned children, SIGKILL |
| `Doctor`, `DoctorRun` | the checks and their classification; the exchange with the broker | operators and their protocol |
| `AuditLog` | the audit file below the level of records | what `Broker` takes for one write, in detail |
| `Channel` | what one direction of a connection promises | abstract specification |
| `Wire` | `write_frame` and `read_frame`, byte by byte | implements `Channel` |
| `MC…` | instances for TLC | |
| `PolicyLemmas`, `DecisionProofs`, `BrokerProofs`, `RelayProofs`, `EscrowProofs`, `AuditLogProofs`, `WireProofs`, `DoctorProofs` | theorems | checked by TLAPS |

Definitions called `X_Something` and marked as seeded faults are plausible bugs of
`X`; each one breaks the property it is listed with in `PROJECT.json`.

### Broker

One program counter per connection (`pc`), and one action for each stretch of
the handler between two points at which other tasks can run. The correspondence:

| Action | Code |
|---|---|
| `Start`, `StartFails`, `StartAborts` | `run_inner`, `bind_listener`, the early returns of `run_broker` |
| `Accept`, `RefuseConnection`, `ReadRequest` | accept arm of `run_broker`, `handle_connection` |
| `RouteExplain`, `RoutePolicy`, `RouteCheck`, `RoutePassthrough`, `RouteRefused`, `RouteEvaluated` | `process_request` in its order of tests |
| `RouteAllow`, `AppendRead`, `AppendRename`, `AppendFails`, `StoreHandle` | `handle_allow`, `append_rule_atomically` |
| `WriteAudit`, `WriteAuditFails` | `write_audit`, `AuditLogger::write` |
| `CredentialsFail`, `PrepareChild`, `LoadPassthroughCredentials`, `Spawn`, `SpawnFails`, `ChildExits` | the execution half of `process_request`, `handle_gh_passthrough` |
| `Reply` | the response frames; the client may vanish between any two |
| `Sigterm`, `Shutdown`, `Cancel`, `Exit` | leaving the loop, end of `run_broker`, runtime drop, drop of the logger |
| `Crash`, `RemoveStaleSocket`, `OperatorEdit`, `Connect` | environment |

A request carries `form`, what the classifiers make of its arguments (local git,
passthrough, unresolved, resolved, malformed), `target`, what it resolves to, and
`grant`, the operands of an `allow`; strings and parsing are not modelled.
`spawned`, `wrote`, `published` and `raced` are history variables. `raced` notes
that a policy append began while another was between its read and its
publication, or that somebody edited the file.

Blocking closures: the append is two steps, because another task can run between
its read and its rename. `Cancel` cannot interrupt it between them: dropping the
runtime waits for a blocking closure that has started.

A failed audit write either leaves its record in the `BufWriter`, in front of the
next one, or loses it. Crash loses the buffer, and so does a failed flush on drop.

### Relay and DirectRun

The n-th chunk of a stream is the number n. The child is any program: it chooses
to read, write, close or exit, and then blocks where the kernel blocks it;
descendants can keep its pipes open. The caller's gateway, the broker and the
child can be killed at any point. `DirectRun` has no sockets, pipes or frames: the command takes
the caller's chunks in order, the caller gets the command's chunks in order, an
end of file that the caller did not send appears only where the run was cut,
and a status is reported only after all output. The mapping keeps the visible
variables and defines `cut` as: no input was forwarded, the gateway is gone, or the
relay is over.

### Resolver and Dispatch

A word of a command line is a token; constants say which tokens are flags, what a
token reads as when it is taken for a URL, a refspec or a path, and so on, so the
parsers are applied to structure and not to characters. A working tree is a
function from paths to directories, files and links. `Dispatch` follows one
caller: `ExplainCommand`/`HandleExplain`, then `RunCommand`/`ServeCommand` on the same
command, then `PolicyQuery` or `AllowLine`. The client takes its hints from the tree
as it is (`repo_hints`), the broker from the part it may search (`BrokerView`).
`Truth` is the repository git finds from that directory, with its origin (or its first
remote, where none is called origin) and its branch, written down independently of the
resolver. It does not depend on the command line, so `JudgedOnOwnRepository` is about
commands that `SpeaksOfOrigin`: no other remote or URL, no `-C`, `-c` or `--git-dir`.
`AllowLine` follows a grant from what was typed to the operations the broker reads;
`Broker` takes it from there.

### Escrow

`pc` is the handler of one operation, through `build_env`, `start_ssh_agent` or
`https_git_env`, the fork, the calls of the `pre_exec` hook, and the drop of the
guards. Each of these can fail (`StartFails` with `Undo`, `ScriptFails`, `SpawnFails`);
a running child can be collected or abandoned (`Abandon`: a failed response write,
or the task dropped at shutdown). The agent listens late, never, or dies leaving its
socket; the key's lifetime can end at any time; the proxy accepts, its detached
bridges connect, sign and end on their own; aborting the accept loop does not wait
for it. Modes, owners and groups of the files are modelled, with the kernel's rule
for who may use them.

### Doctor and DoctorRun

`Doctor` holds the operators: the broker's `run_checks` and `audit_credential_paths`,
the client's classifier, and `load_credentials`, which they are meant to predict.
`DoctorRun` is the exchange: the connection may end after any frame, the daemon may
be of a release that does not know the shared-filesystem check, and the caller may
have no `/tmp`.

### AuditLog and Wire

`AuditLog` splits a record's line into cells and lets the kernel take any number of
them before it refuses; a line that fits goes through the `BufWriter`, a larger one
goes past it. `Wire` writes and reads bytes: a length in big-endian digits, then the
body, with the ceiling checked on both sides. A foreign writer sends arbitrary bytes.
Scale is reduced (binary bytes, three-digit lengths, a ceiling of three) with lengths
above the ceiling still expressible, as in a `u32`.

## Runs

| Run | Instance | Shows |
|---|---|---|
| `policy_growth` | 2109 operator documents of up to two rules (allow and deny, shadowed, custom and empty roles, empty lists, bad globs), extended to three rules by three kinds of grant | `GrantOnlyOpens`, `LoadableStaysLoadable`, `EvaluateIsLoop`, `ReportedPushNeverDefaulted` |
| `broker` | 2 connections, 3 kinds of peer, 15 requests, up to 3 starts, 2 faults, 1 audit error, 2 hand edits (one does not load), combined as `Scenario` says | `ExecutionJustified`, `AnswerTruthful`, `AuditAgrees`, `SequentialGrantsDurable`, `AuthorityFromRoot`, `ChildrenRecorded`, `DecisionsRecorded` |
| `broker_live` | 2 connections of root, grants, a push and a passthrough, 1 audit error | `StopsOnSignal` from the daemon's fairness alone, `AcceptedEnds` with that of clients and children |
| `relay` | queues of one element, 2 input chunks, 2 + 1 output chunks, 3 statuses | `NoFalseSuccess`, `ImplementsDirectRun` |
| `relay_live` | the same with one status and one output stream; the caller's input may stay open | `RelayEnds`, `AbandonedRelayEnds` |
| `dispatch` | 50 command lines, 19 working trees, two directories, three views of the broker, two documents, 66 `allow` lines | `ClassifiersAgree`, `JudgedOnOwnRepository`, `HintsMatchFallback`, `ExplainPredicts`, `GrantAsTyped`, `ReportTrue` |
| `doctor` | a healthy machine and all with one or two things changed | `CleanBillTrue`, `RightSubsystemBlamed`, `DoctorFinishes` |
| `escrow` | one operation, 4 callers (client, client without group list, root, the daemon's user), 3 schemes | `NothingLeft`, `IdentityWhole`, `SshChildReachesProxy`, `NoLateSignature`, `EscrowSettles` |
| `audit` | 4 records below and above the buffer's size, 2 starts | `AckedWhole`, `LinesWhole` |
| `wire` | 3 frames (short, at the ceiling, above it) or 8 foreign bytes | `OwnFramesUnderstood`, `ChannelKept`, `FramesArrive`, and that a reader keeps no more than the ceiling |

Two runs expect a violation; each states what the repository says and shows
that the code does otherwise:

- `broker_ConfirmedGrantPersists`: two overlapping `allow` requests are both
  confirmed and one rule is lost. There is no lock between the read and the rename.
- `broker_RestartServes`: a crash leaves the socket path, nothing removes it, and
  the restart the unit asks for cannot bind.

`SequentialGrantsDurable` is the other side of the first: as long as no two
grants overlap and nobody edits by hand, it cannot happen, crashes included.

Bounds. Tasks of the broker meet only through the handle, the file and the log, each
touched by one task at a time, so two connections show every pairwise race. `Scenario`
bounds what is combined: every pair of requests meets in one life of the daemon, each
request from the peers whose standing decides it, and a grant with any of them also
meets a lost audit record; a grant and a push meet a hand edit or a lost record, a
restart and one failure at every place; grants meet two faults and three starts, so
that a recovery can itself fail (with a passthrough, two starts). A stranger is refused
before its request is read, so one request of its suffices. In the relay a queue of one element fills at once, so two chunks in each
direction already block pump, relay and child at the same time. Operations in `Escrow`
share nothing but the daemon's death, so one shows what many do (the proofs are for
any number). Doctor's verdicts depend on at most two paths or facts at a time. The
records of `audit` are three of which the buffer holds two at a time, and one as long
as the whole buffer, which goes past it. The `wire` connection holds two bytes, less than any frame.
Connections are used once and starts are bounded, so the instances stop; deadlock is
therefore not checked, and the liveness properties say what must be reached instead.

Fairness. `DaemonFairness`: the runtime polls every task that can go on, the
blocking pool runs its closures, and the main task runs from the end of its loop to
the end of the process. `PeerFairness`, that clients send and read and that children
end, is a hypothesis of `AcceptedEnds` alone; the code has no timeout for any of
these. In the relay both ends poll both directions (`select!`), the child goes on when
the kernel lets it and does not run for ever; nothing is assumed of the caller's input,
and `RelayEnds` names that wait as the one that may last. `Escrow`: handler, proxy and
bridges are polled; no child has to exit and no agent to listen. `Doctor`: client and
handler go on, since the handler's only wait is a probe under `timeout 10`. `Wire`: an
end that can read or write is polled. No fairness is assumed of crashes, signals,
cuts or errors.

## Divergences noticed while modelling

Besides the two with a run of their own. The properties leave out exactly these cases,
and their comments say so.

- `broker.rs:689`: the handle is published after the rename, in a step nothing orders
  between requests; two overlapping grants can leave it behind the file until the next
  grant or restart. The comment at `broker.rs:685` says "the swapped handle matches disk
  exactly".
- `broker.rs:954`: a passthrough without credentials is denied and leaves no record.
- `broker.rs:1021`: `ALL_OPS`, "every operation in the policy vocabulary", lists 14 of 21.
- `broker.rs:1103`: `explain` resolves and judges gh commands that a run passes through.
- `broker.rs:1253`: the policy report judges `gh_api_read` on the repository asked about,
  a run of `gh api` on `*/*`.
- `resolver.rs:199`: without hints, a broker that may not search the caller's directory
  can bind the request to an enclosing repository.
- `resolver.rs:345`: `git push origin HEAD` with hints is judged on a branch called HEAD,
  without hints on the checked-out one.
- `resolver.rs:307`: a push, fetch or pull is judged on the origin of the caller's
  directory. A remote or URL on the command line, `-C`, `--git-dir`, `-c`, and settings
  such as `branch.<name>.remote` or `pushurl` are not looked at, though git follows them.
- `broker.rs:785`: a role operand is looked up among the four built-in names, so `allow`
  refuses a role the operator's policy declares. `specs/cli/allow-command/spec.md:7`:
  "to grant a named role (built-in or user-defined)".
- `allow.rs:28`: an operand `--user`, typed behind `--`, reaches the daemon as the flag.
- `credentials.rs:191`: the askpass script is mode 0700 and the daemon's, while the child
  that is to execute it runs as its caller.
- `executor.rs:202`: a gh child dropped to its caller keeps the daemon's `HOME`, which
  `gh_env` has put into its environment.
- `health_check.rs:204`: a credential of mode 0640 fails the doctor; `doctor-permissions`
  asks for a warning. `doctor.rs:417`: so does a socket of an unexpected owner.
- `health_check.rs:247`: a token that is not text is skipped, so the doctor is clean and
  every request fails.
- `audit.rs:83`: after a crash or an error in the middle of a line the next record is
  appended to it, though the log promises "one record per line".

## Proofs

TLAPS proves these for all values of the constants. Every safety property that the passing
runs check has its theorem, `JudgedOnOwnRepository` excepted, and so have both refinements.

Policy (`PolicyLemmas`, `DecisionProofs`)

- `GrowthTypeCorrect`, `GrantsOnlyOpen`, `GrantsStayLoadable`. A rule matches or not
  depending on the document only through its role table (`MatchNeedsRolesOnly`), which a
  push leaves alone, so a prefix that decides keeps deciding (`PrefixDecides`), and only
  a request with no match can meet the new rule (`AppendOpens`).
- `ReportedPushHolds`. Only the literal `*` covers a push whose branch is not named, and
  it covers every branch.
- `FirstMatchIsLoop`. From rule i on the loop decides by the first rule that matches among
  the rest (`LoopIsFirstMatch`), shown from the last rule backwards.

Session (`DecisionProofs`)

- `SessionInvariant`. What explain answered, what the run came to, the report and the parsed
  grant are what the job, the hints and the policy make of them: nothing in a session
  depends on what came before. The five properties below follow from it and from the
  operators, so their proofs are about what two pieces of code make of the same input.
- `ExplainPredictsRuns`. The copies of the subcommand loop agree (`SameGitFilter`), and a
  brokered gh command the resolver knows is judged by the same question in both.
- `ReportIsTrue`. Only a push's decision depends on its branch (`BranchCountsForPushOnly`),
  so the question without one decides every other operation.
- `TablesAgree`. What `classify_gh` accepts is in the table (`ClassifiedByTable`), whose
  rows are the broker's list (`GhTables`).
- `HintsReplaceTheTree`. The resolver reads the tree in two places, the remote's URL
  (`SameRemote`) and the branch (`HintedBranch`, `RefspecNamesBranch`), and a hint stands
  for what the caller reads there, also where the broker may not look.
- `GrantsArriveAsTyped`. After argument i of those `assemble_args` puts in a row the loop of
  `parse_allow_args` holds the first i operands, behind the last of them the flag, and
  behind that the user (`ArgumentsReadBack`), by induction over the arguments
  (`SameLoop`). So `parse_operations_spec` reads the operands that were typed, takes them
  exactly when they are one built-in role or operations only, and adds and drops none
  (`OperandsSay`).

Broker (`BrokerProofs`)

- `TypeCorrect`. The type invariant alone is not inductive: the append needs to know that
  the operands parsed and the peer is root. `TypeInv` adds `GrantGated`, which says so of
  every task inside the append.
- `AuthorityComesFromRoot`. Inductive invariant `PolicyGrown`: the file, the handle, every
  snapshot, and every document a task is about to rename or publish is grown from an
  operator's document by granted rules, the last one possibly not yet renamed.
- `ExecutionIsJustified`. `ExecutionCleared`: a task past its decision is a passthrough or
  is allowed by its snapshot; the snapshot is grown (previous theorem), and a grown
  document allows only what its operator's document allows or leaves open to a granted
  rule (`GrownAllows`).
- `AnswersAreTruthful`. The property speaks of answers that were read. The invariant says
  of every place of a task what it may still answer and what has happened by then; the
  steps of other tasks and of the daemon leave that alone, or end the task.
- `AuditAgreesAlways`. Every record in the file or in the buffer behind it is true of its
  connection, which is past its decision by then, and no connection has two.
- `ChildrenAreRecorded`. A count, hence an argument about cardinalities: the connections
  past the point where the decision to run is recorded, but without a record in the file,
  are at most the failed writes. A connection counts from that point on, not only from the
  start of its child.
- `DecisionsAreRecorded`. An action property, from the same invariants.
- `SequentialGrantsAreDurable`. While nothing raced, at most one task is between the read
  of the file and the store of the handle; what it holds is the file and its own rule
  before the rename, and the file after it; with no such task the handle is the file; and
  every rule ever written is in the file.
- `SequentialGrantsOnlyOpen`. The same, of decisions: while nothing raced, no step makes the
  file or the handle go back on what a rule decides. It joins `AppendOpens` with the daemon
  that appends; `HandleBehind` says that what a crash or a cancellation before the
  publication leaves between handle and file are grants only, so the restart opens too.

Relay (`RelayProofs`)

- `RelayInvariant`, `NoFalseSuccessAlways`, and the refinement `RelayImplementsDirectRun`.
  `RelayInv` follows a chunk through every queue it can stand in: what the child has read,
  its standard input, the chunk in the relay's hand and the frames in the connection are,
  end to end, the chunks given, and an end of file stands behind all of them; the same for
  the output, with the exit code behind everything. Each action moves one chunk across one
  border, which `DirectRun` sees as one of its steps or not at all.

Escrow (`EscrowProofs`)

- `EscrowTypeCorrect`, `EscrowLeavesNothing`, `EscrowIdentityWhole`, `EscrowReachable`,
  `EscrowNoLateSignature`, for any number of operations, callers, groups and looks at the
  agent's socket. `NothingLeft` speaks only of operations that have ended and is not
  inductive. The invariant says of every place of the handler what it holds there: `Held`
  (which of agent, key, directory, socket, script and proxy may exist at which `pc`, so
  that each error branch undoes all that can exist where it starts), `Shaped` (owner, group
  and mode of the files by then) and `Itself` (which parts of the child's identity have
  been changed at each call of the hook).

Audit log (`AuditLogProofs`)

- `AuditInvariant`, `AcknowledgedRecordsStay`, `LinesStayWhole`, for any number of tasks,
  sizes, failures and restarts. A record is acknowledged long after its cells were laid
  down, so the invariant speaks of the file as it will be once all that is pending is
  written, and says where each line stands in it. A step can do three things to that file:
  carry cells into it, put a line behind it, or lose the end that is not yet in it.

Wire (`WireProofs`)

- `WireInvariant`, `BodyNeverPastCeiling`, `OwnFramesAreUnderstood`, and the refinement
  `WireImplementsChannel`, for every base, width and ceiling of the length. The bytes from
  the beginning of the reader's frame to the last one written are at every moment the
  frames of the messages still to be read; only `Decode` takes from them, and it takes the
  first frame whole.
- `LengthsComeBack`, on which they rest: a length comes back from its big-endian bytes.
  The first k bytes are worth what is left after HEADER - k divisions.

Doctor (`DoctorProofs`)

- `WideningNeverSoftens`: for every kind of path, owner and mode, a mode with more bits is
  judged no milder.
- `DoctorInvariant`, `CleanBillIsTrue`, `BlameIsRight`, on every machine. Both properties
  speak of the end. Before it, what the client has read and what is on the wire is a
  beginning of the one answer the broker gives for this machine, and what has been judged
  was judged of the whole of that answer.

Assumptions: the named `ASSUME`s of the modules, which TLC evaluates on every run; no
theorem has another hypothesis.

Induction. The library states it for an operator, which the provers cannot instantiate.
`LeastNatural`, `Inductive` and `Recursion` state it for a set and for a function,
from the least element of a set; the loops of `Policy::evaluate` and of the length's
bytes are proved about with them.

What the proofs changed in the model. A `CASE` of TLA+ whose arms overlap means any of
them, where the code, and TLC, take the first; `check_file` could then have called a file
it had not been able to stat "OK", and its lemma could not be proved. The arms are now
disjoint, there and in the classifiers of `Resolver` and `Dispatch`.
`from_be_bytes` and the argument loop of `parse_allow_args` are the loops, and no longer
folds. `HintsMatchFallback` was about brokers that may read the whole tree; its proof needs
that only where the hints lack something, and the property now says so. `GrantAsTyped` was
false of an operand `--user`, which no command line of the run had: the run has one now, and
the property leaves it out (see the divergences).

Model-checked only:

- every liveness property (`AcceptedEnds`, `StopsOnSignal`, `RelayEnds`,
  `AbandonedRelayEnds`, `EscrowSettles`, `DoctorFinishes`, `FramesArrive`): fairness and
  ENABLED are out of the prover's reach;
- `JudgedOnOwnRepository`: it compares the resolver's reading of a tree with `Truth`, the
  repository git finds there, which is a table of the instance. A proof would have to assume of the
  table what the property says. That the answer is the one the caller's own process
  reads is `HintsReplaceTheTree`.

## Not modelled, and plan

Next:

1. The composition of `Relay` with `Escrow`: the abandoned relay is one action in the
   latter.
2. A rule of git's own for finding a repository, stated apart from the resolver's, in place of
   the table `Truth`; then `JudgedOnOwnRepository` can be proved.

Left out for good: YAML and JSON syntax, wording of logs and reports, option parsing
(clap's), installers and packaging (shell scripts run once by an operator; of the unit
file the restart rule is used), the group and mode of the listening socket, which are
set once at the start, and GitHub itself.
