# TunnelDeck in TLA+

TunnelDeck keeps SSH port forwardings ("rules") running. A per-user daemon owns
the rules, their configuration file and the ssh processes; a CLI and a TUI are
its clients. This directory holds TLA+ models of the daemon and of its clients,
the TLC configurations that check them on small instances, and proofs for every
instance.

    tlc -config MCDaemonManager_clients.cfg MCDaemonManager.tla
    tlapm DaemonManagerProofs.tla

`PROJECT.json` lists the parts of the system, the runs, the faulty variants
that show each property can fail, the source lines behind each definition, the
hazards, and the disagreements between the code and its documents.

## The system

| Part | State | Operations | Interacts with |
| --- | --- | --- | --- |
| Daemon manager, `daemon/manager.rs` | rules, settings, the entry of each rule (`running`), diagnostics, manual stops, edit reservations; all under one mutex | list, add, import, remove, start, stop, edit-active, settings, status, `maintain`, restore at start | threads of all connections and the supervisor; starts and stops attempts; saves through the store; publishes events |
| Attempt and guardian, `daemon/process.rs` | attempt directory, lease socket pair, guardian process, ssh master and its group | `start_attempt`, `stop`, `has_exited`, drop; in the guardian: start ssh, request the forwarding, report, watch, terminate | daemon and guardian talk over the lease; its end of file is the order to stop; the runtime lock is inherited |
| Configuration store, `config/store.rs` | `config.toml`, temporary files, backups | load, save, migrate | only the manager writes; editors and other versions may replace the file |
| Rule set validation, `domain/validation.rs`, `domain/rule.rs` | none | `validate_rule_set`, overlap of bind addresses | manager, store (on load and save), import |
| Daemon lifecycle, `daemon/lifecycle.rs` | lock file, socket | bind, accept, drop, `ensure_running`, one call | clients spawn daemons; guardians hold the lock |
| Event hub and IPC, `ipc/mod.rs` | sequence, subscriber queues | subscribe, publish, framing | manager publishes, TUI subscribes |
| TUI, `tui/mod.rs` | rules, settings and status as last read; selection, dialogs, form, import panel | refresh, delete, toggle, settings, form, import | requests to the daemon, one after the other; a subscription |
| CLI, `cli/mod.rs` | none | `forward`, `settings`, `host` and `daemon` commands | requests to the daemon; starts it |
| Import, `application/import.rs` | a preview | parse, classify, select, name | CLI and TUI; reads what `ssh -G` prints |
| Host discovery, `application/hosts.rs` | aliases found last | walk through ssh configurations, bounded runs of ssh | CLI, TUI, import |
| Reconnect, `daemon/reconnect.rs` | none | `full_jitter` | manager |
| Status machine, `domain/status.rs` | state of one rule | transitions | no part of the program uses it |
| Log, `logging/mod.rs` | log files | write, rotate | manager |
| Platform, `platform/` | none | paths, private directories, browser | all |

What is hard: requests of several clients and the supervisor interleave, and a
start, a stop or an edit releases the mutex while ssh starts or ends; the
daemon, a guardian or ssh may die at any moment; five timeouts in two processes
depend on each other; a save may fail after it has replaced the file, or be cut
off by a power loss; daemons start and end beside each other, on one lock and one
socket; every client works on a copy of rules that others change; and which
listeners collide is decided by hand-written cases, twice.

What makes each part correct:

- Manager: no ssh process is lost or owned twice; a running rule runs what is
  listed; a manual stop wins over recovery; an edit is not disturbed; the
  answers agree with the file; everything begun is finished.
- Attempt: nothing is left behind when a call returns; the lock is held as long
  as a master runs; the timeouts fit together; every call returns and a dead
  party is noticed.
- Store: the file is always whole, and what was confirmed survives; memory and
  file agree; no foreign text is lost.
- Validation: accepted rules can all be started, and nothing else is refused.
- Lifecycle: one daemon serves; its socket is its own; a client does without a
  daemon only for a reason, and every call ends.
- Event hub and TUI: a view that is out of date is about to be refreshed, unless
  nobody was told of the change; keys act on the rule the user sees.
- Forms and import: the edit of an active rule changes nothing the form did not
  show; what a preview offers is accepted; accepted rules can all be started.
- Discovery: every alias is found or the configuration refused as too large; a
  bounded run of ssh is bounded.
- Log: no record lost but the oldest.

## Modules

| Module | What it is |
| --- | --- |
| `DaemonManager` | the manager, its threads, and the processes as it sees them |
| `DaemonManagerInv` | its inductive invariant, and how its attempts are those of `Attempt` |
| `DaemonManagerProofs` | type correctness; one lemma per action and part of the invariant; the theorems |
| `Attempt` | what an attempt promises to the daemon that starts it |
| `SshAttempt`, `SshAttemptProofs` | one attempt: daemon, guardian, ssh processes and clock; its theorems, among them that it implements `Attempt` |
| `AtomicConfig` | what the configuration file promises to a reader |
| `ConfigStore`, `ConfigStoreProofs` | the store with its failures; its theorems, among them that it implements `AtomicConfig` |
| `RuleSet`, `RuleSetProofs` | which rules may stand together; its theorems |
| `RuleEditor`, `RuleEditorProofs` | extends `RuleSet`: form, import panel and command line, which prepare its requests from outdated copies; its theorems, which rest on those of `RuleSet` |
| `DaemonLifecycle`, `DaemonLifecycleProofs` | lock, socket, `ensure_running` and one call of each client; its theorems |
| `EventHub` | the event stream to one subscriber |
| `TuiSession`, `TuiSessionProofs` | extends `EventHub`: the TUI's view beside another client; its theorems |
| `HostDiscovery`, `HostDiscoveryProofs` | the walk through ssh configurations and the bounded runs of ssh; theorems about the walk |
| `MC...` | constants and symmetries for TLC |

The modules meet at their interfaces. `DaemonManager` sees an attempt as
starting, live or exited. `Attempt` is the contract between the two sides: `SshAttempt`
implements it with what `start_attempt`, `has_exited` and `stop` return and with the
real state of ssh, and each attempt of `DaemonManager` is an instance of it. The
manager sees a save as one of three
outcomes, which are those of `ConfigStore`; and it takes the pairs of
configurations that clash as a constant, of which it assumes only that the order
does not matter, as `SameListenerSymmetric` in `RuleSetProofs` proves for the
code's relation. `DaemonLifecycle` is what lies below `DaemonManager`'s `Crash`
and `Restart`: which process is the daemon. `TuiSession` and `RuleEditor` take
from `DaemonManager` what its requests answer and publish, `TuiSession` reduced
to the states a view shows and `RuleEditor` to which rules are active.

### DaemonManager

`rules`, `settings`, `running`, `diagnostics`, `manuallyStopped` and `editing`
are the fields of `State`. `pc` and `job` say where each connection thread and
the supervisor stand between two critical sections and what their handler holds
in local variables; `queue` is the retry list of `maintain`. `proc` is what
exists outside the daemon. An action is one critical section, or a call of
`start_attempt` or `stop` between two of them:

- start: `StartAttempt` (or `StartReturns`, for its early returns), then
  `SpawnAccepted` or `SpawnFailed`, then `StartCommits`, `StartDiscards` (the
  marker is no longer its own) or `StartFails`, then `Announce`;
- stop: `ForwardStop`, `StopDone`;
- edit: `EditBegin`, `EditStopped` or `EditStopFailed`, `EditSave`, a start of
  kind "edit", `EditFinish`;
- add, import, remove and settings: one action each, with the three outcomes
  of a save;
- `MaintainScan`, by the supervisor and by every Status request;
- `Crash`, `GuardianCleanup`, `Restart`.

A configuration is a model value; whether it reconnects, starts with the daemon
or listens locally is membership in a constant set. The retry delay passes at
any time (`DelayElapses`), so retry counters have no effect and are left out.

### SshAttempt

`daemon` is where `start_attempt` or the `ManagedAttempt` stands, `guardian`
where `run_guardian` does, `master` and `helper` are the ssh master and another
process of its group, `left` the time left to each deadline in seconds. Time
passes only when no process is about to act; the programs' polling intervals
(at most 50 ms) count as no time. A control request that is refused at once
changes nothing and is no step; one that hangs takes up to `Control`. The daemon
and the guardian may be killed at any step; ssh may be ready, end, or do neither.

`Attempt` has of this only what the daemon knows (`status`: none, starting, live,
exited, or left by a daemon that died) and the master (`ssh`: none, guarded, or
orphaned by the kill of its guardian). An attempt looks exited only when its master
is no longer guarded, a call that returns without one leaves no guarded master, and
the lock is free only when the guardian has ended. `Orphan` is the one way to a master
nobody will end. `DaemonManager` has no orphans: it is `Attempt` with guardians that
die only by themselves.

### ConfigStore and AtomicConfig

A text stands for what it decodes to; `step` names the stage of `replace` or
`load_with_migration`. `survivors` are the files the directory may hold after a
power loss: the old and the new one between the rename and the sync of the
directory. A file that was not synced may come back torn. `allowed` records what
the daemon's answers let a reader expect. A migration saves through the same
actions as a save, with `held = None`. Others write the file only while no save
is under way.

### RuleSet

`rules` is the list the daemon keeps. `Covers` has the arms of
`bind_addresses_overlap`; `Sockets` is what ssh binds and is not in the code. The
properties compare the two.

### RuleEditor

`rules` changes only through the four requests of `RuleSet` (append, import,
replace, remove), so that the properties of `RuleSet` are checked here with the
clients in front of it. `view` is what the TUI loaded last, `dialog` its form or
import panel, `plan` what a `forward import` on the command line has read. A key
in a form has no effect outside it, so that `Typed` gives what the keys can make
of a form, and Enter (`SubmitAdd`, `SubmitEdit`) is one step per request.
`Parse`, `Classify`, `Classes`, `ImportRuleName` and `SelectedRules` are the functions
of `import.rs`; a line of `ssh -G` is a record of its parts. Identifiers are numbers
and drawn in order, standing for UUIDs.

### DaemonLifecycle

`pc` is where each process is in `run_daemon`; `lock` the process whose open file
description of the lock file is locked, which is its guardians' too; `socket` the
file under the public name. One action per system call that another process can
see between two others: lock, removal of a stale socket, bind, permissions,
`open_managed`, drop. `client` is where a call is: `ensure_running`, `connect`,
the request. `BindFails`, `DropEndpoint` and `Killed` may happen at every step.
A start takes less than the five seconds a client waits, so `GiveUp` waits for
processes that are still starting; a daemon that migrates or restores longer than
that is outside of the model. `peer` is the process a call has started, found or
is connected to, and `madeWay` the owner of the lock that a process met when it
left: `CallFailsForAReason` judges each call by those two, not by what befell any
daemon before.

### EventHub and TuiSession

Events are counted, as the TUI takes nothing from an event but that there was
one. `stream` is where the subscription is: `Subscribe` (the hub learns of the
subscriber) follows the loading of the first view, a subscriber whose queue is
full is `dropped`, its connection closed when the queue is drained, and five
seconds without an event end the subscription. `unsaid` counts the changes whose
event is published after the lock is released. `pc` names the request the main
loop is in; `AfterOk` and `AfterError` give the next one, for each of the keys'
sequences: refresh (list, status, settings), delete (stop, remove, refresh),
toggle, save. A start is two steps, the `Starting` marker and, in `await_start`, the
answer when the attempt has ended.

`state` is what Status says of a rule. A change of it is `Told` when its event
follows: an accepted start, a stop, a retry that is scheduled, the end of ssh. It
is `Untold` when `manager.rs` publishes nothing:

- a start, or a retry, that fails and is not retried (`manager.rs:459-462`, `:491`);
- the start of a Failed rule whose port is taken (`:402-408`), which makes it
  stopped;
- a due retry that is dropped for the same reason (`:789-821`);
- the failed restart at the end of an edit (`:460`);
- a stop that cannot end the process (`:551-555`).

No document promises an event for each change. `missed` remembers that something
happened of which the TUI is not told: one of these changes, an event without a
subscription, or a refresh that got no answer. It is reset by the next refresh.
The properties about the view hold while it is false, and hold of a rule that is
starting whether it is shown as such or as it was, since its marker has no event.

### HostDiscovery

`stack` is the recursion of `visit`, a frame for each file with the lines still to
be read; a step is one line, or one path of an Include. What the walk is to find is
defined without it: `Reached` is the least set of files that has the first one and is
closed under Include. Files are canonical
paths, and `Target` resolves links. `query`, `child` and `helper` are
`run_bounded`, ssh and a process that ssh started and that holds its output, in
its group or in one of its own.

## Runs

| Run | Instance | Shows |
| --- | --- | --- |
| `manager_rules` | 2 rules, 2 configurations, 2 settings, 1 client, supervisor, 4 attempts | types, validity of the rules, file and answers agree, status is consistent |
| `manager_clients` | 1 rule, 2 configurations, 2 clients, supervisor, 4 attempts | ownership of processes, what runs is what is listed, manual stops, edits |
| `manager_live` | 1 rule, 1 client, supervisor, 3 attempts, fair | reservations and starts end, unwanted processes end, exits are noticed |
| `attempt_all` | the program's timeouts 30, 5, 5 and 2 s, all kinds of helper, fair | implements `Attempt`, nothing is left, lock covers master, grace suffices, calls return, a dead daemon's attempt ends and a dead master is noticed unless stderr is held open |
| `store_power` | 3 texts of the current schema, 2 legacy, 1 unknown | survival, memory and file agree, originals kept, implements `AtomicConfig` |
| `lifecycle` | 3 daemon processes with a guardian each, 2 calls, fair | one owner, reachable socket, calls end and fail for a reason |
| `tui` | 2 rules of which 1 is started, in each of its 5 states, 2 settings, 2 events, a queue of 1, fair | a stale view has a notice coming, the highlight follows its rule, the view catches up |
| `editor` | up to 3 rules, 2 names, 1 port, wildcards, `localhost` and the loopback addresses, 2 changes, 1 dialog at a time | no clash but on one wildcard, no groundless refusal, previews keep their promise, hidden fields survive |
| `hosts` | 4 files, a link, a missing path, every way to include them; at most 3 files and depth 2; fair | reached aliases are found, only large configurations are refused, bounded runs end |

`manager_retry`, `rules_disjoint` and `tui_quiet` find the disagreements below.

Deadlock is checked except where the system may stop: an attempt ends
(`SshAttempt`), all daemon processes and calls of an instance may have ended
(`DaemonLifecycle`), and `TuiSession` and `RuleEditor` end at the bound on events
and changes.

Why the bounds are enough. Races over a rule need two clients and the supervisor,
who are all in `manager_clients`, and at most one attempt per thread and one in
`running`: four. Rules meet only in validation and in the file, hence two rules
in `manager_rules`. Identifiers are reused once nothing refers to them, so runs
are not bounded in length. `SshAttempt` has no bound: one attempt ends. The
bound of `RuleSet` is `MaxRules`, three, for the position of a rule among those
before it; validity is pairwise. A race for the lock needs one daemon that ends,
one that takes over and one that comes too late. In `tui` (`MaxEvents`) two
events fill a queue of one and drop the subscriber, and one of them can fall
between any two requests of a refresh; `Startable` keeps the second rule stopped,
to be added, removed and moved beside the one that starts, and `ViewInit` has the
file begin with the default settings, which another client may change before the
first request. A proof covers any number of events and of started rules, and any
settings. In `editor`
`MaxChanges` allows a change of another client while a dialog is open, then the
dialog's own; `MaxOpen` and `MaxActive` are one, since dialogs and commands do
not look at each other, only at the rules. Listeners meet on one port only, so that
one port suffices; an address that is no loopback is covered by the proofs of
`RuleSet`. In `hosts` four files exceed both limits,
and a cycle and a link need three.

Fairness. `manager_live` assumes that a thread gets on with a request it has
begun, that the supervisor loops (it is a loop with a 50 ms sleep), that the
delay before a retry passes and that guardians end after the daemon's death,
which `LeaseEndsMaster` shows up to a helper that holds stderr open. Nothing is assumed of clients, ssh,
crashes or restarts. `SshAttempt` assumes that processes run and that time
passes, and nothing of what ssh and its helpers do. `lifecycle` assumes that
processes run on until they are killed and that a started call goes on; nothing
is assumed of failures, kills and guardians. `tui` assumes that a request is
answered or fails, that the subscription's threads run, that a change is
announced, and strongly that a notice is taken: the main loop looks for one
before every key, so that keys cannot keep it from that, though each of them
starts requests during which it does not look. Nothing is assumed of the user and
the other client. `hosts` assumes that the walk goes on, that time passes and the
waiting thread runs; ssh and its helpers may run for ever.

### Where the code and its documents disagree

| Run | The document says | The code does |
| --- | --- | --- |
| `manager_retry` | a due retry starts | a retry that finds the port busy is dropped and the rule stays stopped |
| `rules_disjoint` | conflicting listeners are rejected | two rules on `0.0.0.0` (or `::`) with one port are accepted |
| `tui_quiet` | a subscriber is removed when its queue fills or its socket disconnects | five quiet seconds end the TUI's subscription, which is not renewed |

More of them are behaviours of the models without a run of their own:

- A rule reads as stopped while its process is being ended (`ForwardStop` before
  `StopDone`), where the document has it stopped after cleanup.
- The group gets SIGKILL only if its leader survives SIGTERM (`LeaderEnds`,
  `KillAfterGrace`), where the document has it killed if necessary.
- Early returns of `start_attempt` leave the attempt directory (`Refuse`), where
  the document has a failed start clean up.
- A guardian told to stop waits for whoever holds ssh's stderr, and keeps the lock
  (`JoinStderr`); a bounded run of ssh likewise waits for a helper outside of
  ssh's group (`FinishQuery`).
- A start may exceed its 30 seconds by two control calls, since the deadline is
  looked at only after a call (`startup` in `TypeOK` of `SshAttempt`), where the
  document has the calls within the deadline.
- A replacement daemon tries the lock once and leaves with success when only
  guardians hold it (`Leave`; `lifecycle.rs:63-67`, `cli/mod.rs:667-670`), and the
  client that started it gives up after five seconds with "daemon did not become
  ready" (`GiveUp`). `docs/design-decisions.md:250-252` has the replacement wait up to
  15 seconds and then report that the cleanup is still in progress.
  `CallFailsForAReason` names the case: the owner the process made way for has
  perished.
- `Announce` in `DaemonManager` may publish `rule_started` after another client
  has stopped the same attempt, where the document has late events discarded.

## Proofs

All theorems hold for every value of the constants that satisfies the named
assumptions of the modules: symmetric clashes and distinct names
(`DaemonManager`), disjoint sets of texts and a migration into the current
schema (`ConfigStore`), disjoint families and a loopback address in each
(`RuleSet`), timeouts that fit together (`SshAttempt`), a `None` that is no daemon
(`DaemonLifecycle`), a `None` that is no rule and finitely many rules (`TuiSession`),
finitely many files with lines that are aliases or includes (`HostDiscovery`), outputs
of `ssh -G` that are sequences of directives and arguments of `forward add` that are
forwardings (`RuleEditor`).

`DaemonManagerProofs`. The safety properties are not inductive. That an attempt
has one owner, say, needs that two handlers never hold the same one, which needs
that a new attempt's identifier is in no handler and no entry. `IInv` adds:
`EntryShape` and `JobShape` (an entry or handler has the parts its state calls
for), `HandlersApart`, `EntriesApart`, `ActiveIsFree` (an attempt is in one place
at most), `ProcessOwned` and `StartHasProcess` (and in one at least while it
exists), `EditStage` and `EditedExists` (how far an edit is tells what its rule's
entry can be) and `DownIsEmpty`. It is shown action by action that
each part is preserved; the theorems for the single properties follow from
`InvariantCorrect`. `OnlyEditorTouches`, about steps, follows from the invariant
and the same case distinction. That every attempt of the manager is one of `Attempt`
(`AttemptsLive`) needs `StartsApart` besides: what is still being started is in the
hands of the thread that starts it, so that nobody else stops it.

`ConfigStoreProofs`. The invariant says which files are flushed at which step,
that the name's file is among the survivors, and what a reader may find at each
step. With it every step of the store is one of `AtomicConfig` or a stutter
(`AtomicCorrect`).

`RuleSetProofs`. `ValidIsPairwise` frees validity from the order of the list,
so that it survives a removal, which the code does not validate on its own.
`OverlapMeansSockets` compares the cases of the overlap with sets of sockets.

`SshAttemptProofs`. `TimeoutsFit` is the one relation between the timeouts that
matters: a control request is shorter than a grace period and twice the slack
(5 < 9 in the program; TLC finds `EndedWhenReturned` violated for 9). The heart of
the invariant is `PatienceOutlasts`: what the daemon still waits, for the report
and then for the guardian's end, is longer than what the guardian needs at most,
from each of its stages, until its master has ended. So the daemon never runs out
of patience with a master alive. `Stages` and `Reports` say how far the two
processes can be apart, `MasterEnded` and `DirectoryRemoved` what is gone by then,
and `Deadlines` bounds by how much a start exceeds its time. With them every step of
the daemon, the guardian and ssh is one of `Attempt` or a stutter
(`AttemptKeepsPromise`): the manager is proved against the same contract that the
attempt is proved to keep.

`DaemonLifecycleProofs`. Whoever is inside of `run_daemon`, or has a guardian,
holds the lock, and the socket is what the owner of the lock has made of it:
`OneOwner` and `ServingIsReachable` follow for any number of processes and calls.
`CallFailsForAReason` also needs that the lock once had an owner, that a process
that left met one which ran, and that a waiting client waits for a process of its
own.

`TuiSessionProofs`. While nothing is on its way to the TUI and nothing has passed
it by, the rows it shows are the daemon's except before a refresh has read them,
and likewise the settings (`ViewInv`). Every change of the daemon puts an event on
its way or sets `missed` (`ChangesTell`), but for the marker of a start, which keeps
every view as good as it was (`ViewKept`). `TuiSelectionFollowsRule`
needs no invariant.

`HostDiscoveryProofs`. Each file that Include reaches has been visited, or the stack
still holds a line that leads to it or to a file it is reached from, and the same holds
of aliases (`WalkCorrect`): when the stack is empty nothing is left to find. The other
half says that nothing is visited that is not reached. A visit is never deeper
than the files visited, so that a refusal for depth also means a large configuration.
The walk ends because it visits a file once, but that it ends is left to TLC
(`QueryEnds`).

`RuleEditorProofs`. What clients send was made of copies: the view, the rule a form was
opened on, the rules of a preview. `EditorInv` says that all of them are, or were,
rules as the constructors of `Rule` make them, that a form keeps the host of the rule
it edits, and that a preview is the classification of what ssh printed against some
list of rules. `HiddenFieldsSurvive` follows from that and the comparison of the
whole rule in `edit_active`; it needs that a dynamic rule has no target, for imported
rules too. `ImportKeepsPromise` needs what the loops of `import.rs` compute, for
sequences of any length. They are recursive functions on numbers, and induction is
done over a set of numbers that has 0 and every successor (`EveryNumber`, from the
library's least elements): `Recursion` gives their existence, `ClassesSound` that the
supported candidates conflict neither with each other nor with a rule, `NameIsFresh`
that the search for a free name ends at one, since finitely many names are taken,
`SelectionSound` that the rules built have different candidates and new names. With
`ValidIsPairwise` the daemon accepts them. The theorems of `RuleSetProofs` hold
of the editor's rules, which have more fields, because their lemmas assume of a rule
only what the validator looks at (`Listens`).

Only model-checked: liveness, which is out of the prover's reach. The walk, the names
and the loops of an import are proved to be right when they end; that they end follows
for the loops from their form, and is a property of the run for the walk. Every
invariant, action property and refinement of a passing run is also a theorem.

## Not modelled

The wording of errors and log lines, `classify_diagnostic`, the arguments of
ssh, the JSON framing and its size limit, malformed frames (they end their
connection), rendering, pages, search and host list of the TUI, output of the CLI,
path computation, and file permissions but the socket's. The rotating log is
written under one mutex and read by nobody in the program. `RuntimeStateMachine`
is used by its tests only. `full_jitter` is one expression, and retry delays pass
at any time in `DaemonManager`. `discard_abandoned_save` is called by its test
only. Scripts are not part of the program.

A guardian killed while it starts takes the master's identity with it, so that
nobody ends that master; `SshAttempt` has this behaviour and `EndedWhenReturned`
excepts it, while `DaemonManager` treats the failed start as over. A panic that
poisons the mutex, and the reuse of process ids, are left out. So are errors of
system calls that fail on no working file descriptor: `set_read_timeout` in
`start_attempt` (`process.rs:261`, `:294`), which would return without waiting for
the guardian, and in the guardian `set_nonblocking`, `try_wait` and the signals of
`terminate_group` (`:380`, `:388`, `:395`, `:448`, `:458`, `:481`, `:489`); and, in
host discovery, the errors of expanding a glob. The settings are
read, changed and written back in two requests, by the CLI and by the TUI, so that
one of two updates may be lost; `OtherSettings` and `SaveSettings` have this
behaviour, but nothing in the documents promises otherwise, and no property is
stated about it.

## Plan

Done: the manager, the attempt, the store, the rule set, the lifecycle, the event
stream, the TUI's view, forms and import, host discovery; theorems about all the safety
properties checked of them. Next, in this order:

1. A version of settings in `TuiSession` with the fields apart, and which updates
   may be lost.
2. `RotatingLog`: rotation with a failure at each rename; no record is lost but
   the oldest file's.
3. A mode of `DaemonLifecycle` in which a daemon takes longer to start than its
   clients wait.
