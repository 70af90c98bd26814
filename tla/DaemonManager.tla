---------------------------- MODULE DaemonManager ----------------------------
(***************************************************************************)
(* The per-user TunnelDeck daemon: DaemonManager in                        *)
(* src/daemon/manager.rs, with the ssh processes it starts through         *)
(* src/daemon/process.rs and the file it saves through                     *)
(* src/config/store.rs, each of them seen only at the manager's side of    *)
(* the call.                                                               *)
(*                                                                         *)
(* One connection thread serves one client request at a time and the       *)
(* supervisor thread runs maintain() in a loop.  All of them share one     *)
(* mutex-protected State.  An action is one critical section of that       *)
(* mutex, or the part of a handler between two critical sections in which  *)
(* an ssh process is started or stopped.  Requests the daemon refuses      *)
(* without changing anything are not steps.                                *)
(*                                                                         *)
(* The daemon can be killed at any step.  The guardian of an attempt then  *)
(* ends it, and the lock file every guardian inherits keeps a new daemon   *)
(* away until all of them are done.                                        *)
(***************************************************************************)
EXTENDS Naturals, FiniteSets

CONSTANTS
    Ids,         \* rule identifiers
    Configs,     \* the rest of a rule: name, forwarding, auto_start, reconnect
    Settings,    \* values of the settings section
    Clients,     \* connection threads
    Supervisor,  \* the supervisor thread
    Attempts,    \* attempt identifiers
    None,        \* Option::None
    AutoStart,   \* configurations with auto_start
    Reconnect,   \* configurations with reconnect
    Listening,   \* configurations with a local listener
    Clash        \* pairs of configurations two rules may not have together

\* What validate_rule_set reports for two rules does not depend on their order.
ASSUME ConfigAssumption ==
    /\ AutoStart \subseteq Configs
    /\ Reconnect \subseteq Configs
    /\ Listening \subseteq Configs
    /\ \A c, d \in Configs : <<c, d>> \in Clash => <<d, c>> \in Clash

ASSUME NameAssumption ==
    /\ Supervisor \notin Clients
    /\ None \notin Ids
    /\ None \notin Configs
    /\ None \notin Attempts

VARIABLES
    up,               \* a daemon process is running
    rules,            \* State.rules: what each rule is, or None
    settings,         \* State.settings
    disk,             \* the saved configuration file
    running,          \* State.running
    diagnostics,      \* State.diagnostics
    manuallyStopped,  \* State.manually_stopped
    editing,          \* State.editing
    proc,             \* the guardian and ssh master of each attempt
    pc,               \* where each thread stands between critical sections
    job,              \* the local variables of each thread's handler
    queue             \* the retry list of each thread's maintain()

volatile == <<running, diagnostics, manuallyStopped, editing, pc, job, queue>>
saved    == <<rules, settings, disk>>
vars     == <<up, saved, volatile, proc>>

-----------------------------------------------------------------------------

Threads == Clients \cup {Supervisor}

\* An entry of State.running.  "due" is a Reconnecting whose due time passed.
Stopped      == [state |-> "stopped", attempt |-> None]
Starting(a)  == [state |-> "starting", attempt |-> a]
Active(a)    == [state |-> "active", attempt |-> a]
Reconnecting == [state |-> "reconnecting", attempt |-> None]
RetryDue     == [state |-> "due", attempt |-> None]
Failed       == [state |-> "failed", attempt |-> None]

Entry ==
    [state : {"stopped", "starting", "active", "reconnecting", "due", "failed"},
     attempt : Attempts \cup {None}]

\* RuntimeInfo, as far as Status shows it: an uptime and a last error.
NoInfo      == [since |-> "none", error |-> "none"]
Info        == [since : {"none", "some"}, error : {"none", "some"}]
ErrorInfoKeepsUptime == [since |-> "some", error |-> "some"]  \* faulty
ErrorInfo   == [since |-> "none", error |-> "some"]
RunningInfo == [since |-> "some", error |-> "none"]

\* Guardian and master of an attempt: being started, forwarding, or ended by
\* themselves and not yet collected by the daemon.
NoProc == [status |-> "none", rule |-> None, config |-> None]
Proc ==
    [status : {"none", "starting", "live", "exited"},
     rule : Ids \cup {None}, config : Configs \cup {None}]

\* kind says who called start_inner: a client, maintain(), or edit_active().
NoJob ==
    [kind |-> "manual", id |-> None, attempt |-> None,
     config |-> None, expected |-> None]
Job ==
    [kind : {"manual", "automatic", "edit"}, id : Ids \cup {None},
     attempt : Attempts \cup {None}, config : Configs \cup {None},
     expected : Configs \cup {None}]

PC == {"idle", "restore", "maintaining",
       "spawning", "accepted", "failed_retryable", "failed_final",
       "discarding", "announce",
       "stopping",
       "edit_stop", "edit_save", "edit_restart", "edit_finish"}

RuleSets == [Ids -> Configs \cup {None}]

\* validate_rule_set: no two rules share a name or overlap in a listener.
Valid(ruleSet) ==
    \A i, j \in Ids :
        i # j /\ ruleSet[i] # None /\ ruleSet[j] # None
            => <<ruleSet[i], ruleSet[j]>> \notin Clash

\* Uuid::new_v4: an identifier nothing refers to any more is as good as new.
Fresh(a) ==
    /\ proc[a] = NoProc
    /\ \A t \in Threads : job[t].attempt # a
    /\ \A i \in Ids : running[i].attempt # a

-----------------------------------------------------------------------------
\* Saving.  A failure after the rename leaves the new file in place and only
\* its durability in doubt; save_outcome makes callers keep the new state.

SaveOutcome == {"ok", "durability_uncertain", "failed"}

Written(outcome) == outcome \in {"ok", "durability_uncertain"}

AppliedIfCertain(outcome) == outcome = "ok"  \* faulty

Applied(outcome) == outcome \in {"ok", "durability_uncertain"}

Save(nextRules, nextSettings) ==
    \E outcome \in SaveOutcome :
        /\ disk' = IF Written(outcome)
                   THEN [rules |-> nextRules, settings |-> nextSettings]
                   ELSE disk
        /\ IF Applied(outcome)
           THEN rules' = nextRules /\ settings' = nextSettings
           ELSE UNCHANGED <<rules, settings>>

-----------------------------------------------------------------------------
\* Requests served in one critical section.

\* ForwardAdd: a new rule, or a new configuration for one that is not running.
ForwardAdd(id, c) ==
    LET next == [rules EXCEPT ![id] = c]
    IN  /\ up
        /\ id \notin editing
        /\ rules[id] # None => running[id] = Stopped
        /\ Valid(next)
        /\ Save(next, settings)
        /\ UNCHANGED <<up, volatile, proc>>

\* ForwardImport: a batch of rules with identifiers not in use, all or none.
ForwardImport(batch) ==
    LET next == [i \in Ids |-> IF batch[i] # None THEN batch[i] ELSE rules[i]]
    IN  /\ up
        /\ \E i \in Ids : batch[i] # None
        /\ \A i \in Ids : batch[i] # None => rules[i] = None
        /\ Valid(next)
        /\ Save(next, settings)
        /\ UNCHANGED <<up, volatile, proc>>

ForwardRemove(id) ==
    /\ up
    /\ id \notin editing
    /\ running[id] = Stopped
    /\ rules[id] # None
    /\ Save([rules EXCEPT ![id] = None], settings)
    /\ UNCHANGED <<up, volatile, proc>>

SettingsUpdate(s) ==
    /\ up
    /\ Save(rules, s)
    /\ UNCHANGED <<up, volatile, proc>>

-----------------------------------------------------------------------------
\* start_inner, up to the insertion of the Starting marker.

StartCaller(t, id, kind) ==
    /\ up
    /\ \/ kind = "manual" /\ t \in Clients /\ pc[t] = "idle"
       \/ kind = "automatic" /\ pc[t] = "maintaining" /\ id \in queue[t]
       \/ kind = "edit" /\ pc[t] = "edit_restart" /\ job[t].id = id

\* Where a caller of start_inner goes on when the call returns.
AfterStart(kind, left) ==
    CASE kind = "edit" -> "edit_finish"
      [] kind = "automatic" /\ left # {} -> "maintaining"
      [] OTHER -> "idle"

ReturnFromStart(t) ==
    /\ pc' = [pc EXCEPT ![t] = AfterStart(job[t].kind, queue[t])]
    /\ job' = [job EXCEPT ![t] = IF @.kind = "edit" THEN @ ELSE NoJob]

StartRefusedToEdited(id, kind) == kind # "edit" /\ id \in editing  \* faulty

StartRefusedToStopped(id, kind) ==  \* faulty
    kind = "automatic" /\ id \in manuallyStopped

StartRefused(id, kind) ==
    \/ kind # "edit" /\ id \in editing
    \/ kind = "automatic" /\ id \in manuallyStopped

\* A manual start withdraws the manual stop before anything else can fail.
ManualStopAfterStart(id, kind) ==
    IF kind = "manual" THEN manuallyStopped \ {id} ELSE manuallyStopped

\* The call returns without an attempt: refused, not found, already running,
\* or the rule's local port is in use.  A Failed entry is gone by the time
\* the port is tried.
StartReturns(t, id, kind) ==
    /\ StartCaller(t, id, kind)
    /\ queue' = [queue EXCEPT ![t] = @ \ {id}]
    /\ pc' = [pc EXCEPT ![t] = AfterStart(kind, queue'[t])]
    /\ \/ /\ StartRefused(id, kind)
          /\ UNCHANGED <<running, manuallyStopped>>
       \/ /\ ~StartRefused(id, kind)
          /\ manuallyStopped' = ManualStopAfterStart(id, kind)
          /\ \/ /\ rules[id] = None \/ running[id] \notin {Stopped, Failed}
                /\ UNCHANGED running
             \/ /\ rules[id] \in Listening
                /\ running[id] \in {Stopped, Failed}
                /\ running' = [running EXCEPT ![id] = Stopped]
    /\ UNCHANGED <<up, saved, diagnostics, editing, proc, job>>

\* The marker is inserted and start_attempt is called outside the lock with
\* the rule as it was read.
StartAttempt(t, id, kind) ==
    /\ StartCaller(t, id, kind)
    /\ ~StartRefused(id, kind)
    /\ rules[id] # None
    /\ running[id] \in {Stopped, Failed}
    /\ manuallyStopped' = ManualStopAfterStart(id, kind)
    /\ queue' = [queue EXCEPT ![t] = @ \ {id}]
    /\ \E a \in Attempts :
          /\ Fresh(a)
          /\ running' = [running EXCEPT ![id] = Starting(a)]
          /\ proc' = [proc EXCEPT ![a] =
                        [status |-> "starting", rule |-> id, config |-> rules[id]]]
          /\ job' = [job EXCEPT ![t] =
                        [kind |-> kind, id |-> id, attempt |-> a,
                         config |-> rules[id], expected |-> None]]
    /\ pc' = [pc EXCEPT ![t] = "spawning"]
    /\ UNCHANGED <<up, saved, diagnostics, editing>>

-----------------------------------------------------------------------------
\* start_attempt and the rest of start_inner.

\* The guardian reports that ssh accepted the forwarding.
SpawnAccepted(t) ==
    LET a == job[t].attempt
    IN  /\ pc[t] = "spawning"
        /\ proc' = [proc EXCEPT ![a].status = "live"]
        /\ pc' = [pc EXCEPT ![t] = "accepted"]
        /\ UNCHANGED <<up, saved, running, diagnostics, manuallyStopped,
                       editing, job, queue>>

\* Startup failed or took too long.  start_attempt has cleaned up before it
\* returns an error, which classify_diagnostic finds retryable or not.
SpawnFailed(t) ==
    LET a == job[t].attempt
    IN  /\ pc[t] = "spawning"
        /\ proc' = [proc EXCEPT ![a] = NoProc]
        /\ \E next \in {"failed_retryable", "failed_final"} :
              pc' = [pc EXCEPT ![t] = next]
        /\ UNCHANGED <<up, saved, running, diagnostics, manuallyStopped,
                       editing, job, queue>>

StillWantedBySomeone(t) == running[job[t].id].state = "starting"  \* faulty

\* The rule still waits for this attempt: nothing cancelled it meanwhile.
StillWanted(t) == running[job[t].id] = Starting(job[t].attempt)

StartCommits(t) ==
    LET id == job[t].id
    IN  /\ pc[t] = "accepted"
        /\ StillWanted(t)
        /\ running' = [running EXCEPT ![id] = Active(job[t].attempt)]
        /\ manuallyStopped' =
              IF job[t].kind = "edit" THEN manuallyStopped \ {id}
                                      ELSE manuallyStopped
        /\ diagnostics' = [diagnostics EXCEPT ![id] = RunningInfo]
        /\ pc' = [pc EXCEPT ![t] = "announce"]
        /\ UNCHANGED <<up, saved, editing, proc, job, queue>>

\* rule_started is published after the lock is released.
Announce(t) ==
    /\ pc[t] = "announce"
    /\ ReturnFromStart(t)
    /\ UNCHANGED <<up, saved, running, diagnostics, manuallyStopped, editing,
                   proc, queue>>

\* Faulty: the accepted attempt is forgotten instead of stopped.
StartForgets(t) ==
    /\ pc[t] = "accepted"
    /\ ~StillWanted(t)
    /\ ReturnFromStart(t)
    /\ UNCHANGED <<up, saved, running, diagnostics, manuallyStopped, editing,
                   proc, queue>>

\* The attempt was cancelled while it started; it is stopped, unlocked.
StartDiscards(t) ==
    /\ pc[t] = "accepted"
    /\ ~StillWanted(t)
    /\ pc' = [pc EXCEPT ![t] = "discarding"]
    /\ UNCHANGED <<up, saved, running, diagnostics, manuallyStopped, editing,
                   proc, job, queue>>

DiscardDone(t) ==
    /\ pc[t] = "discarding"
    /\ proc' = [proc EXCEPT ![job[t].attempt] = NoProc]
    /\ ReturnFromStart(t)
    /\ UNCHANGED <<up, saved, running, diagnostics, manuallyStopped, editing,
                   queue>>

AfterFailureByKind(t) == [state |-> pc[t], attempt |-> None]  \* faulty

AfterFailureOfOthers(t) ==  \* faulty
    IF job[t].kind = "edit" THEN Starting(job[t].attempt) ELSE Failed

AfterFailure(t) ==
    CASE job[t].kind = "edit" -> Stopped
      [] job[t].kind # "edit" /\ pc[t] = "failed_retryable"
            /\ job[t].config \in Reconnect -> Reconnecting
      [] OTHER -> Failed

\* A failed start is recorded if the rule still waits for this attempt.
StartFails(t) ==
    LET id == job[t].id
    IN  /\ pc[t] \in {"failed_retryable", "failed_final"}
        /\ IF StillWanted(t)
           THEN /\ running' = [running EXCEPT ![id] = AfterFailure(t)]
                /\ diagnostics' = [diagnostics EXCEPT ![id] = ErrorInfo]
           ELSE UNCHANGED <<running, diagnostics>>
        /\ ReturnFromStart(t)
        /\ UNCHANGED <<up, saved, manuallyStopped, editing, proc, queue>>

-----------------------------------------------------------------------------
\* stop.

\* The stop is recorded and the entry taken out; an Active one is the
\* handler's to stop.
TakeOut(t, id) ==
    /\ up
    /\ t \in Clients /\ pc[t] = "idle"
    /\ rules[id] # None
    /\ manuallyStopped' = manuallyStopped \cup {id}
    /\ diagnostics' = [diagnostics EXCEPT ![id] = NoInfo]
    /\ running' = [running EXCEPT ![id] = Stopped]
    /\ IF running[id].state = "active"
       THEN /\ pc' = [pc EXCEPT ![t] = "stopping"]
            /\ job' = [job EXCEPT ![t] =
                          [kind |-> "manual", id |-> id,
                           attempt |-> running[id].attempt,
                           config |-> None, expected |-> None]]
       ELSE UNCHANGED <<pc, job>>
    /\ UNCHANGED <<up, saved, editing, proc, queue>>

ForwardStopEvenEdited(t, id) == TakeOut(t, id)  \* faulty

ForwardStop(t, id) ==
    /\ id \notin editing
    /\ TakeOut(t, id)

\* ManagedAttempt::stop ends the attempt, by force if the guardian does not.
StopDone(t) ==
    /\ pc[t] = "stopping"
    /\ proc' = [proc EXCEPT ![job[t].attempt] = NoProc]
    /\ pc' = [pc EXCEPT ![t] = "idle"]
    /\ job' = [job EXCEPT ![t] = NoJob]
    /\ UNCHANGED <<up, saved, running, diagnostics, manuallyStopped, editing,
                   queue>>

-----------------------------------------------------------------------------
\* edit_active: reserve, stop, save, restart, release.

\* The client sends the rule it saw, which must be the current one.
EditBegin(t, id, c) ==
    /\ up
    /\ t \in Clients /\ pc[t] = "idle"
    /\ rules[id] # None
    /\ id \notin editing
    /\ running[id].state = "active"
    /\ Valid([rules EXCEPT ![id] = c])
    /\ editing' = editing \cup {id}
    /\ manuallyStopped' = manuallyStopped \cup {id}
    /\ diagnostics' = [diagnostics EXCEPT ![id] = NoInfo]
    /\ running' = [running EXCEPT ![id] = Stopped]
    /\ job' = [job EXCEPT ![t] =
                  [kind |-> "edit", id |-> id, attempt |-> running[id].attempt,
                   config |-> c, expected |-> rules[id]]]
    /\ pc' = [pc EXCEPT ![t] = "edit_stop"]
    /\ UNCHANGED <<up, saved, proc, queue>>

EditStopped(t) ==
    /\ pc[t] = "edit_stop"
    /\ proc' = [proc EXCEPT ![job[t].attempt] = NoProc]
    /\ pc' = [pc EXCEPT ![t] = "edit_save"]
    /\ UNCHANGED <<up, saved, running, diagnostics, manuallyStopped, editing,
                   job, queue>>

\* Faulty: the early return leaves the reservation behind.
EditStopFailedKeepsReservation(t) ==
    LET id == job[t].id
    IN  /\ pc[t] = "edit_stop"
        /\ proc' = [proc EXCEPT ![job[t].attempt] = NoProc]
        /\ running' = [running EXCEPT ![id] = Failed]
        /\ diagnostics' = [diagnostics EXCEPT ![id].error = "some"]
        /\ job' = [job EXCEPT ![t] = NoJob]
        /\ pc' = [pc EXCEPT ![t] = "idle"]
        /\ UNCHANGED <<up, saved, manuallyStopped, editing, queue>>

\* The guardian ended badly: force_cleanup has run, the edit is given up.
EditStopFailed(t) ==
    LET id == job[t].id
    IN  /\ pc[t] = "edit_stop"
        /\ proc' = [proc EXCEPT ![job[t].attempt] = NoProc]
        /\ running' = [running EXCEPT ![id] = Failed]
        /\ diagnostics' = [diagnostics EXCEPT ![id].error = "some"]
        /\ pc' = [pc EXCEPT ![t] = "edit_finish"]
        /\ UNCHANGED <<up, saved, manuallyStopped, editing, job, queue>>

\* Faulty: only the rules the edit began with were validated.
EditSaveUnchecked(t) ==
    /\ pc[t] = "edit_save"
    /\ Save([rules EXCEPT ![job[t].id] = job[t].config], settings)
    /\ pc' = [pc EXCEPT ![t] = "edit_restart"]
    /\ UNCHANGED <<up, running, diagnostics, manuallyStopped, editing, proc,
                   job, queue>>

\* The replacement is validated again, against the rules as they are now, and
\* saved.  The restart follows whether or not that succeeded.
EditSave(t) ==
    LET next == [rules EXCEPT ![job[t].id] = job[t].config]
    IN  /\ pc[t] = "edit_save"
        /\ IF Valid(next) THEN Save(next, settings) ELSE UNCHANGED saved
        /\ pc' = [pc EXCEPT ![t] = "edit_restart"]
        /\ UNCHANGED <<up, running, diagnostics, manuallyStopped, editing, proc,
                       job, queue>>

EditFinish(t) ==
    /\ pc[t] = "edit_finish"
    /\ editing' = editing \ {job[t].id}
    /\ pc' = [pc EXCEPT ![t] = "idle"]
    /\ job' = [job EXCEPT ![t] = NoJob]
    /\ UNCHANGED <<up, saved, running, diagnostics, manuallyStopped, proc, queue>>

-----------------------------------------------------------------------------
\* maintain and the supervisor.

ExitSeenIfRetried(id) ==  \* faulty
    /\ running[id].state = "active"
    /\ rules[id] \in Reconnect
    /\ proc[running[id].attempt].status = "exited"

ExitSeen(id) ==
    /\ running[id].state = "active"
    /\ proc[running[id].attempt].status = "exited"

\* The locked part of maintain(), run by the supervisor and by every Status
\* request.  Replacing an exited attempt's entry drops it, which cleans it up.
MaintainScan(t) ==
    LET due == {i \in Ids : running[i] = RetryDue}
    IN  /\ up
        /\ pc[t] = "idle"
        /\ running' =
              [i \in Ids |->
                  IF ExitSeen(i)
                  THEN IF rules[i] \in Reconnect THEN Reconnecting ELSE Failed
                  ELSE IF i \in due THEN Stopped ELSE running[i]]
        /\ diagnostics' =
              [i \in Ids |-> IF ExitSeen(i) THEN ErrorInfo ELSE diagnostics[i]]
        /\ proc' =
              [a \in Attempts |->
                  IF \E i \in Ids : ExitSeen(i) /\ running[i].attempt = a
                  THEN NoProc ELSE proc[a]]
        /\ queue' = [queue EXCEPT ![t] = due]
        /\ pc' = [pc EXCEPT ![t] = IF due = {} THEN "idle" ELSE "maintaining"]
        /\ UNCHANGED <<up, saved, manuallyStopped, editing, job>>

\* start_supervisor reads the rules to restore, then starts them one by one.
Restore ==
    LET ids == {i \in Ids : rules[i] \in AutoStart}
    IN  /\ up
        /\ pc[Supervisor] = "restore"
        /\ queue' = [queue EXCEPT ![Supervisor] = ids]
        /\ pc' = [pc EXCEPT ![Supervisor] =
                     IF ids = {} THEN "idle" ELSE "maintaining"]
        /\ UNCHANGED <<up, saved, running, diagnostics, manuallyStopped, editing,
                       proc, job>>

-----------------------------------------------------------------------------
\* The clock, the processes and the daemon's own end.

\* The jittered delay of a scheduled reconnect passes.
DelayElapses(id) ==
    /\ running[id] = Reconnecting
    /\ running' = [running EXCEPT ![id] = RetryDue]
    /\ UNCHANGED <<up, saved, diagnostics, manuallyStopped, editing, proc, pc,
                   job, queue>>

ProcessExit(a) ==
    /\ proc[a].status = "live"
    /\ proc' = [proc EXCEPT ![a].status = "exited"]
    /\ UNCHANGED <<up, saved, volatile>>

\* What a new DaemonManager and its threads start from.
StartOfThread(t) == IF t = Supervisor THEN "restore" ELSE "idle"
NothingRuns      == [i \in Ids |-> Stopped]
NoDiagnostics    == [i \in Ids |-> NoInfo]
NoRequests       == [t \in Threads |-> NoJob]
NothingQueued    == [t \in Threads |-> {}]

\* SIGKILL: the daemon's memory is gone, its attempts are not.
Crash ==
    /\ up
    /\ up' = FALSE
    /\ running' = NothingRuns
    /\ diagnostics' = NoDiagnostics
    /\ manuallyStopped' = {}
    /\ editing' = {}
    /\ pc' = [t \in Threads |-> StartOfThread(t)]
    /\ job' = NoRequests
    /\ queue' = NothingQueued
    /\ UNCHANGED <<saved, proc>>

\* The lease reads end-of-file and the guardian ends its attempt.
GuardianCleanup(a) ==
    /\ ~up
    /\ proc[a] # NoProc
    /\ proc' = [proc EXCEPT ![a] = NoProc]
    /\ UNCHANGED <<up, saved, volatile>>

\* A new daemon gets the lock once no guardian holds it, and loads the file.
Restart ==
    /\ ~up
    /\ \A a \in Attempts : proc[a] = NoProc
    /\ up' = TRUE
    /\ rules' = disk.rules
    /\ settings' = disk.settings
    /\ UNCHANGED <<disk, volatile, proc>>

-----------------------------------------------------------------------------

Init ==
    /\ up = TRUE
    /\ rules \in {r \in RuleSets : Valid(r)}
    /\ settings \in Settings
    /\ disk = [rules |-> rules, settings |-> settings]
    /\ running = NothingRuns
    /\ diagnostics = NoDiagnostics
    /\ manuallyStopped = {}
    /\ editing = {}
    /\ pc = [t \in Threads |-> StartOfThread(t)]
    /\ job = NoRequests
    /\ queue = NothingQueued
    /\ proc = [a \in Attempts |-> NoProc]

Requests ==
    \/ \E id \in Ids, c \in Configs : ForwardAdd(id, c)
    \/ \E batch \in RuleSets : ForwardImport(batch)
    \/ \E id \in Ids : ForwardRemove(id)
    \/ \E s \in Settings : SettingsUpdate(s)
    \/ \E t \in Clients, id \in Ids :
          \/ StartAttempt(t, id, "manual")
          \/ StartReturns(t, id, "manual")
          \/ ForwardStop(t, id)
    \/ \E t \in Clients, id \in Ids, c \in Configs : EditBegin(t, id, c)
    \/ \E t \in Clients : MaintainScan(t)

\* The steps by which thread t gets on with what it has begun.
Progress(t) ==
    \/ \E id \in Ids, kind \in {"automatic", "edit"} :
          \/ StartAttempt(t, id, kind)
          \/ StartReturns(t, id, kind)
    \/ SpawnAccepted(t)
    \/ SpawnFailed(t)
    \/ StartCommits(t)
    \/ Announce(t)
    \/ StartDiscards(t)
    \/ DiscardDone(t)
    \/ StartFails(t)
    \/ StopDone(t)
    \/ EditStopped(t)
    \/ EditStopFailed(t)
    \/ EditSave(t)
    \/ EditFinish(t)

SupervisorLoop == Restore \/ MaintainScan(Supervisor)

Environment ==
    \/ \E id \in Ids : DelayElapses(id)
    \/ \E a \in Attempts : ProcessExit(a) \/ GuardianCleanup(a)
    \/ Crash
    \/ Restart

Next ==
    \/ Requests
    \/ \E t \in Threads : Progress(t)
    \/ SupervisorLoop
    \/ Environment

Spec == Init /\ [][Next]_vars

\* A begun request is carried through and the supervisor keeps running; what
\* clients ask for, and when processes or the daemon die, is up to them.
Fairness ==
    /\ \A t \in Threads : WF_vars(Progress(t))
    /\ WF_vars(SupervisorLoop)
    /\ \A id \in Ids : WF_vars(DelayElapses(id))
    /\ \A a \in Attempts : WF_vars(GuardianCleanup(a))

FairSpec == Spec /\ Fairness

-----------------------------------------------------------------------------
\* Properties

\* Every variable holds what its declaration in State, Attempt, RuntimeInfo
\* or a handler's locals allows.
TypeOK ==
    /\ up \in BOOLEAN
    /\ rules \in RuleSets
    /\ settings \in Settings
    /\ disk \in [rules : RuleSets, settings : Settings]
    /\ running \in [Ids -> Entry]
    /\ diagnostics \in [Ids -> Info]
    /\ manuallyStopped \subseteq Ids
    /\ editing \subseteq Ids
    /\ proc \in [Attempts -> Proc]
    /\ pc \in [Threads -> PC]
    /\ job \in [Threads -> Job]
    /\ queue \in [Threads -> SUBSET Ids]

\* Where a handler holds an attempt in a local variable.
HoldingPC == {"spawning", "accepted", "discarding", "stopping", "edit_stop"}

HeldBy(a) == {t \in Threads : pc[t] \in HoldingPC /\ job[t].attempt = a}

ActiveFor(a) == {i \in Ids : running[i] = Active(a)}

\* No ssh process is lost: while the daemon runs, each attempt that exists is
\* either the Active entry of one rule or a local variable of one handler, and
\* never both, so that exactly one place is responsible for stopping it
\* (start_inner's late acceptance, stop and edit_active's move out of the map,
\* maintain's replacement of the entry).
AttemptHasOneOwner ==
    up => \A a \in Attempts :
        proc[a] # NoProc =>
            \/ \E i \in Ids : ActiveFor(a) = {i} /\ HeldBy(a) = {}
            \/ \E t \in Threads : HeldBy(a) = {t} /\ ActiveFor(a) = {}

\* A rule that is starting or active runs the configuration the daemon lists:
\* add, import and edit_active never change a rule under its attempt, whatever
\* happens between the locked parts of a start.
RunningAsConfigured ==
    \A i \in Ids :
        LET a == running[i].attempt
        IN  /\ running[i] # Stopped => rules[i] # None
            /\ running[i].state \in {"starting", "active"} /\ proc[a] # NoProc
                  => proc[a].rule = i /\ proc[a].config = rules[i]

\* A Starting marker has a handler that will replace it or take it away; an
\* abandoned one would keep its rule from ever being started again.
StartingHasWorker ==
    \A i \in Ids :
        running[i].state = "starting" =>
            \E t \in Threads :
                /\ pc[t] \in {"spawning", "accepted",
                              "failed_retryable", "failed_final"}
                /\ job[t].id = i
                /\ job[t].attempt = running[i].attempt

\* Manual stop wins over automatic recovery: a rule a client stopped, and did
\* not start again, is not connecting, connected or waiting to reconnect, even
\* if a retry or a restore was already on its way when the stop came.  Only
\* the restart of an active edit may run before the stop is withdrawn.
StoppedStaysStopped ==
    \A i \in manuallyStopped :
        \/ running[i] \in {Stopped, Failed}
        \/ i \in editing /\ running[i].state = "starting"

Editors(i) == {t \in Threads : job[t].kind = "edit" /\ job[t].id = i}

\* An edit's reservation has exactly one handler behind it, and until the save
\* the rule is still the one the client saw and is not running: the save can
\* never overwrite another client's change.
EditIsExclusive ==
    \A i \in Ids :
        /\ i \in editing <=> Editors(i) # {}
        /\ \A t, u \in Editors(i) : t = u
        /\ \A t \in Editors(i) :
              pc[t] \in {"edit_stop", "edit_save"} =>
                  rules[i] = job[t].expected /\ running[i] = Stopped

\* Nobody but its editor changes a reserved rule, and until the restart is
\* decided nobody else touches its runtime state: edit_active reserves the rule
\* through stop, save and restart, and no stop, start, retry or removal that
\* was under way slips in between.
OnlyEditorTouches ==
    [][\A i \in Ids : \A t \in Editors(i) :
          /\ up'
          /\ \/ rules'[i] # rules[i]
             \/ running'[i] # running[i] /\ pc[t] \notin {"announce", "edit_finish"}
          => pc'[t] # pc[t]]_vars

\* The rule set never holds two rules that may not stand together, although an
\* edit validates its replacement, unlocks to stop the old attempt, and saves
\* later.
RulesAreValid == Valid(rules)

\* What the daemon serves is what the file holds, after an uncertain save too:
\* a restarted daemon finds the rules and settings clients were shown.
ServedIsSaved == up => disk = [rules |-> rules, settings |-> settings]

\* Status tells a consistent story: an uptime for active rules only, an error
\* for failed and reconnecting ones, none for active ones.
StatusIsConsistent ==
    \A i \in Ids :
        /\ diagnostics[i].since = "some" <=> running[i].state = "active"
        /\ running[i] \in {Reconnecting, RetryDue, Failed} =>
              diagnostics[i].error = "some"
        /\ running[i].state = "active" => diagnostics[i].error = "none"

\* Liveness, under FairSpec.

\* A reservation is always released, on every error path of edit_active.
EditIsReleased == \A i \in Ids : i \in editing ~> i \notin editing

\* No rule stays Starting with the same attempt: start_inner settles it.
StartingSettles ==
    \A i \in Ids, a \in Attempts :
        running[i] = Starting(a) ~> running[i] # Starting(a)

\* A process nobody wants any more is ended: after a stop, a cancelled start,
\* an edit or the daemon's death.
UnwantedIsEnded ==
    \A a \in Attempts :
        (proc[a] # NoProc /\ ActiveFor(a) = {})
            ~> (proc[a] = NoProc \/ ActiveFor(a) # {})

\* A rule does not look active for ever after its ssh process ended.
ExitIsNoticed ==
    \A i \in Ids, a \in Attempts :
        (running[i] = Active(a) /\ proc[a].status = "exited")
            ~> running[i] # Active(a)

-----------------------------------------------------------------------------
\* What the design document says and the program does not do.

\* docs/design-decisions.md: when the retry timer fires, Reconnecting becomes
\* Starting.  maintain() takes the entry out first and ignores the outcome of
\* the start.
RetryStarts ==
    \A i \in Ids :
        running[i] = RetryDue ~>
            \/ running[i].state = "starting"
            \/ i \in manuallyStopped
            \/ rules[i] = None
            \/ ~up
==============================================================================
