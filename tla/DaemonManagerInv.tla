-------------------------- MODULE DaemonManagerInv ---------------------------
(***************************************************************************)
(* The inductive invariant behind the safety properties of DaemonManager.  *)
(* TLC checks it on small instances, DaemonManagerProofs proves it.        *)
(***************************************************************************)
EXTENDS DaemonManager

\* Where a handler waits for the start of the attempt it names.
WorkerPC == {"spawning", "accepted", "failed_retryable", "failed_final"}

\* Where a handler's local attempt is its own to dispose of.
UsingPC == WorkerPC \cup {"discarding", "stopping", "edit_stop"}

\* Entries and locals have the parts their state calls for.
EntryShape ==
    \A i \in Ids :
        \/ running[i] \in {Stopped, Reconnecting, RetryDue, Failed}
        \/ /\ running[i].attempt \in Attempts
           /\ running[i] \in {Starting(running[i].attempt), Active(running[i].attempt)}

JobShape ==
    \A t \in Threads :
        /\ pc[t] \in UsingPC \cup {"announce"} => job[t].attempt \in Attempts
        /\ pc[t] \in {"idle", "restore", "maintaining"} => job[t] = NoJob
        /\ pc[t] \notin {"idle", "restore", "maintaining"} => job[t].id \in Ids
        /\ pc[t] = "stopping" => job[t].kind # "edit"
        /\ pc[t] \in {"edit_stop", "edit_save", "edit_restart", "edit_finish"}
              => job[t].kind = "edit"
        /\ pc[t] \in {"edit_stop", "edit_save"} =>
              job[t].config \in Configs /\ job[t].expected \in Configs

\* While no daemon runs there are no threads and no runtime state.
DownIsEmpty ==
    ~up =>
        /\ running = NothingRuns
        /\ diagnostics = NoDiagnostics
        /\ manuallyStopped = {}
        /\ editing = {}
        /\ pc = [t \in Threads |-> StartOfThread(t)]
        /\ job = NoRequests

\* An attempt is in one handler's hands at most, or in one entry.
HandlersApart ==
    \A t, u \in Threads :
        /\ pc[t] \in UsingPC
        /\ pc[u] \in UsingPC
        /\ job[t].attempt = job[u].attempt
        => t = u

EntriesApart ==
    \A i, j \in Ids :
        running[i].attempt \in Attempts /\ running[i].attempt = running[j].attempt
            => i = j

ActiveIsFree ==
    \A i \in Ids, t \in Threads :
        running[i].state = "active" /\ pc[t] \in UsingPC
            => job[t].attempt # running[i].attempt

\* Every process has an owner; a start in progress has a process.
Owned(a) ==
    \/ \E i \in Ids : running[i] = Active(a)
    \/ \E t \in Threads : pc[t] \in HoldingPC /\ job[t].attempt = a

ProcessOwned == up => \A a \in Attempts : proc[a] # NoProc => Owned(a)

StartHasProcess ==
    \A t \in Threads :
        pc[t] \in {"spawning", "accepted"} => proc[job[t].attempt].status # "none"

ProcShape ==
    \A a \in Attempts : proc[a].status = "none" => proc[a] = NoProc

\* How far an edit is tells what its rule's entry can be.
EditStage ==
    \A t \in Threads :
        job[t].kind = "edit" =>
            /\ pc[t] \in {"edit_stop", "edit_save", "edit_restart"}
                  => running[job[t].id] = Stopped
            /\ pc[t] \in WorkerPC
                  => running[job[t].id] = Starting(job[t].attempt)
            /\ pc[t] \in {"announce", "edit_finish"}
                  => running[job[t].id].state # "starting"
            /\ pc[t] # "discarding"

EditedExists == \A i \in editing : rules[i] # None

SavedCopy == disk = [rules |-> rules, settings |-> settings]

\* The invariant of DaemonManager: its state is one the handlers can reach.
IInv ==
    /\ TypeOK
    /\ EntryShape
    /\ JobShape
    /\ ProcShape
    /\ DownIsEmpty
    /\ HandlersApart
    /\ EntriesApart
    /\ ActiveIsFree
    /\ ProcessOwned
    /\ StartHasProcess
    /\ StartingHasWorker
    /\ RunningAsConfigured
    /\ EditIsExclusive
    /\ EditStage
    /\ EditedExists
    /\ StoppedStaysStopped
    /\ SavedCopy
    /\ RulesAreValid
    /\ StatusIsConsistent

-----------------------------------------------------------------------------
\* Every attempt is one of Attempt: a daemon cannot see ssh, but may take it to
\* run as long as start_attempt does and the guardian has not ended.
Life(a) == INSTANCE Attempt WITH
              up <- up,
              status <- IF up \/ proc[a] = NoProc THEN proc[a].status ELSE "left",
              ssh <- IF proc[a].status \in {"starting", "live"} THEN "guarded" ELSE "none"

\* What is being started is start_attempt's alone: nobody who holds an attempt,
\* and no entry, has one whose start has not returned.
StartsApart ==
    /\ \A t \in Threads :
          /\ pc[t] = "spawning" => proc[job[t].attempt].status = "starting"
          /\ pc[t] \in HoldingPC \ {"spawning"} =>
                proc[job[t].attempt].status # "starting"
    /\ \A i \in Ids :
          running[i].state = "active" => proc[running[i].attempt].status # "starting"
==============================================================================
