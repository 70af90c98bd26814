------------------------- MODULE DaemonManagerProofs -------------------------
(****************************************************************************)
(* The safety properties of DaemonManager as theorems, for any sets of      *)
(* rules, configurations, clients and attempts: first type correctness,     *)
(* then that every action preserves the inductive invariant IInv, then      *)
(* what follows from it, at last that each attempt is one of Attempt.       *)
(****************************************************************************)
EXTENDS DaemonManagerInv, TLAPS

-----------------------------------------------------------------------------
\* Type correctness

\* The supervisor and the connection threads are the threads.
LEMMA ThreadsType == Supervisor \in Threads /\ Clients \subseteq Threads
BY DEF Threads

\* The initial state is well typed.
LEMMA InitTypeOK == Init => TypeOK
BY NameAssumption
   DEF Init, TypeOK, RuleSets, Entry, Stopped, NothingRuns, NoDiagnostics, Info, NoInfo,
       NothingQueued, NoRequests, NoJob, Job, Proc, NoProc, StartOfThread, PC, Threads

\* Returning from start_inner leaves a handler in a proper place.
LEMMA ReturnType ==
    ASSUME NEW t \in Threads, pc \in [Threads -> PC], job \in [Threads -> Job],
           ReturnFromStart(t)
    PROVE  pc' \in [Threads -> PC] /\ job' \in [Threads -> Job]
BY DEF ReturnFromStart, AfterStart, PC, Job, NoJob

\* Every step keeps the state well typed.
LEMMA StepTypeOK == TypeOK /\ [Next]_vars => TypeOK'
<1> SUFFICES ASSUME TypeOK, [Next]_vars PROVE TypeOK'
  OBVIOUS
<1> USE ThreadsType, NameAssumption
<1>1. ASSUME NEW id \in Ids, NEW c \in Configs, ForwardAdd(id, c) PROVE TypeOK'
  BY <1>1 DEF TypeOK, ForwardAdd, Save, RuleSets, volatile
<1>2. ASSUME NEW batch \in RuleSets, ForwardImport(batch) PROVE TypeOK'
  BY <1>2 DEF TypeOK, ForwardImport, Save, RuleSets, volatile
<1>3. ASSUME NEW id \in Ids, ForwardRemove(id) PROVE TypeOK'
  BY <1>3 DEF TypeOK, ForwardRemove, Save, RuleSets, volatile
<1>4. ASSUME NEW s \in Settings, SettingsUpdate(s) PROVE TypeOK'
  BY <1>4 DEF TypeOK, SettingsUpdate, Save, RuleSets, volatile
<1>5. ASSUME NEW t \in Threads, NEW id \in Ids, NEW kind \in {"manual", "automatic", "edit"},
             StartAttempt(t, id, kind)
      PROVE  TypeOK'
  BY <1>5 DEF TypeOK, StartAttempt, RuleSets, saved, Entry, Starting, Proc, NoProc, Job, PC,
              ManualStopAfterStart
<1>6. ASSUME NEW t \in Threads, NEW id \in Ids, NEW kind \in {"manual", "automatic", "edit"},
             StartReturns(t, id, kind)
      PROVE  TypeOK'
  BY <1>6 DEF TypeOK, StartReturns, saved, Entry, Stopped, PC, AfterStart,
              ManualStopAfterStart
<1>7. ASSUME NEW t \in Clients, NEW id \in Ids, ForwardStop(t, id) PROVE TypeOK'
  <2>1. job' \in [Threads -> Job]
    <3>1. running[id].attempt \in Attempts \cup {None}
      BY DEF TypeOK, Entry
    <3>2. [kind |-> "manual", id |-> id, attempt |-> running[id].attempt,
           config |-> None, expected |-> None] \in Job
      BY <3>1 DEF Job
    <3> QED
      BY <1>7, <3>2 DEF TypeOK, ForwardStop, TakeOut
  <2>2. diagnostics' \in [Ids -> Info]
    BY <1>7 DEF TypeOK, ForwardStop, TakeOut, Info, NoInfo
  <2>3. running' \in [Ids -> Entry] /\ pc' \in [Threads -> PC]
    BY <1>7 DEF TypeOK, ForwardStop, TakeOut, Entry, Stopped, PC
  <2> QED
    BY <1>7, <2>1, <2>2, <2>3 DEF TypeOK, ForwardStop, TakeOut, saved
<1>8. ASSUME NEW t \in Clients, NEW id \in Ids, NEW c \in Configs, EditBegin(t, id, c)
      PROVE  TypeOK'
  BY <1>8 DEF TypeOK, EditBegin, saved, Entry, Stopped, PC, Job, Info, NoInfo, RuleSets
<1>9. ASSUME NEW t \in Threads, MaintainScan(t) PROVE TypeOK'
  BY <1>9 DEF TypeOK, MaintainScan, saved, Entry, Stopped, Reconnecting, RetryDue, Failed,
              Proc, NoProc,
              PC, Info, ErrorInfo
<1>10. ASSUME NEW t \in Threads, SpawnAccepted(t) PROVE TypeOK'
  BY <1>10 DEF TypeOK, SpawnAccepted, saved, Proc, NoProc, PC
<1>11. ASSUME NEW t \in Threads, SpawnFailed(t) PROVE TypeOK'
  BY <1>11 DEF TypeOK, SpawnFailed, saved, Proc, NoProc, PC
<1>12. ASSUME NEW t \in Threads, StartCommits(t) PROVE TypeOK'
  BY <1>12 DEF TypeOK, StartCommits, StillWanted, Starting, Active, saved, Entry, PC, Info,
               RunningInfo, Job
<1>13. ASSUME NEW t \in Threads, Announce(t) PROVE TypeOK'
  BY <1>13 DEF TypeOK, Announce, ReturnFromStart, AfterStart, saved, PC, Job, NoJob
<1>14. ASSUME NEW t \in Threads, StartDiscards(t) PROVE TypeOK'
  BY <1>14 DEF TypeOK, StartDiscards, saved, PC
<1>15. ASSUME NEW t \in Threads, DiscardDone(t) PROVE TypeOK'
  <2>1. proc' \in [Attempts -> Proc]
    BY <1>15 DEF TypeOK, DiscardDone, Proc, NoProc
  <2>2. pc' \in [Threads -> PC] /\ job' \in [Threads -> Job]
    BY <1>15, ReturnType DEF TypeOK, DiscardDone
  <2> QED
    BY <1>15, <2>1, <2>2 DEF TypeOK, DiscardDone, saved
<1>16. ASSUME NEW t \in Threads, StartFails(t) PROVE TypeOK'
  <2>1. AfterFailure(t) \in Entry /\ ErrorInfo \in Info
    BY DEF AfterFailure, Entry, Stopped, Reconnecting, Failed, Info, ErrorInfo
  <2>2. running' \in [Ids -> Entry] /\ diagnostics' \in [Ids -> Info]
    BY <1>16, <2>1 DEF TypeOK, StartFails
  <2>3. pc' \in [Threads -> PC] /\ job' \in [Threads -> Job]
    BY <1>16, ReturnType DEF TypeOK, StartFails
  <2> QED
    BY <1>16, <2>2, <2>3 DEF TypeOK, StartFails, saved
<1>17. ASSUME NEW t \in Threads, StopDone(t) PROVE TypeOK'
  BY <1>17 DEF TypeOK, StopDone, saved, PC, Job, NoJob, Proc, NoProc
<1>18. ASSUME NEW t \in Threads, EditStopped(t) PROVE TypeOK'
  BY <1>18 DEF TypeOK, EditStopped, saved, PC, Proc, NoProc
<1>19. ASSUME NEW t \in Threads, EditStopFailed(t) PROVE TypeOK'
  <2>2. proc' \in [Attempts -> Proc] /\ pc' \in [Threads -> PC]
    BY <1>19 DEF TypeOK, EditStopFailed, PC, Proc, NoProc
  <2>3. running' \in [Ids -> Entry]
    BY <1>19 DEF TypeOK, EditStopFailed, Entry, Failed
  <2>4. diagnostics' \in [Ids -> Info]
    BY <1>19 DEF TypeOK, EditStopFailed, Info
  <2> QED
    BY <1>19, <2>2, <2>3, <2>4 DEF TypeOK, EditStopFailed, saved
<1>20. ASSUME NEW t \in Threads, EditSave(t) PROVE TypeOK'
  <2>2. [rules EXCEPT ![job[t].id] = job[t].config] \in RuleSets
    BY DEF TypeOK, RuleSets, Job
  <2>3. rules' \in RuleSets /\ settings' \in Settings
        /\ disk' \in [rules : RuleSets, settings : Settings]
    BY <1>20, <2>2 DEF TypeOK, EditSave, Save, saved
  <2>4. pc' \in [Threads -> PC]
    BY <1>20 DEF TypeOK, EditSave, PC
  <2> QED
    BY <1>20, <2>3, <2>4 DEF TypeOK, EditSave
<1>21. ASSUME NEW t \in Threads, EditFinish(t) PROVE TypeOK'
  BY <1>21 DEF TypeOK, EditFinish, saved, PC, Job, NoJob
<1>22. CASE Restore
  BY <1>22 DEF TypeOK, Restore, saved, PC
<1>23. ASSUME NEW id \in Ids, DelayElapses(id) PROVE TypeOK'
  BY <1>23 DEF TypeOK, DelayElapses, saved, Entry, RetryDue
<1>24. ASSUME NEW a \in Attempts, ProcessExit(a) PROVE TypeOK'
  BY <1>24 DEF TypeOK, ProcessExit, saved, volatile, Proc, NoProc
<1>25. ASSUME NEW a \in Attempts, GuardianCleanup(a) PROVE TypeOK'
  BY <1>25 DEF TypeOK, GuardianCleanup, saved, volatile, Proc, NoProc
<1>26. CASE Crash
  BY <1>26 DEF TypeOK, Crash, saved, Entry, Stopped, NothingRuns, NoDiagnostics, Info, NoInfo,
       NothingQueued, NoRequests, NoJob, Job, StartOfThread, PC, Threads
<1>27. CASE Restart
  BY <1>27 DEF TypeOK, Restart, volatile
<1>28. CASE UNCHANGED vars
  BY <1>28 DEF TypeOK, vars, saved, volatile
<1> QED
  BY <1>1, <1>2, <1>3, <1>4, <1>5, <1>6, <1>7, <1>8, <1>9, <1>10, <1>11, <1>12, <1>13, <1>14,
     <1>15, <1>16, <1>17, <1>18, <1>19, <1>20, <1>21, <1>22, <1>23, <1>24, <1>25, <1>26, <1>27,
     <1>28
     DEF Next, Requests, Progress, SupervisorLoop, Environment

\* The daemon's state, the file and the handlers' locals keep their types.
THEOREM TypeCorrect == Spec => []TypeOK
BY InitTypeOK, StepTypeOK, PTL DEF Spec

-----------------------------------------------------------------------------
\* The invariant is preserved: one lemma per action. Its first step collects
\* the conjuncts over variables the action leaves alone, the others take the
\* conjuncts it can disturb, one by one.

\* The handler behind a reserved rule's Starting entry is its editor.
LEMMA KindOfEdited ==
    ASSUME IInv, NEW t \in Threads, pc[t] \in WorkerPC, job[t].id \in Ids,
           running[job[t].id] = Starting(job[t].attempt), job[t].id \in editing
    PROVE  job[t].kind = "edit"
<1>1. PICK u \in Threads : job[u].kind = "edit" /\ job[u].id = job[t].id
  BY DEF IInv, EditIsExclusive, Editors
<1>2. pc[u] \in PC /\ running[job[u].id].state = "starting"
  BY <1>1 DEF IInv, TypeOK, Starting
<1>3. pc[u] \in WorkerPC
  BY <1>1, <1>2 DEF IInv, EditStage, JobShape, NoJob, PC, WorkerPC, Stopped
<1>4. job[u].attempt = job[t].attempt
  <2>1. running[job[u].id] = Starting(job[u].attempt)
    BY <1>1, <1>3 DEF IInv, EditStage
  <2> QED
    BY <1>1, <2>1 DEF Starting
<1> QED
  BY <1>1, <1>3, <1>4 DEF IInv, HandlersApart, UsingPC

\* A start that is still wanted is not another handler's edit.
LEMMA EditorsApart ==
    ASSUME IInv, NEW t \in Threads, NEW u \in Threads, u # t, pc[t] \in WorkerPC,
           job[u].kind = "edit", job[u].id = job[t].id
    PROVE  running[job[t].id] # Starting(job[t].attempt)
<1> SUFFICES ASSUME running[job[t].id] = Starting(job[t].attempt) PROVE FALSE
  OBVIOUS
<1>1. job[t].id \in Ids
  BY DEF IInv, JobShape, WorkerPC
<1>2. u \in Editors(job[t].id) /\ job[t].id \in editing
  BY <1>1 DEF IInv, EditIsExclusive, Editors
<1>3. t \in Editors(job[t].id)
  BY <1>1, <1>2, KindOfEdited DEF Editors
<1> QED
  BY <1>1, <1>2, <1>3 DEF IInv, EditIsExclusive

\* A start that inserts its marker preserves the invariant.
LEMMA StartAttemptStep ==
    ASSUME IInv, TypeOK', NEW t \in Threads, NEW id \in Ids, NEW kind \in {"manual",
           "automatic", "edit"},
           StartAttempt(t, id, kind)
    PROVE  IInv'
<1> USE NameAssumption, ThreadsType
        DEF Stopped, Starting, Active, Reconnecting, RetryDue, Failed, NoProc, NoJob, NoInfo,
            ErrorInfo, RunningInfo, WorkerPC, UsingPC, HoldingPC, saved, volatile
<1>1. EditedExists' /\ SavedCopy' /\ RulesAreValid'
  BY DEF IInv, EditedExists, SavedCopy, RulesAreValid, Valid, StartAttempt, StartCaller,
         StartRefused, ManualStopAfterStart, Fresh
<1>2. EntryShape'
  BY DEF IInv, EntryShape, TypeOK, StartAttempt, StartCaller, StartRefused,
         ManualStopAfterStart, Fresh
<1>3. JobShape'
  BY DEF IInv, JobShape, TypeOK, StartAttempt, StartCaller, StartRefused, ManualStopAfterStart,
         Fresh
<1>4. ProcShape'
  BY DEF IInv, ProcShape, TypeOK, StartAttempt, StartCaller, StartRefused, ManualStopAfterStart,
         Fresh
<1>5. DownIsEmpty'
  BY DEF IInv, DownIsEmpty, TypeOK, StartAttempt, StartCaller, StartRefused,
         ManualStopAfterStart, Fresh
<1>6. HandlersApart'
  BY DEF IInv, HandlersApart, JobShape, TypeOK, StartAttempt, StartCaller, StartRefused,
         ManualStopAfterStart, Fresh
<1>7. EntriesApart'
  BY DEF IInv, EntriesApart, EntryShape, TypeOK, StartAttempt, StartCaller, StartRefused,
         ManualStopAfterStart, Fresh
<1>8. ActiveIsFree'
  BY DEF IInv, ActiveIsFree, JobShape, EntryShape, TypeOK, StartAttempt, StartCaller,
         StartRefused, ManualStopAfterStart, Fresh
<1>9. ProcessOwned'
  <2> SUFFICES ASSUME up', NEW b \in Attempts, proc'[b] # NoProc PROVE Owned(b)'
    BY DEF ProcessOwned
  <2>1. PICK a \in Attempts :
           /\ Fresh(a)
           /\ running' = [running EXCEPT ![id] = Starting(a)]
           /\ proc' = [proc EXCEPT ![a] =
                         [status |-> "starting", rule |-> id, config |-> rules[id]]]
           /\ job' = [job EXCEPT ![t] =
                         [kind |-> kind, id |-> id, attempt |-> a,
                          config |-> rules[id], expected |-> None]]
    BY DEF StartAttempt
  <2>2. CASE b = a
    BY <2>1, <2>2 DEF Owned, StartAttempt, IInv, TypeOK
  <2>3. CASE b # a
    <3>1. Owned(b)
      BY <2>1, <2>3 DEF StartAttempt, IInv, TypeOK, ProcessOwned
    <3>2. CASE \E i \in Ids : running[i] = Active(b)
      BY <2>1, <3>2 DEF Owned, StartAttempt, IInv, TypeOK
    <3>3. CASE \E u \in Threads : pc[u] \in HoldingPC /\ job[u].attempt = b
      BY <2>1, <3>3 DEF Owned, StartAttempt, StartCaller, IInv, TypeOK
    <3> QED
      BY <3>1, <3>2, <3>3 DEF Owned
  <2> QED
    BY <2>2, <2>3
<1>10. StartHasProcess'
  BY DEF IInv, StartHasProcess, JobShape, ProcShape, HandlersApart, TypeOK, StartAttempt,
         StartCaller, StartRefused, ManualStopAfterStart, Fresh
<1>11. StartingHasWorker'
  BY DEF IInv, StartingHasWorker, EntryShape, JobShape, TypeOK, StartAttempt, StartCaller,
         StartRefused, ManualStopAfterStart, Fresh
<1>12. RunningAsConfigured'
  BY DEF IInv, RunningAsConfigured, EntryShape, RuleSets, TypeOK, StartAttempt, StartCaller,
         StartRefused, ManualStopAfterStart, Fresh
<1>13. EditIsExclusive'
  BY DEF IInv, EditIsExclusive, JobShape, Editors, RuleSets, TypeOK, StartAttempt, StartCaller,
         StartRefused, ManualStopAfterStart, Fresh
<1>14. EditStage'
  BY DEF IInv, EditStage, JobShape, EntryShape, EditIsExclusive, Editors, TypeOK, StartAttempt,
         StartCaller, StartRefused, ManualStopAfterStart, Fresh
<1>15. StoppedStaysStopped'
  BY DEF IInv, StoppedStaysStopped, EntryShape, JobShape, EditIsExclusive, Editors, TypeOK,
         StartAttempt, StartCaller, StartRefused, ManualStopAfterStart, Fresh
<1>16. StatusIsConsistent'
  BY DEF IInv, StatusIsConsistent, EntryShape, TypeOK, StartAttempt, StartCaller, StartRefused,
         ManualStopAfterStart, Fresh
<1> QED
  BY <1>1, <1>2, <1>3, <1>4, <1>5, <1>6, <1>7, <1>8, <1>9, <1>10, <1>11, <1>12, <1>13, <1>14,
     <1>15, <1>16 DEF IInv

\* A start that returns without an attempt preserves the invariant.
LEMMA StartReturnsStep ==
    ASSUME IInv, TypeOK', NEW t \in Threads, NEW id \in Ids, NEW kind \in {"manual",
           "automatic", "edit"},
           StartReturns(t, id, kind)
    PROVE  IInv'
<1> USE NameAssumption, ThreadsType
        DEF Stopped, Starting, Active, Reconnecting, RetryDue, Failed, NoProc, NoJob, NoInfo,
            ErrorInfo, RunningInfo, WorkerPC, UsingPC, HoldingPC, saved, volatile
<1>1. ProcShape' /\ EditedExists' /\ SavedCopy' /\ RulesAreValid'
  BY DEF IInv, ProcShape, EditedExists, SavedCopy, RulesAreValid, Valid, StartReturns,
         StartCaller, StartRefused, ManualStopAfterStart, AfterStart
<1>2. EntryShape'
  BY DEF IInv, EntryShape, TypeOK, StartReturns, StartCaller, StartRefused,
         ManualStopAfterStart, AfterStart
<1>3. JobShape'
  BY DEF IInv, JobShape, TypeOK, StartReturns, StartCaller, StartRefused, ManualStopAfterStart,
         AfterStart
<1>4. DownIsEmpty'
  BY DEF IInv, DownIsEmpty, TypeOK, StartReturns, StartCaller, StartRefused,
         ManualStopAfterStart, AfterStart
<1>5. HandlersApart'
  BY DEF IInv, HandlersApart, JobShape, TypeOK, StartReturns, StartCaller, StartRefused,
         ManualStopAfterStart, AfterStart
<1>6. EntriesApart'
  BY DEF IInv, EntriesApart, EntryShape, TypeOK, StartReturns, StartCaller, StartRefused,
         ManualStopAfterStart, AfterStart
<1>7. ActiveIsFree'
  BY DEF IInv, ActiveIsFree, JobShape, EntryShape, TypeOK, StartReturns, StartCaller,
         StartRefused, ManualStopAfterStart, AfterStart
<1>8. ProcessOwned'
  <2> SUFFICES ASSUME up', NEW b \in Attempts, proc'[b] # NoProc PROVE Owned(b)'
    BY DEF ProcessOwned
  <2>1. up /\ proc[b] # NoProc
    BY DEF StartReturns, StartCaller, StartRefused, ManualStopAfterStart, AfterStart, IInv,
           TypeOK
  <2>2. CASE \E i \in Ids : running[i] = Active(b)
    BY <2>2 DEF Owned, StartReturns, StartCaller, StartRefused, ManualStopAfterStart,
                AfterStart, IInv, TypeOK, EntryShape
  <2>3. CASE \E u \in Threads : pc[u] \in HoldingPC /\ job[u].attempt = b
    BY <2>3 DEF Owned, StartReturns, StartCaller, StartRefused, ManualStopAfterStart,
                AfterStart, IInv, TypeOK, JobShape
  <2> QED
    BY <2>1, <2>2, <2>3 DEF IInv, ProcessOwned, Owned
<1>9. StartHasProcess'
  BY DEF IInv, StartHasProcess, JobShape, ProcShape, HandlersApart, TypeOK, StartReturns,
         StartCaller, StartRefused, ManualStopAfterStart, AfterStart
<1>10. StartingHasWorker'
  BY DEF IInv, StartingHasWorker, EntryShape, JobShape, TypeOK, StartReturns, StartCaller,
         StartRefused, ManualStopAfterStart, AfterStart
<1>11. RunningAsConfigured'
  BY DEF IInv, RunningAsConfigured, EntryShape, RuleSets, TypeOK, StartReturns, StartCaller,
         StartRefused, ManualStopAfterStart, AfterStart
<1>12. EditIsExclusive'
  BY DEF IInv, EditIsExclusive, JobShape, Editors, RuleSets, TypeOK, StartReturns, StartCaller,
         StartRefused, ManualStopAfterStart, AfterStart
<1>13. EditStage'
  BY DEF IInv, EditStage, JobShape, EntryShape, TypeOK, StartReturns, StartCaller, StartRefused,
         ManualStopAfterStart, AfterStart
<1>14. StoppedStaysStopped'
  BY DEF IInv, StoppedStaysStopped, EntryShape, JobShape, TypeOK, StartReturns, StartCaller,
         StartRefused, ManualStopAfterStart, AfterStart
<1>15. StatusIsConsistent'
  BY DEF IInv, StatusIsConsistent, EntryShape, TypeOK, StartReturns, StartCaller, StartRefused,
         ManualStopAfterStart, AfterStart
<1> QED
  BY <1>1, <1>2, <1>3, <1>4, <1>5, <1>6, <1>7, <1>8, <1>9, <1>10, <1>11, <1>12, <1>13, <1>14,
     <1>15 DEF IInv

\* A stop preserves the invariant.
LEMMA ForwardStopStep ==
    ASSUME IInv, TypeOK', NEW t \in Clients, NEW id \in Ids, ForwardStop(t, id)
    PROVE  IInv'
<1> USE NameAssumption, ThreadsType
        DEF Stopped, Starting, Active, Reconnecting, RetryDue, Failed, NoProc, NoJob, NoInfo,
            ErrorInfo, RunningInfo, WorkerPC, UsingPC, HoldingPC, saved, volatile
<1>1. ProcShape' /\ EditedExists' /\ SavedCopy' /\ RulesAreValid'
  BY DEF IInv, ProcShape, EditedExists, SavedCopy, RulesAreValid, Valid, ForwardStop, TakeOut
<1>2. EntryShape'
  BY DEF IInv, EntryShape, TypeOK, ForwardStop, TakeOut
<1>3. JobShape'
  BY DEF IInv, JobShape, EntryShape, TypeOK, ForwardStop, TakeOut
<1>4. DownIsEmpty'
  BY DEF IInv, DownIsEmpty, TypeOK, ForwardStop, TakeOut
<1>5. HandlersApart'
  BY DEF IInv, HandlersApart, JobShape, EntryShape, ActiveIsFree, TypeOK, ForwardStop, TakeOut
<1>6. EntriesApart'
  BY DEF IInv, EntriesApart, EntryShape, TypeOK, ForwardStop, TakeOut
<1>7. ActiveIsFree'
  BY DEF IInv, ActiveIsFree, JobShape, EntryShape, EntriesApart, TypeOK, ForwardStop, TakeOut
<1>8. ProcessOwned'
  <2> SUFFICES ASSUME up', NEW b \in Attempts, proc'[b] # NoProc PROVE Owned(b)'
    BY DEF ProcessOwned
  <2>1. up /\ proc[b] # NoProc
    BY DEF ForwardStop, TakeOut, IInv, TypeOK
  <2>2. CASE \E i \in Ids : running[i] = Active(b)
    BY <2>2 DEF Owned, ForwardStop, TakeOut, IInv, TypeOK, EntryShape
  <2>3. CASE \E u \in Threads : pc[u] \in HoldingPC /\ job[u].attempt = b
    BY <2>3 DEF Owned, ForwardStop, TakeOut, IInv, TypeOK, JobShape
  <2> QED
    BY <2>1, <2>2, <2>3 DEF IInv, ProcessOwned, Owned
<1>9. StartHasProcess'
  BY DEF IInv, StartHasProcess, JobShape, ProcShape, HandlersApart, TypeOK, ForwardStop, TakeOut
<1>10. StartingHasWorker'
  BY DEF IInv, StartingHasWorker, EntryShape, JobShape, TypeOK, ForwardStop, TakeOut
<1>11. RunningAsConfigured'
  BY DEF IInv, RunningAsConfigured, EntryShape, RuleSets, TypeOK, ForwardStop, TakeOut
<1>12. EditIsExclusive'
  <2>1. \A i \in Ids : Editors(i)' = Editors(i)
    BY DEF IInv, TypeOK, JobShape, Editors, ForwardStop, TakeOut
  <2>2. \A i \in Ids : \A u \in Editors(i) : u # t /\ i # id
    BY DEF IInv, TypeOK, JobShape, Editors, EditIsExclusive, ForwardStop, TakeOut
  <2> QED
    BY <2>1, <2>2 DEF IInv, TypeOK, EditIsExclusive, ForwardStop, TakeOut, Editors
<1>13. EditStage'
  BY DEF IInv, EditStage, JobShape, EntryShape, EditIsExclusive, Editors, TypeOK, ForwardStop,
         TakeOut
<1>14. StoppedStaysStopped'
  BY DEF IInv, StoppedStaysStopped, EntryShape, JobShape, TypeOK, ForwardStop, TakeOut
<1>15. StatusIsConsistent'
  BY DEF IInv, StatusIsConsistent, EntryShape, TypeOK, ForwardStop, TakeOut
<1> QED
  BY <1>1, <1>2, <1>3, <1>4, <1>5, <1>6, <1>7, <1>8, <1>9, <1>10, <1>11, <1>12, <1>13, <1>14,
     <1>15 DEF IInv

\* An edit that reserves its rule preserves the invariant.
LEMMA EditBeginStep ==
    ASSUME IInv, TypeOK', NEW t \in Clients, NEW id \in Ids, NEW c \in Configs, EditBegin(t,
           id, c)
    PROVE  IInv'
<1> USE NameAssumption, ThreadsType
        DEF Stopped, Starting, Active, Reconnecting, RetryDue, Failed, NoProc, NoJob, NoInfo,
            ErrorInfo, RunningInfo, WorkerPC, UsingPC, HoldingPC, saved, volatile
<1>1. ProcShape' /\ SavedCopy' /\ RulesAreValid'
  BY DEF IInv, ProcShape, SavedCopy, RulesAreValid, Valid, EditBegin
<1>2. EntryShape'
  BY DEF IInv, EntryShape, TypeOK, EditBegin
<1>3. JobShape'
  BY DEF IInv, JobShape, EntryShape, RuleSets, TypeOK, EditBegin
<1>4. DownIsEmpty'
  BY DEF IInv, DownIsEmpty, TypeOK, EditBegin
<1>5. HandlersApart'
  BY DEF IInv, HandlersApart, JobShape, EntryShape, ActiveIsFree, TypeOK, EditBegin
<1>6. EntriesApart'
  BY DEF IInv, EntriesApart, EntryShape, TypeOK, EditBegin
<1>7. ActiveIsFree'
  BY DEF IInv, ActiveIsFree, JobShape, EntryShape, EntriesApart, TypeOK, EditBegin
<1>8. ProcessOwned'
  <2> SUFFICES ASSUME up', NEW b \in Attempts, proc'[b] # NoProc PROVE Owned(b)'
    BY DEF ProcessOwned
  <2>1. up /\ proc[b] # NoProc
    BY DEF EditBegin, IInv, TypeOK
  <2>2. CASE \E i \in Ids : running[i] = Active(b)
    BY <2>2 DEF Owned, EditBegin, IInv, TypeOK, EntryShape
  <2>3. CASE \E u \in Threads : pc[u] \in HoldingPC /\ job[u].attempt = b
    BY <2>3 DEF Owned, EditBegin, IInv, TypeOK, JobShape
  <2> QED
    BY <2>1, <2>2, <2>3 DEF IInv, ProcessOwned, Owned
<1>9. StartHasProcess'
  BY DEF IInv, StartHasProcess, JobShape, ProcShape, HandlersApart, TypeOK, EditBegin
<1>10. StartingHasWorker'
  BY DEF IInv, StartingHasWorker, EntryShape, JobShape, TypeOK, EditBegin
<1>11. RunningAsConfigured'
  BY DEF IInv, RunningAsConfigured, EntryShape, RuleSets, TypeOK, EditBegin
<1>12. EditIsExclusive'
  BY DEF IInv, EditIsExclusive, JobShape, Editors, RuleSets, TypeOK, EditBegin
<1>13. EditStage'
  BY DEF IInv, EditStage, JobShape, EntryShape, TypeOK, EditBegin
<1>14. EditedExists'
  BY DEF IInv, EditedExists, RuleSets, TypeOK, EditBegin
<1>15. StoppedStaysStopped'
  BY DEF IInv, StoppedStaysStopped, EntryShape, JobShape, TypeOK, EditBegin
<1>16. StatusIsConsistent'
  BY DEF IInv, StatusIsConsistent, EntryShape, TypeOK, EditBegin
<1> QED
  BY <1>1, <1>2, <1>3, <1>4, <1>5, <1>6, <1>7, <1>8, <1>9, <1>10, <1>11, <1>12, <1>13, <1>14,
     <1>15, <1>16 DEF IInv

\* maintain's scan preserves the invariant.
LEMMA MaintainScanStep ==
    ASSUME IInv, TypeOK', NEW t \in Threads, MaintainScan(t)
    PROVE  IInv'
<1> USE NameAssumption, ThreadsType
        DEF Stopped, Starting, Active, Reconnecting, RetryDue, Failed, NoProc, NoJob, NoInfo,
            ErrorInfo, RunningInfo, WorkerPC, UsingPC, HoldingPC, saved, volatile
<1>1. EditedExists' /\ SavedCopy' /\ RulesAreValid'
  BY DEF IInv, EditedExists, SavedCopy, RulesAreValid, Valid, MaintainScan, ExitSeen
<1>2. EntryShape'
  BY DEF IInv, EntryShape, TypeOK, MaintainScan, ExitSeen
<1>3. JobShape'
  BY DEF IInv, JobShape, TypeOK, MaintainScan, ExitSeen
<1>4. ProcShape'
  BY DEF IInv, ProcShape, TypeOK, MaintainScan, ExitSeen
<1>5. DownIsEmpty'
  BY DEF IInv, DownIsEmpty, TypeOK, MaintainScan, ExitSeen
<1>6. HandlersApart'
  BY DEF IInv, HandlersApart, JobShape, TypeOK, MaintainScan, ExitSeen
<1>7. EntriesApart'
  BY DEF IInv, EntriesApart, EntryShape, TypeOK, MaintainScan, ExitSeen
<1>8. ActiveIsFree'
  BY DEF IInv, ActiveIsFree, JobShape, EntryShape, TypeOK, MaintainScan, ExitSeen
<1>9. ProcessOwned'
  <2> SUFFICES ASSUME up', NEW b \in Attempts, proc'[b] # NoProc PROVE Owned(b)'
    BY DEF ProcessOwned
  <2>1. up /\ proc[b] # NoProc
    BY DEF MaintainScan, ExitSeen, IInv, TypeOK
  <2>2. CASE \E i \in Ids : running[i] = Active(b)
    BY <2>2 DEF Owned, MaintainScan, ExitSeen, IInv, TypeOK, EntryShape
  <2>3. CASE \E u \in Threads : pc[u] \in HoldingPC /\ job[u].attempt = b
    BY <2>3 DEF Owned, MaintainScan, ExitSeen, IInv, TypeOK, JobShape
  <2> QED
    BY <2>1, <2>2, <2>3 DEF IInv, ProcessOwned, Owned
<1>10. StartHasProcess'
  BY DEF IInv, StartHasProcess, JobShape, ProcShape, HandlersApart, ActiveIsFree, TypeOK,
         MaintainScan, ExitSeen
<1>11. StartingHasWorker'
  BY DEF IInv, StartingHasWorker, EntryShape, JobShape, TypeOK, MaintainScan, ExitSeen
<1>12. RunningAsConfigured'
  BY DEF IInv, RunningAsConfigured, EntryShape, RuleSets, TypeOK, MaintainScan, ExitSeen
<1>13. EditIsExclusive'
  BY DEF IInv, EditIsExclusive, JobShape, Editors, RuleSets, TypeOK, MaintainScan, ExitSeen
<1>14. EditStage'
  BY DEF IInv, EditStage, JobShape, EntryShape, TypeOK, MaintainScan, ExitSeen
<1>15. StoppedStaysStopped'
  BY DEF IInv, StoppedStaysStopped, EntryShape, JobShape, TypeOK, MaintainScan, ExitSeen
<1>16. StatusIsConsistent'
  BY DEF IInv, StatusIsConsistent, EntryShape, TypeOK, MaintainScan, ExitSeen
<1> QED
  BY <1>1, <1>2, <1>3, <1>4, <1>5, <1>6, <1>7, <1>8, <1>9, <1>10, <1>11, <1>12, <1>13, <1>14,
     <1>15, <1>16 DEF IInv

\* A guardian's report of success preserves the invariant.
LEMMA SpawnAcceptedStep ==
    ASSUME IInv, TypeOK', NEW t \in Threads, SpawnAccepted(t)
    PROVE  IInv'
<1> USE NameAssumption, ThreadsType
        DEF Stopped, Starting, Active, Reconnecting, RetryDue, Failed, NoProc, NoJob, NoInfo,
            ErrorInfo, RunningInfo, WorkerPC, UsingPC, HoldingPC, saved, volatile
<1>1. EntryShape' /\ EntriesApart' /\ EditedExists' /\ StoppedStaysStopped' /\ SavedCopy' /\
      RulesAreValid' /\ StatusIsConsistent'
  BY DEF IInv, EntryShape, EntriesApart, EditedExists, StoppedStaysStopped, SavedCopy,
         RulesAreValid, StatusIsConsistent, Valid, SpawnAccepted
<1>2. JobShape'
  BY DEF IInv, JobShape, TypeOK, SpawnAccepted
<1>3. ProcShape'
  BY DEF IInv, ProcShape, TypeOK, SpawnAccepted
<1>4. DownIsEmpty'
  BY DEF IInv, DownIsEmpty, StartOfThread, TypeOK, SpawnAccepted
<1>5. HandlersApart'
  BY DEF IInv, HandlersApart, JobShape, TypeOK, SpawnAccepted
<1>6. ActiveIsFree'
  BY DEF IInv, ActiveIsFree, JobShape, EntryShape, TypeOK, SpawnAccepted
<1>7. ProcessOwned'
  <2> SUFFICES ASSUME up', NEW b \in Attempts, proc'[b] # NoProc PROVE Owned(b)'
    BY DEF ProcessOwned
  <2>1. up /\ proc[b] # NoProc
    BY DEF SpawnAccepted, IInv, TypeOK, StartHasProcess
  <2>2. CASE \E i \in Ids : running[i] = Active(b)
    BY <2>2 DEF Owned, SpawnAccepted, IInv, TypeOK, EntryShape, StartHasProcess
  <2>3. CASE \E u \in Threads : pc[u] \in HoldingPC /\ job[u].attempt = b
    BY <2>3 DEF Owned, SpawnAccepted, IInv, TypeOK, JobShape, StartHasProcess
  <2> QED
    BY <2>1, <2>2, <2>3 DEF IInv, ProcessOwned, Owned
<1>8. StartHasProcess'
  BY DEF IInv, StartHasProcess, JobShape, ProcShape, HandlersApart, TypeOK, SpawnAccepted
<1>9. StartingHasWorker'
  BY DEF IInv, StartingHasWorker, EntryShape, JobShape, TypeOK, SpawnAccepted
<1>10. RunningAsConfigured'
  BY DEF IInv, RunningAsConfigured, EntryShape, RuleSets, StartHasProcess, JobShape, TypeOK,
         SpawnAccepted
<1>11. EditIsExclusive'
  BY DEF IInv, EditIsExclusive, JobShape, Editors, RuleSets, TypeOK, SpawnAccepted
<1>12. EditStage'
  BY DEF IInv, EditStage, JobShape, EntryShape, TypeOK, SpawnAccepted
<1> QED
  BY <1>1, <1>2, <1>3, <1>4, <1>5, <1>6, <1>7, <1>8, <1>9, <1>10, <1>11, <1>12 DEF IInv

\* A failed attempt preserves the invariant.
LEMMA SpawnFailedStep ==
    ASSUME IInv, TypeOK', NEW t \in Threads, SpawnFailed(t)
    PROVE  IInv'
<1> USE NameAssumption, ThreadsType
        DEF Stopped, Starting, Active, Reconnecting, RetryDue, Failed, NoProc, NoJob, NoInfo,
            ErrorInfo, RunningInfo, WorkerPC, UsingPC, HoldingPC, saved, volatile
<1>1. EntryShape' /\ EntriesApart' /\ EditedExists' /\ StoppedStaysStopped' /\ SavedCopy' /\
      RulesAreValid' /\ StatusIsConsistent'
  BY DEF IInv, EntryShape, EntriesApart, EditedExists, StoppedStaysStopped, SavedCopy,
         RulesAreValid, StatusIsConsistent, Valid, SpawnFailed
<1>2. JobShape'
  BY DEF IInv, JobShape, TypeOK, SpawnFailed
<1>3. ProcShape'
  BY DEF IInv, ProcShape, TypeOK, SpawnFailed
<1>4. DownIsEmpty'
  BY DEF IInv, DownIsEmpty, StartOfThread, TypeOK, SpawnFailed
<1>5. HandlersApart'
  BY DEF IInv, HandlersApart, JobShape, TypeOK, SpawnFailed
<1>6. ActiveIsFree'
  BY DEF IInv, ActiveIsFree, JobShape, EntryShape, TypeOK, SpawnFailed
<1>7. ProcessOwned'
  <2> SUFFICES ASSUME up', NEW b \in Attempts, proc'[b] # NoProc PROVE Owned(b)'
    BY DEF ProcessOwned
  <2>1. up /\ proc[b] # NoProc
    BY DEF SpawnFailed, IInv, TypeOK
  <2>2. CASE \E i \in Ids : running[i] = Active(b)
    BY <2>2 DEF Owned, SpawnFailed, IInv, TypeOK, EntryShape
  <2>3. CASE \E u \in Threads : pc[u] \in HoldingPC /\ job[u].attempt = b
    BY <2>3 DEF Owned, SpawnFailed, IInv, TypeOK, JobShape
  <2> QED
    BY <2>1, <2>2, <2>3 DEF IInv, ProcessOwned, Owned
<1>8. StartHasProcess'
  BY DEF IInv, StartHasProcess, JobShape, ProcShape, HandlersApart, TypeOK, SpawnFailed
<1>9. StartingHasWorker'
  BY DEF IInv, StartingHasWorker, EntryShape, JobShape, TypeOK, SpawnFailed
<1>10. RunningAsConfigured'
  BY DEF IInv, RunningAsConfigured, EntryShape, RuleSets, TypeOK, SpawnFailed
<1>11. EditIsExclusive'
  BY DEF IInv, EditIsExclusive, JobShape, Editors, RuleSets, TypeOK, SpawnFailed
<1>12. EditStage'
  BY DEF IInv, EditStage, JobShape, EntryShape, TypeOK, SpawnFailed
<1> QED
  BY <1>1, <1>2, <1>3, <1>4, <1>5, <1>6, <1>7, <1>8, <1>9, <1>10, <1>11, <1>12 DEF IInv

\* A start that becomes Active preserves the invariant.
LEMMA StartCommitsStep ==
    ASSUME IInv, TypeOK', NEW t \in Threads, StartCommits(t)
    PROVE  IInv'
<1> USE NameAssumption, ThreadsType
        DEF Stopped, Starting, Active, Reconnecting, RetryDue, Failed, NoProc, NoJob, NoInfo,
            ErrorInfo, RunningInfo, WorkerPC, UsingPC, HoldingPC, saved, volatile
<1>1. ProcShape' /\ EditedExists' /\ SavedCopy' /\ RulesAreValid'
  BY DEF IInv, ProcShape, EditedExists, SavedCopy, RulesAreValid, Valid, StartCommits,
         StillWanted
<1>2. EntryShape'
  BY DEF IInv, EntryShape, TypeOK, StartCommits, StillWanted
<1>3. JobShape'
  BY DEF IInv, JobShape, TypeOK, StartCommits, StillWanted
<1>4. DownIsEmpty'
  BY DEF IInv, DownIsEmpty, StartOfThread, TypeOK, StartCommits, StillWanted
<1>5. HandlersApart'
  BY DEF IInv, HandlersApart, JobShape, TypeOK, StartCommits, StillWanted
<1>6. EntriesApart'
  BY DEF IInv, EntriesApart, EntryShape, TypeOK, StartCommits, StillWanted
<1>7. ActiveIsFree'
  BY DEF IInv, ActiveIsFree, JobShape, EntryShape, HandlersApart, TypeOK, StartCommits,
         StillWanted
<1>8. ProcessOwned'
  <2> SUFFICES ASSUME up', NEW b \in Attempts, proc'[b] # NoProc PROVE Owned(b)'
    BY DEF ProcessOwned
  <2>1. up /\ proc[b] # NoProc
    BY DEF StartCommits, StillWanted, IInv, TypeOK
  <2>2. CASE \E i \in Ids : running[i] = Active(b)
    BY <2>2 DEF Owned, StartCommits, StillWanted, IInv, TypeOK, EntryShape
  <2>3. CASE \E u \in Threads : pc[u] \in HoldingPC /\ job[u].attempt = b
    BY <2>3 DEF Owned, StartCommits, StillWanted, IInv, TypeOK, JobShape
  <2> QED
    BY <2>1, <2>2, <2>3 DEF IInv, ProcessOwned, Owned
<1>9. StartHasProcess'
  BY DEF IInv, StartHasProcess, JobShape, ProcShape, HandlersApart, TypeOK, StartCommits,
         StillWanted
<1>10. StartingHasWorker'
  BY DEF IInv, StartingHasWorker, EntryShape, JobShape, TypeOK, StartCommits, StillWanted
<1>11. RunningAsConfigured'
  BY DEF IInv, RunningAsConfigured, EntryShape, RuleSets, TypeOK, StartCommits, StillWanted
<1>12. EditIsExclusive'
  BY DEF IInv, EditIsExclusive, JobShape, Editors, RuleSets, TypeOK, StartCommits, StillWanted
<1>13. EditStage'
  <2> SUFFICES ASSUME NEW u \in Threads, job'[u].kind = "edit"
               PROVE  /\ pc'[u] \in {"edit_stop", "edit_save", "edit_restart"}
                            => running'[job'[u].id] = Stopped
                      /\ pc'[u] \in WorkerPC
                            => running'[job'[u].id] = Starting(job'[u].attempt)
                      /\ pc'[u] \in {"announce", "edit_finish"}
                            => running'[job'[u].id].state # "starting"
                      /\ pc'[u] # "discarding"
    BY DEF EditStage
  <2>1. CASE u = t
    BY <2>1 DEF IInv, TypeOK, EditStage, JobShape, StartCommits, StillWanted
  <2>2. CASE u # t
    <3>1. job'[u] = job[u] /\ pc'[u] = pc[u] /\ job[u].kind = "edit"
      BY <2>2 DEF IInv, TypeOK, StartCommits, StillWanted
    <3>2. job[u].id = job[t].id => running[job[t].id] # Starting(job[t].attempt)
      BY <2>2, <3>1, EditorsApart DEF StartCommits, StillWanted
    <3> QED
      BY <3>1, <3>2 DEF IInv, TypeOK, EditStage, JobShape, StartCommits, StillWanted
  <2> QED
    BY <2>1, <2>2
<1>14. StoppedStaysStopped'
  <2> DEFINE id == job[t].id
  <2>1. id \in Ids /\ job[t].attempt \in Attempts
    BY DEF IInv, JobShape, StartCommits
  <2>2. CASE job[t].kind = "edit"
    BY <2>1, <2>2 DEF IInv, TypeOK, StoppedStaysStopped, StartCommits
  <2>3. CASE job[t].kind # "edit"
    <3>1. id \notin editing
      BY <2>1, <2>3, KindOfEdited DEF StartCommits, StillWanted
    <3>2. id \notin manuallyStopped
      BY <2>1, <3>1 DEF IInv, StoppedStaysStopped, StartCommits, StillWanted
    <3> QED
      BY <2>1, <2>3, <3>2 DEF IInv, TypeOK, StoppedStaysStopped, StartCommits
  <2> QED
    BY <2>2, <2>3
<1>15. StatusIsConsistent'
  BY DEF IInv, StatusIsConsistent, EntryShape, TypeOK, StartCommits, StillWanted
<1> QED
  BY <1>1, <1>2, <1>3, <1>4, <1>5, <1>6, <1>7, <1>8, <1>9, <1>10, <1>11, <1>12, <1>13, <1>14,
     <1>15 DEF IInv

\* The end of a successful start preserves the invariant.
LEMMA AnnounceStep ==
    ASSUME IInv, TypeOK', NEW t \in Threads, Announce(t)
    PROVE  IInv'
<1> USE NameAssumption, ThreadsType
        DEF Stopped, Starting, Active, Reconnecting, RetryDue, Failed, NoProc, NoJob, NoInfo,
            ErrorInfo, RunningInfo, WorkerPC, UsingPC, HoldingPC, saved, volatile
<1>1. EntryShape' /\ ProcShape' /\ EntriesApart' /\ RunningAsConfigured' /\ EditedExists' /\
      StoppedStaysStopped' /\ SavedCopy' /\ RulesAreValid' /\ StatusIsConsistent'
  BY DEF IInv, EntryShape, ProcShape, EntriesApart, RunningAsConfigured, EditedExists,
         StoppedStaysStopped, SavedCopy, RulesAreValid, StatusIsConsistent, Valid, Announce,
         ReturnFromStart, AfterStart
<1>2. JobShape'
  BY DEF IInv, JobShape, TypeOK, Announce, ReturnFromStart, AfterStart
<1>3. DownIsEmpty'
  BY DEF IInv, DownIsEmpty, StartOfThread, TypeOK, Announce, ReturnFromStart, AfterStart
<1>4. HandlersApart'
  BY DEF IInv, HandlersApart, JobShape, TypeOK, Announce, ReturnFromStart, AfterStart
<1>5. ActiveIsFree'
  BY DEF IInv, ActiveIsFree, JobShape, EntryShape, TypeOK, Announce, ReturnFromStart, AfterStart
<1>6. ProcessOwned'
  BY DEF IInv, ProcessOwned, Owned, EntryShape, JobShape, TypeOK, Announce, ReturnFromStart,
         AfterStart
<1>7. StartHasProcess'
  BY DEF IInv, StartHasProcess, JobShape, ProcShape, HandlersApart, TypeOK, Announce,
         ReturnFromStart, AfterStart
<1>8. StartingHasWorker'
  BY DEF IInv, StartingHasWorker, EntryShape, JobShape, TypeOK, Announce, ReturnFromStart,
         AfterStart
<1>9. EditIsExclusive'
  BY DEF IInv, EditIsExclusive, JobShape, Editors, RuleSets, TypeOK, Announce, ReturnFromStart,
         AfterStart
<1>10. EditStage'
  BY DEF IInv, EditStage, JobShape, EntryShape, TypeOK, Announce, ReturnFromStart, AfterStart
<1> QED
  BY <1>1, <1>2, <1>3, <1>4, <1>5, <1>6, <1>7, <1>8, <1>9, <1>10 DEF IInv

\* A late acceptance preserves the invariant.
LEMMA StartDiscardsStep ==
    ASSUME IInv, TypeOK', NEW t \in Threads, StartDiscards(t)
    PROVE  IInv'
<1> USE NameAssumption, ThreadsType
        DEF Stopped, Starting, Active, Reconnecting, RetryDue, Failed, NoProc, NoJob, NoInfo,
            ErrorInfo, RunningInfo, WorkerPC, UsingPC, HoldingPC, saved, volatile
<1>1. EntryShape' /\ ProcShape' /\ EntriesApart' /\ RunningAsConfigured' /\ EditedExists' /\
      StoppedStaysStopped' /\ SavedCopy' /\ RulesAreValid' /\ StatusIsConsistent'
  BY DEF IInv, EntryShape, ProcShape, EntriesApart, RunningAsConfigured, EditedExists,
         StoppedStaysStopped, SavedCopy, RulesAreValid, StatusIsConsistent, Valid,
         StartDiscards, StillWanted
<1>2. JobShape'
  BY DEF IInv, JobShape, TypeOK, StartDiscards, StillWanted
<1>3. DownIsEmpty'
  BY DEF IInv, DownIsEmpty, StartOfThread, TypeOK, StartDiscards, StillWanted
<1>4. HandlersApart'
  BY DEF IInv, HandlersApart, JobShape, TypeOK, StartDiscards, StillWanted
<1>5. ActiveIsFree'
  BY DEF IInv, ActiveIsFree, JobShape, EntryShape, TypeOK, StartDiscards, StillWanted
<1>6. ProcessOwned'
  BY DEF IInv, ProcessOwned, Owned, EntryShape, JobShape, TypeOK, StartDiscards, StillWanted
<1>7. StartHasProcess'
  BY DEF IInv, StartHasProcess, JobShape, ProcShape, HandlersApart, TypeOK, StartDiscards,
         StillWanted
<1>8. StartingHasWorker'
  BY DEF IInv, StartingHasWorker, EntryShape, JobShape, TypeOK, StartDiscards, StillWanted
<1>9. EditIsExclusive'
  BY DEF IInv, EditIsExclusive, JobShape, Editors, RuleSets, TypeOK, StartDiscards, StillWanted
<1>10. EditStage'
  BY DEF IInv, EditStage, JobShape, EntryShape, TypeOK, StartDiscards, StillWanted
<1> QED
  BY <1>1, <1>2, <1>3, <1>4, <1>5, <1>6, <1>7, <1>8, <1>9, <1>10 DEF IInv

\* The end of a late acceptance preserves the invariant.
LEMMA DiscardDoneStep ==
    ASSUME IInv, TypeOK', NEW t \in Threads, DiscardDone(t)
    PROVE  IInv'
<1> USE NameAssumption, ThreadsType
        DEF Stopped, Starting, Active, Reconnecting, RetryDue, Failed, NoProc, NoJob, NoInfo,
            ErrorInfo, RunningInfo, WorkerPC, UsingPC, HoldingPC, saved, volatile
<1>1. EntryShape' /\ EntriesApart' /\ EditedExists' /\ StoppedStaysStopped' /\ SavedCopy' /\
      RulesAreValid' /\ StatusIsConsistent'
  BY DEF IInv, EntryShape, EntriesApart, EditedExists, StoppedStaysStopped, SavedCopy,
         RulesAreValid, StatusIsConsistent, Valid, DiscardDone, ReturnFromStart, AfterStart
<1>2. JobShape'
  BY DEF IInv, JobShape, TypeOK, DiscardDone, ReturnFromStart, AfterStart
<1>3. ProcShape'
  BY DEF IInv, ProcShape, TypeOK, DiscardDone, ReturnFromStart, AfterStart
<1>4. DownIsEmpty'
  BY DEF IInv, DownIsEmpty, StartOfThread, TypeOK, DiscardDone, ReturnFromStart, AfterStart
<1>5. HandlersApart'
  BY DEF IInv, HandlersApart, JobShape, TypeOK, DiscardDone, ReturnFromStart, AfterStart
<1>6. ActiveIsFree'
  BY DEF IInv, ActiveIsFree, JobShape, EntryShape, TypeOK, DiscardDone, ReturnFromStart,
         AfterStart
<1>7. ProcessOwned'
  <2> SUFFICES ASSUME up', NEW b \in Attempts, proc'[b] # NoProc PROVE Owned(b)'
    BY DEF ProcessOwned
  <2>1. up /\ proc[b] # NoProc
    BY DEF DiscardDone, ReturnFromStart, AfterStart, IInv, TypeOK
  <2>2. CASE \E i \in Ids : running[i] = Active(b)
    BY <2>2 DEF Owned, DiscardDone, ReturnFromStart, AfterStart, IInv, TypeOK, EntryShape
  <2>3. CASE \E u \in Threads : pc[u] \in HoldingPC /\ job[u].attempt = b
    BY <2>3 DEF Owned, DiscardDone, ReturnFromStart, AfterStart, IInv, TypeOK, JobShape
  <2> QED
    BY <2>1, <2>2, <2>3 DEF IInv, ProcessOwned, Owned
<1>8. StartHasProcess'
  BY DEF IInv, StartHasProcess, JobShape, ProcShape, HandlersApart, TypeOK, DiscardDone,
         ReturnFromStart, AfterStart
<1>9. StartingHasWorker'
  BY DEF IInv, StartingHasWorker, EntryShape, JobShape, TypeOK, DiscardDone, ReturnFromStart,
         AfterStart
<1>10. RunningAsConfigured'
  BY DEF IInv, RunningAsConfigured, EntryShape, RuleSets, TypeOK, DiscardDone, ReturnFromStart,
         AfterStart
<1>11. EditIsExclusive'
  BY DEF IInv, EditIsExclusive, JobShape, Editors, RuleSets, TypeOK, DiscardDone,
         ReturnFromStart, AfterStart
<1>12. EditStage'
  BY DEF IInv, EditStage, JobShape, EntryShape, TypeOK, DiscardDone, ReturnFromStart, AfterStart
<1> QED
  BY <1>1, <1>2, <1>3, <1>4, <1>5, <1>6, <1>7, <1>8, <1>9, <1>10, <1>11, <1>12 DEF IInv

\* The record of a failed start preserves the invariant.
LEMMA StartFailsStep ==
    ASSUME IInv, TypeOK', NEW t \in Threads, StartFails(t)
    PROVE  IInv'
<1> USE NameAssumption, ThreadsType
        DEF Stopped, Starting, Active, Reconnecting, RetryDue, Failed, NoProc, NoJob, NoInfo,
            ErrorInfo, RunningInfo, WorkerPC, UsingPC, HoldingPC, saved, volatile
<1>1. ProcShape' /\ EditedExists' /\ SavedCopy' /\ RulesAreValid'
  BY DEF IInv, ProcShape, EditedExists, SavedCopy, RulesAreValid, Valid, StartFails,
         StillWanted, AfterFailure, ReturnFromStart, AfterStart
<1>2. EntryShape'
  BY DEF IInv, EntryShape, TypeOK, StartFails, StillWanted, AfterFailure, ReturnFromStart,
         AfterStart
<1>3. JobShape'
  BY DEF IInv, JobShape, TypeOK, StartFails, StillWanted, AfterFailure, ReturnFromStart,
         AfterStart
<1>4. DownIsEmpty'
  BY DEF IInv, DownIsEmpty, StartOfThread, TypeOK, StartFails, StillWanted, AfterFailure,
         ReturnFromStart, AfterStart
<1>5. HandlersApart'
  BY DEF IInv, HandlersApart, JobShape, TypeOK, StartFails, StillWanted, AfterFailure,
         ReturnFromStart, AfterStart
<1>6. EntriesApart'
  BY DEF IInv, EntriesApart, EntryShape, TypeOK, StartFails, StillWanted, AfterFailure,
         ReturnFromStart, AfterStart
<1>7. ActiveIsFree'
  BY DEF IInv, ActiveIsFree, JobShape, EntryShape, TypeOK, StartFails, StillWanted,
         AfterFailure, ReturnFromStart, AfterStart
<1>8. ProcessOwned'
  <2> SUFFICES ASSUME up', NEW b \in Attempts, proc'[b] # NoProc PROVE Owned(b)'
    BY DEF ProcessOwned
  <2>1. up /\ proc[b] # NoProc
    BY DEF StartFails, StillWanted, AfterFailure, ReturnFromStart, AfterStart, IInv, TypeOK
  <2>2. CASE \E i \in Ids : running[i] = Active(b)
    BY <2>2 DEF Owned, StartFails, StillWanted, AfterFailure, ReturnFromStart, AfterStart,
                IInv, TypeOK, EntryShape
  <2>3. CASE \E u \in Threads : pc[u] \in HoldingPC /\ job[u].attempt = b
    BY <2>3 DEF Owned, StartFails, StillWanted, AfterFailure, ReturnFromStart, AfterStart,
                IInv, TypeOK, JobShape
  <2> QED
    BY <2>1, <2>2, <2>3 DEF IInv, ProcessOwned, Owned
<1>9. StartHasProcess'
  BY DEF IInv, StartHasProcess, JobShape, ProcShape, HandlersApart, TypeOK, StartFails,
         StillWanted, AfterFailure, ReturnFromStart, AfterStart
<1>10. StartingHasWorker'
  BY DEF IInv, StartingHasWorker, EntryShape, JobShape, TypeOK, StartFails, StillWanted,
         AfterFailure, ReturnFromStart, AfterStart
<1>11. RunningAsConfigured'
  BY DEF IInv, RunningAsConfigured, EntryShape, RuleSets, TypeOK, StartFails, StillWanted,
         AfterFailure, ReturnFromStart, AfterStart
<1>12. EditIsExclusive'
  BY DEF IInv, EditIsExclusive, JobShape, Editors, RuleSets, TypeOK, StartFails, StillWanted,
         AfterFailure, ReturnFromStart, AfterStart
<1>13. EditStage'
  <2> SUFFICES ASSUME NEW u \in Threads, job'[u].kind = "edit"
               PROVE  /\ pc'[u] \in {"edit_stop", "edit_save", "edit_restart"}
                            => running'[job'[u].id] = Stopped
                      /\ pc'[u] \in WorkerPC
                            => running'[job'[u].id] = Starting(job'[u].attempt)
                      /\ pc'[u] \in {"announce", "edit_finish"}
                            => running'[job'[u].id].state # "starting"
                      /\ pc'[u] # "discarding"
    BY DEF EditStage
  <2>1. CASE u = t
    BY <2>1 DEF IInv, TypeOK, EditStage, JobShape, StartFails, StillWanted, AfterFailure,
                ReturnFromStart, AfterStart
  <2>2. CASE u # t
    <3>1. job'[u] = job[u] /\ pc'[u] = pc[u] /\ job[u].kind = "edit"
      BY <2>2 DEF IInv, TypeOK, StartFails, StillWanted, AfterFailure, ReturnFromStart,
                  AfterStart
    <3>2. job[u].id = job[t].id => running[job[t].id] # Starting(job[t].attempt)
      BY <2>2, <3>1, EditorsApart DEF StartFails, StillWanted, AfterFailure, ReturnFromStart,
                                      AfterStart
    <3> QED
      BY <3>1, <3>2 DEF IInv, TypeOK, EditStage, JobShape, StartFails, StillWanted,
                        AfterFailure, ReturnFromStart, AfterStart
  <2> QED
    BY <2>1, <2>2
<1>14. StoppedStaysStopped'
  <2> DEFINE id == job[t].id
  <2>1. id \in Ids /\ job[t].attempt \in Attempts
    BY DEF IInv, JobShape, StartFails
  <2>2. CASE ~StillWanted(t)
    BY <2>2 DEF IInv, TypeOK, StoppedStaysStopped, StartFails
  <2>3. CASE StillWanted(t) /\ job[t].kind = "edit"
    BY <2>1, <2>3 DEF IInv, TypeOK, StoppedStaysStopped, StartFails, AfterFailure
  <2>4. CASE StillWanted(t) /\ job[t].kind # "edit"
    <3>1. id \notin editing
      BY <2>1, <2>4, KindOfEdited DEF StartFails, StillWanted
    <3>2. id \notin manuallyStopped
      BY <2>1, <2>4, <3>1 DEF IInv, StoppedStaysStopped, StillWanted
    <3> QED
      BY <2>1, <2>4, <3>2 DEF IInv, TypeOK, StoppedStaysStopped, StartFails
  <2> QED
    BY <2>2, <2>3, <2>4
<1>15. StatusIsConsistent'
  <2>1. CASE ~StillWanted(t)
    BY <2>1 DEF IInv, StatusIsConsistent, StartFails
  <2>2. CASE StillWanted(t)
    <3>1. AfterFailure(t) \in {Stopped, Reconnecting, Failed}
      BY DEF AfterFailure
    <3>2. /\ running' = [running EXCEPT ![job[t].id] = AfterFailure(t)]
          /\ diagnostics' = [diagnostics EXCEPT ![job[t].id] = ErrorInfo]
      BY <2>2 DEF StartFails
    <3> QED
      BY <3>1, <3>2 DEF IInv, TypeOK, StatusIsConsistent
  <2> QED
    BY <2>1, <2>2
<1> QED
  BY <1>1, <1>2, <1>3, <1>4, <1>5, <1>6, <1>7, <1>8, <1>9, <1>10, <1>11, <1>12, <1>13, <1>14,
     <1>15 DEF IInv

\* The end of a stop preserves the invariant.
LEMMA StopDoneStep ==
    ASSUME IInv, TypeOK', NEW t \in Threads, StopDone(t)
    PROVE  IInv'
<1> USE NameAssumption, ThreadsType
        DEF Stopped, Starting, Active, Reconnecting, RetryDue, Failed, NoProc, NoJob, NoInfo,
            ErrorInfo, RunningInfo, WorkerPC, UsingPC, HoldingPC, saved, volatile
<1>1. EntryShape' /\ EntriesApart' /\ EditedExists' /\ StoppedStaysStopped' /\ SavedCopy' /\
      RulesAreValid' /\ StatusIsConsistent'
  BY DEF IInv, EntryShape, EntriesApart, EditedExists, StoppedStaysStopped, SavedCopy,
         RulesAreValid, StatusIsConsistent, Valid, StopDone
<1>2. JobShape'
  BY DEF IInv, JobShape, TypeOK, StopDone
<1>3. ProcShape'
  BY DEF IInv, ProcShape, TypeOK, StopDone
<1>4. DownIsEmpty'
  BY DEF IInv, DownIsEmpty, StartOfThread, TypeOK, StopDone
<1>5. HandlersApart'
  BY DEF IInv, HandlersApart, JobShape, TypeOK, StopDone
<1>6. ActiveIsFree'
  BY DEF IInv, ActiveIsFree, JobShape, EntryShape, TypeOK, StopDone
<1>7. ProcessOwned'
  <2> SUFFICES ASSUME up', NEW b \in Attempts, proc'[b] # NoProc PROVE Owned(b)'
    BY DEF ProcessOwned
  <2>1. up /\ proc[b] # NoProc
    BY DEF StopDone, IInv, TypeOK
  <2>2. CASE \E i \in Ids : running[i] = Active(b)
    BY <2>2 DEF Owned, StopDone, IInv, TypeOK, EntryShape
  <2>3. CASE \E u \in Threads : pc[u] \in HoldingPC /\ job[u].attempt = b
    BY <2>3 DEF Owned, StopDone, IInv, TypeOK, JobShape
  <2> QED
    BY <2>1, <2>2, <2>3 DEF IInv, ProcessOwned, Owned
<1>8. StartHasProcess'
  BY DEF IInv, StartHasProcess, JobShape, ProcShape, HandlersApart, TypeOK, StopDone
<1>9. StartingHasWorker'
  BY DEF IInv, StartingHasWorker, EntryShape, JobShape, TypeOK, StopDone
<1>10. RunningAsConfigured'
  BY DEF IInv, RunningAsConfigured, EntryShape, RuleSets, TypeOK, StopDone
<1>11. EditIsExclusive'
  BY DEF IInv, EditIsExclusive, JobShape, Editors, RuleSets, TypeOK, StopDone
<1>12. EditStage'
  BY DEF IInv, EditStage, JobShape, EntryShape, TypeOK, StopDone
<1> QED
  BY <1>1, <1>2, <1>3, <1>4, <1>5, <1>6, <1>7, <1>8, <1>9, <1>10, <1>11, <1>12 DEF IInv

\* An edit's stop preserves the invariant.
LEMMA EditStoppedStep ==
    ASSUME IInv, TypeOK', NEW t \in Threads, EditStopped(t)
    PROVE  IInv'
<1> USE NameAssumption, ThreadsType
        DEF Stopped, Starting, Active, Reconnecting, RetryDue, Failed, NoProc, NoJob, NoInfo,
            ErrorInfo, RunningInfo, WorkerPC, UsingPC, HoldingPC, saved, volatile
<1>1. EntryShape' /\ EntriesApart' /\ EditedExists' /\ StoppedStaysStopped' /\ SavedCopy' /\
      RulesAreValid' /\ StatusIsConsistent'
  BY DEF IInv, EntryShape, EntriesApart, EditedExists, StoppedStaysStopped, SavedCopy,
         RulesAreValid, StatusIsConsistent, Valid, EditStopped
<1>2. JobShape'
  BY DEF IInv, JobShape, TypeOK, EditStopped
<1>3. ProcShape'
  BY DEF IInv, ProcShape, TypeOK, EditStopped
<1>4. DownIsEmpty'
  BY DEF IInv, DownIsEmpty, StartOfThread, TypeOK, EditStopped
<1>5. HandlersApart'
  BY DEF IInv, HandlersApart, JobShape, TypeOK, EditStopped
<1>6. ActiveIsFree'
  BY DEF IInv, ActiveIsFree, JobShape, EntryShape, TypeOK, EditStopped
<1>7. ProcessOwned'
  <2> SUFFICES ASSUME up', NEW b \in Attempts, proc'[b] # NoProc PROVE Owned(b)'
    BY DEF ProcessOwned
  <2>1. up /\ proc[b] # NoProc
    BY DEF EditStopped, IInv, TypeOK
  <2>2. CASE \E i \in Ids : running[i] = Active(b)
    BY <2>2 DEF Owned, EditStopped, IInv, TypeOK, EntryShape
  <2>3. CASE \E u \in Threads : pc[u] \in HoldingPC /\ job[u].attempt = b
    BY <2>3 DEF Owned, EditStopped, IInv, TypeOK, JobShape
  <2> QED
    BY <2>1, <2>2, <2>3 DEF IInv, ProcessOwned, Owned
<1>8. StartHasProcess'
  BY DEF IInv, StartHasProcess, JobShape, ProcShape, HandlersApart, TypeOK, EditStopped
<1>9. StartingHasWorker'
  BY DEF IInv, StartingHasWorker, EntryShape, JobShape, TypeOK, EditStopped
<1>10. RunningAsConfigured'
  BY DEF IInv, RunningAsConfigured, EntryShape, RuleSets, TypeOK, EditStopped
<1>11. EditIsExclusive'
  BY DEF IInv, EditIsExclusive, JobShape, Editors, RuleSets, TypeOK, EditStopped
<1>12. EditStage'
  BY DEF IInv, EditStage, JobShape, EntryShape, TypeOK, EditStopped
<1> QED
  BY <1>1, <1>2, <1>3, <1>4, <1>5, <1>6, <1>7, <1>8, <1>9, <1>10, <1>11, <1>12 DEF IInv

\* An edit's failed stop preserves the invariant.
LEMMA EditStopFailedStep ==
    ASSUME IInv, TypeOK', NEW t \in Threads, EditStopFailed(t)
    PROVE  IInv'
<1> USE NameAssumption, ThreadsType
        DEF Stopped, Starting, Active, Reconnecting, RetryDue, Failed, NoProc, NoJob, NoInfo,
            ErrorInfo, RunningInfo, WorkerPC, UsingPC, HoldingPC, saved, volatile
<1>1. EditedExists' /\ SavedCopy' /\ RulesAreValid'
  BY DEF IInv, EditedExists, SavedCopy, RulesAreValid, Valid, EditStopFailed
<1>2. EntryShape'
  BY DEF IInv, EntryShape, TypeOK, EditStopFailed
<1>3. JobShape'
  BY DEF IInv, JobShape, TypeOK, EditStopFailed
<1>4. ProcShape'
  BY DEF IInv, ProcShape, TypeOK, EditStopFailed
<1>5. DownIsEmpty'
  BY DEF IInv, DownIsEmpty, StartOfThread, TypeOK, EditStopFailed
<1>6. HandlersApart'
  BY DEF IInv, HandlersApart, JobShape, TypeOK, EditStopFailed
<1>7. EntriesApart'
  BY DEF IInv, EntriesApart, EntryShape, TypeOK, EditStopFailed
<1>8. ActiveIsFree'
  BY DEF IInv, ActiveIsFree, JobShape, EntryShape, TypeOK, EditStopFailed
<1>9. ProcessOwned'
  <2> SUFFICES ASSUME up', NEW b \in Attempts, proc'[b] # NoProc PROVE Owned(b)'
    BY DEF ProcessOwned
  <2>1. running[job[t].id] = Stopped
    BY DEF IInv, EditStage, JobShape, EditStopFailed
  <2>2. b # job[t].attempt /\ Owned(b)
    BY DEF IInv, TypeOK, ProcessOwned, EditStopFailed
  <2>3. CASE \E i \in Ids : running[i] = Active(b)
    BY <2>1, <2>3 DEF Owned, EditStopFailed, IInv, TypeOK
  <2>4. CASE \E u \in Threads : pc[u] \in HoldingPC /\ job[u].attempt = b
    BY <2>2, <2>4 DEF Owned, EditStopFailed, IInv, TypeOK
  <2> QED
    BY <2>2, <2>3, <2>4 DEF Owned
<1>10. StartHasProcess'
  BY DEF IInv, StartHasProcess, JobShape, ProcShape, HandlersApart, TypeOK, EditStopFailed
<1>11. StartingHasWorker'
  BY DEF IInv, StartingHasWorker, EntryShape, JobShape, TypeOK, EditStopFailed
<1>12. RunningAsConfigured'
  BY DEF IInv, RunningAsConfigured, EntryShape, RuleSets, EditIsExclusive, Editors, JobShape,
         TypeOK, EditStopFailed
<1>13. EditIsExclusive'
  BY DEF IInv, EditIsExclusive, JobShape, Editors, RuleSets, TypeOK, EditStopFailed
<1>14. EditStage'
  BY DEF IInv, EditStage, JobShape, EntryShape, EditIsExclusive, Editors, TypeOK, EditStopFailed
<1>15. StoppedStaysStopped'
  BY DEF IInv, StoppedStaysStopped, EntryShape, JobShape, TypeOK, EditStopFailed
<1>16. StatusIsConsistent'
  <2>1. running[job[t].id] = Stopped /\ job[t].id \in Ids
    BY DEF IInv, EditStage, JobShape, EditStopFailed
  <2>2. diagnostics[job[t].id].since # "some"
    BY <2>1 DEF IInv, StatusIsConsistent
  <2>3. diagnostics'[job[t].id].since # "some" /\ diagnostics'[job[t].id].error = "some"
    BY <2>1, <2>2 DEF IInv, TypeOK, Info, EditStopFailed
  <2>4. \A i \in Ids \ {job[t].id} : diagnostics'[i] = diagnostics[i] /\ running'[i] = running[i]
    BY DEF IInv, TypeOK, EditStopFailed
  <2>5. running'[job[t].id] = Failed
    BY <2>1 DEF IInv, TypeOK, EditStopFailed
  <2> QED
    BY <2>1, <2>3, <2>4, <2>5 DEF IInv, StatusIsConsistent
<1> QED
  BY <1>1, <1>2, <1>3, <1>4, <1>5, <1>6, <1>7, <1>8, <1>9, <1>10, <1>11, <1>12, <1>13, <1>14,
     <1>15, <1>16 DEF IInv

\* An edit's save preserves the invariant.
LEMMA EditSaveStep ==
    ASSUME IInv, TypeOK', NEW t \in Threads, EditSave(t)
    PROVE  IInv'
<1> USE NameAssumption, ThreadsType
        DEF Stopped, Starting, Active, Reconnecting, RetryDue, Failed, NoProc, NoJob, NoInfo,
            ErrorInfo, RunningInfo, WorkerPC, UsingPC, HoldingPC, saved, volatile
<1>1. EntryShape' /\ ProcShape' /\ EntriesApart' /\ StoppedStaysStopped' /\ StatusIsConsistent'
  BY DEF IInv, EntryShape, ProcShape, EntriesApart, StoppedStaysStopped, StatusIsConsistent,
         EditSave, Save, Written, Applied
<1>2. JobShape'
  BY DEF IInv, JobShape, TypeOK, EditSave, Save, Written, Applied
<1>3. DownIsEmpty'
  BY DEF IInv, DownIsEmpty, StartOfThread, TypeOK, EditSave, Save, Written, Applied
<1>4. HandlersApart'
  BY DEF IInv, HandlersApart, JobShape, TypeOK, EditSave, Save, Written, Applied
<1>5. ActiveIsFree'
  BY DEF IInv, ActiveIsFree, JobShape, EntryShape, TypeOK, EditSave, Save, Written, Applied
<1>6. ProcessOwned'
  BY DEF IInv, ProcessOwned, Owned, EntryShape, JobShape, TypeOK, EditSave, Save, Written,
         Applied
<1>7. StartHasProcess'
  BY DEF IInv, StartHasProcess, JobShape, ProcShape, HandlersApart, TypeOK, EditSave, Save,
         Written, Applied
<1>8. StartingHasWorker'
  BY DEF IInv, StartingHasWorker, EntryShape, JobShape, TypeOK, EditSave, Save, Written, Applied
<1>9. RunningAsConfigured'
  <2>1. running[job[t].id] = Stopped /\ job[t].id \in Ids
    BY DEF IInv, EditStage, JobShape, EditSave
  <2>2. \A i \in Ids \ {job[t].id} : rules'[i] = rules[i]
    BY DEF IInv, TypeOK, RuleSets, EditSave, Save
  <2>3. running' = running /\ proc' = proc
    BY DEF EditSave
  <2> QED
    BY <2>1, <2>2, <2>3 DEF IInv, RunningAsConfigured
<1>10. EditIsExclusive'
  BY DEF IInv, EditIsExclusive, JobShape, Editors, RuleSets, TypeOK, EditSave, Save, Written,
         Applied
<1>11. EditStage'
  BY DEF IInv, EditStage, JobShape, EntryShape, TypeOK, EditSave, Save, Written, Applied
<1>12. EditedExists'
  BY DEF IInv, EditedExists, RuleSets, JobShape, TypeOK, EditSave, Save, Written, Applied
<1>13. SavedCopy'
  BY DEF IInv, SavedCopy, TypeOK, EditSave, Save, Written, Applied
<1>14. RulesAreValid'
  BY DEF IInv, RulesAreValid, Valid, RuleSets, TypeOK, EditSave, Save, Written, Applied
<1> QED
  BY <1>1, <1>2, <1>3, <1>4, <1>5, <1>6, <1>7, <1>8, <1>9, <1>10, <1>11, <1>12, <1>13,
     <1>14 DEF IInv

\* An edit's release of its reservation preserves the invariant.
LEMMA EditFinishStep ==
    ASSUME IInv, TypeOK', NEW t \in Threads, EditFinish(t)
    PROVE  IInv'
<1> USE NameAssumption, ThreadsType
        DEF Stopped, Starting, Active, Reconnecting, RetryDue, Failed, NoProc, NoJob, NoInfo,
            ErrorInfo, RunningInfo, WorkerPC, UsingPC, HoldingPC, saved, volatile
<1>1. EntryShape' /\ ProcShape' /\ EntriesApart' /\ RunningAsConfigured' /\ SavedCopy' /\ RulesAreValid' /\
      StatusIsConsistent'
  BY DEF IInv, EntryShape, ProcShape, EntriesApart, RunningAsConfigured, SavedCopy,
         RulesAreValid, StatusIsConsistent, Valid, EditFinish
<1>2. JobShape'
  BY DEF IInv, JobShape, TypeOK, EditFinish
<1>3. DownIsEmpty'
  BY DEF IInv, DownIsEmpty, StartOfThread, TypeOK, EditFinish
<1>4. HandlersApart'
  BY DEF IInv, HandlersApart, JobShape, TypeOK, EditFinish
<1>5. ActiveIsFree'
  BY DEF IInv, ActiveIsFree, JobShape, EntryShape, TypeOK, EditFinish
<1>6. ProcessOwned'
  BY DEF IInv, ProcessOwned, Owned, EntryShape, JobShape, TypeOK, EditFinish
<1>7. StartHasProcess'
  BY DEF IInv, StartHasProcess, JobShape, ProcShape, HandlersApart, TypeOK, EditFinish
<1>8. StartingHasWorker'
  BY DEF IInv, StartingHasWorker, EntryShape, JobShape, TypeOK, EditFinish
<1>9. EditIsExclusive'
  BY DEF IInv, EditIsExclusive, JobShape, Editors, RuleSets, TypeOK, EditFinish
<1>10. EditStage'
  BY DEF IInv, EditStage, JobShape, EntryShape, TypeOK, EditFinish
<1>11. EditedExists'
  BY DEF IInv, EditedExists, RuleSets, TypeOK, EditFinish
<1>12. StoppedStaysStopped'
  <2>1. job[t].id \in Ids /\ running[job[t].id].state # "starting"
    BY DEF IInv, JobShape, EditStage, EditFinish
  <2> QED
    BY <2>1 DEF IInv, TypeOK, StoppedStaysStopped, EditFinish
<1> QED
  BY <1>1, <1>2, <1>3, <1>4, <1>5, <1>6, <1>7, <1>8, <1>9, <1>10, <1>11, <1>12 DEF IInv

\* The supervisor's first step preserves the invariant.
LEMMA RestoreStep ==
    ASSUME IInv, TypeOK', Restore
    PROVE  IInv'
<1> USE NameAssumption, ThreadsType
        DEF Stopped, Starting, Active, Reconnecting, RetryDue, Failed, NoProc, NoJob, NoInfo,
            ErrorInfo, RunningInfo, WorkerPC, UsingPC, HoldingPC, saved, volatile
<1>1. EntryShape' /\ ProcShape' /\ EntriesApart' /\ RunningAsConfigured' /\ EditedExists' /\
      StoppedStaysStopped' /\ SavedCopy' /\ RulesAreValid' /\ StatusIsConsistent'
  BY DEF IInv, EntryShape, ProcShape, EntriesApart, RunningAsConfigured, EditedExists,
         StoppedStaysStopped, SavedCopy, RulesAreValid, StatusIsConsistent, Valid, Restore
<1>2. JobShape'
  BY DEF IInv, JobShape, TypeOK, Restore
<1>3. DownIsEmpty'
  BY DEF IInv, DownIsEmpty, TypeOK, Restore
<1>4. HandlersApart'
  BY DEF IInv, HandlersApart, JobShape, TypeOK, Restore
<1>5. ActiveIsFree'
  BY DEF IInv, ActiveIsFree, JobShape, EntryShape, TypeOK, Restore
<1>6. ProcessOwned'
  BY DEF IInv, ProcessOwned, Owned, EntryShape, JobShape, TypeOK, Restore
<1>7. StartHasProcess'
  BY DEF IInv, StartHasProcess, JobShape, ProcShape, HandlersApart, TypeOK, Restore
<1>8. StartingHasWorker'
  BY DEF IInv, StartingHasWorker, EntryShape, JobShape, TypeOK, Restore
<1>9. EditIsExclusive'
  BY DEF IInv, EditIsExclusive, JobShape, Editors, RuleSets, TypeOK, Restore
<1>10. EditStage'
  BY DEF IInv, EditStage, JobShape, EntryShape, TypeOK, Restore
<1> QED
  BY <1>1, <1>2, <1>3, <1>4, <1>5, <1>6, <1>7, <1>8, <1>9, <1>10 DEF IInv

\* A retry that falls due preserves the invariant.
LEMMA DelayElapsesStep ==
    ASSUME IInv, TypeOK', NEW id \in Ids, DelayElapses(id)
    PROVE  IInv'
<1> USE NameAssumption, ThreadsType
        DEF Stopped, Starting, Active, Reconnecting, RetryDue, Failed, NoProc, NoJob, NoInfo,
            ErrorInfo, RunningInfo, WorkerPC, UsingPC, HoldingPC, saved, volatile
<1>1. JobShape' /\ ProcShape' /\ HandlersApart' /\ StartHasProcess' /\ EditedExists' /\ SavedCopy' /\
      RulesAreValid'
  BY DEF IInv, JobShape, ProcShape, HandlersApart, StartHasProcess, EditedExists, SavedCopy,
         RulesAreValid, Valid, DelayElapses
<1>2. EntryShape'
  BY DEF IInv, EntryShape, TypeOK, DelayElapses
<1>3. DownIsEmpty'
  BY DEF IInv, DownIsEmpty, NothingRuns, TypeOK, DelayElapses
<1>4. EntriesApart'
  BY DEF IInv, EntriesApart, EntryShape, TypeOK, DelayElapses
<1>5. ActiveIsFree'
  BY DEF IInv, ActiveIsFree, JobShape, EntryShape, TypeOK, DelayElapses
<1>6. ProcessOwned'
  <2> SUFFICES ASSUME up', NEW b \in Attempts, proc'[b] # NoProc PROVE Owned(b)'
    BY DEF ProcessOwned
  <2>1. up /\ proc[b] # NoProc
    BY DEF DelayElapses, IInv, TypeOK
  <2>2. CASE \E i \in Ids : running[i] = Active(b)
    BY <2>2 DEF Owned, DelayElapses, IInv, TypeOK, EntryShape
  <2>3. CASE \E u \in Threads : pc[u] \in HoldingPC /\ job[u].attempt = b
    BY <2>3 DEF Owned, DelayElapses, IInv, TypeOK, JobShape
  <2> QED
    BY <2>1, <2>2, <2>3 DEF IInv, ProcessOwned, Owned
<1>7. StartingHasWorker'
  BY DEF IInv, StartingHasWorker, EntryShape, JobShape, TypeOK, DelayElapses
<1>8. RunningAsConfigured'
  BY DEF IInv, RunningAsConfigured, EntryShape, RuleSets, TypeOK, DelayElapses
<1>9. EditIsExclusive'
  BY DEF IInv, EditIsExclusive, JobShape, Editors, RuleSets, TypeOK, DelayElapses
<1>10. EditStage'
  BY DEF IInv, EditStage, JobShape, EntryShape, TypeOK, DelayElapses
<1>11. StoppedStaysStopped'
  BY DEF IInv, StoppedStaysStopped, EntryShape, JobShape, TypeOK, DelayElapses
<1>12. StatusIsConsistent'
  BY DEF IInv, StatusIsConsistent, EntryShape, TypeOK, DelayElapses
<1> QED
  BY <1>1, <1>2, <1>3, <1>4, <1>5, <1>6, <1>7, <1>8, <1>9, <1>10, <1>11, <1>12 DEF IInv

\* A process that ends by itself preserves the invariant.
LEMMA ProcessExitStep ==
    ASSUME IInv, TypeOK', NEW a \in Attempts, ProcessExit(a)
    PROVE  IInv'
<1> USE NameAssumption, ThreadsType
        DEF Stopped, Starting, Active, Reconnecting, RetryDue, Failed, NoProc, NoJob, NoInfo,
            ErrorInfo, RunningInfo, WorkerPC, UsingPC, HoldingPC, saved, volatile
<1>1. EntryShape' /\ JobShape' /\ DownIsEmpty' /\ HandlersApart' /\ EntriesApart' /\ ActiveIsFree' /\
      StartingHasWorker' /\ EditIsExclusive' /\ EditStage' /\ EditedExists' /\ StoppedStaysStopped' /\
      SavedCopy' /\ RulesAreValid' /\ StatusIsConsistent'
  BY DEF IInv, EntryShape, JobShape, DownIsEmpty, HandlersApart, EntriesApart, ActiveIsFree,
         StartingHasWorker, EditIsExclusive, EditStage, EditedExists, StoppedStaysStopped,
         SavedCopy, RulesAreValid, StatusIsConsistent, Editors, Valid, ProcessExit
<1>2. ProcShape'
  BY DEF IInv, ProcShape, TypeOK, ProcessExit
<1>3. ProcessOwned'
  <2> SUFFICES ASSUME up', NEW b \in Attempts, proc'[b] # NoProc PROVE Owned(b)'
    BY DEF ProcessOwned
  <2>1. up /\ proc[b] # NoProc
    BY DEF ProcessExit, IInv, TypeOK
  <2>2. CASE \E i \in Ids : running[i] = Active(b)
    BY <2>2 DEF Owned, ProcessExit, IInv, TypeOK, EntryShape
  <2>3. CASE \E u \in Threads : pc[u] \in HoldingPC /\ job[u].attempt = b
    BY <2>3 DEF Owned, ProcessExit, IInv, TypeOK, JobShape
  <2> QED
    BY <2>1, <2>2, <2>3 DEF IInv, ProcessOwned, Owned
<1>4. StartHasProcess'
  BY DEF IInv, StartHasProcess, JobShape, ProcShape, HandlersApart, TypeOK, ProcessExit
<1>5. RunningAsConfigured'
  BY DEF IInv, RunningAsConfigured, EntryShape, RuleSets, TypeOK, ProcessExit
<1> QED
  BY <1>1, <1>2, <1>3, <1>4, <1>5 DEF IInv

\* A guardian without a daemon preserves the invariant.
LEMMA GuardianCleanupStep ==
    ASSUME IInv, TypeOK', NEW a \in Attempts, GuardianCleanup(a)
    PROVE  IInv'
<1> USE NameAssumption, ThreadsType
        DEF Stopped, Starting, Active, Reconnecting, RetryDue, Failed, NoProc, NoJob, NoInfo,
            ErrorInfo, RunningInfo, WorkerPC, UsingPC, HoldingPC, saved, volatile
<1>1. EntryShape' /\ JobShape' /\ DownIsEmpty' /\ HandlersApart' /\ EntriesApart' /\ ActiveIsFree' /\
      StartingHasWorker' /\ EditIsExclusive' /\ EditStage' /\ EditedExists' /\ StoppedStaysStopped' /\
      SavedCopy' /\ RulesAreValid' /\ StatusIsConsistent'
  BY DEF IInv, EntryShape, JobShape, DownIsEmpty, HandlersApart, EntriesApart, ActiveIsFree,
         StartingHasWorker, EditIsExclusive, EditStage, EditedExists, StoppedStaysStopped,
         SavedCopy, RulesAreValid, StatusIsConsistent, Editors, Valid, GuardianCleanup
<1>2. ProcShape'
  BY DEF IInv, ProcShape, TypeOK, GuardianCleanup
<1>3. ProcessOwned'
  BY DEF IInv, ProcessOwned, Owned, EntryShape, JobShape, TypeOK, GuardianCleanup
<1>4. StartHasProcess'
  BY DEF IInv, StartHasProcess, JobShape, ProcShape, HandlersApart, DownIsEmpty, StartOfThread,
         TypeOK, GuardianCleanup
<1>5. RunningAsConfigured'
  BY DEF IInv, RunningAsConfigured, EntryShape, RuleSets, TypeOK, GuardianCleanup
<1> QED
  BY <1>1, <1>2, <1>3, <1>4, <1>5 DEF IInv

\* The daemon's death preserves the invariant.
LEMMA CrashStep ==
    ASSUME IInv, TypeOK', Crash
    PROVE  IInv'
<1> USE NameAssumption, ThreadsType
        DEF Stopped, Starting, Active, Reconnecting, RetryDue, Failed, NoProc, NoJob, NoInfo,
            ErrorInfo, RunningInfo, WorkerPC, UsingPC, HoldingPC, saved, volatile
<1>1. ProcShape' /\ SavedCopy' /\ RulesAreValid'
  BY DEF IInv, ProcShape, SavedCopy, RulesAreValid, Valid, Crash, NothingRuns, NoDiagnostics,
         StartOfThread, NoRequests
<1>2. EntryShape'
  BY DEF IInv, EntryShape, TypeOK, Crash, NothingRuns, NoDiagnostics, StartOfThread, NoRequests
<1>3. JobShape'
  BY DEF IInv, JobShape, TypeOK, Crash, NothingRuns, NoDiagnostics, StartOfThread, NoRequests
<1>4. DownIsEmpty'
  BY DEF IInv, DownIsEmpty, TypeOK, Crash, NothingRuns, NoDiagnostics, StartOfThread, NoRequests
<1>5. HandlersApart'
  BY DEF IInv, HandlersApart, JobShape, TypeOK, Crash, NothingRuns, NoDiagnostics,
         StartOfThread, NoRequests
<1>6. EntriesApart'
  BY DEF IInv, EntriesApart, EntryShape, TypeOK, Crash, NothingRuns, NoDiagnostics,
         StartOfThread, NoRequests
<1>7. ActiveIsFree'
  BY DEF IInv, ActiveIsFree, JobShape, EntryShape, TypeOK, Crash, NothingRuns, NoDiagnostics,
         StartOfThread, NoRequests
<1>8. ProcessOwned'
  BY DEF IInv, ProcessOwned, Owned, EntryShape, JobShape, TypeOK, Crash, NothingRuns,
         NoDiagnostics, StartOfThread, NoRequests
<1>9. StartHasProcess'
  BY DEF IInv, StartHasProcess, JobShape, ProcShape, HandlersApart, TypeOK, Crash, NothingRuns,
         NoDiagnostics, StartOfThread, NoRequests
<1>10. StartingHasWorker'
  BY DEF IInv, StartingHasWorker, EntryShape, JobShape, TypeOK, Crash, NothingRuns,
         NoDiagnostics, StartOfThread, NoRequests
<1>11. RunningAsConfigured'
  BY DEF IInv, RunningAsConfigured, EntryShape, RuleSets, TypeOK, Crash, NothingRuns,
         NoDiagnostics, StartOfThread, NoRequests
<1>12. EditIsExclusive'
  BY DEF IInv, EditIsExclusive, JobShape, Editors, RuleSets, TypeOK, Crash, NothingRuns,
         NoDiagnostics, StartOfThread, NoRequests
<1>13. EditStage'
  BY DEF IInv, EditStage, JobShape, EntryShape, TypeOK, Crash, NothingRuns, NoDiagnostics,
         StartOfThread, NoRequests
<1>14. EditedExists'
  BY DEF IInv, EditedExists, RuleSets, TypeOK, Crash, NothingRuns, NoDiagnostics, StartOfThread,
         NoRequests
<1>15. StoppedStaysStopped'
  BY DEF IInv, StoppedStaysStopped, EntryShape, JobShape, TypeOK, Crash, NothingRuns,
         NoDiagnostics, StartOfThread, NoRequests
<1>16. StatusIsConsistent'
  BY DEF IInv, StatusIsConsistent, EntryShape, TypeOK, Crash, NothingRuns, NoDiagnostics,
         StartOfThread, NoRequests
<1> QED
  BY <1>1, <1>2, <1>3, <1>4, <1>5, <1>6, <1>7, <1>8, <1>9, <1>10, <1>11, <1>12, <1>13, <1>14,
     <1>15, <1>16 DEF IInv

\* A new daemon preserves the invariant.
LEMMA RestartStep ==
    ASSUME IInv, TypeOK', Restart
    PROVE  IInv'
<1> USE NameAssumption, ThreadsType
        DEF Stopped, Starting, Active, Reconnecting, RetryDue, Failed, NoProc, NoJob, NoInfo,
            ErrorInfo, RunningInfo, WorkerPC, UsingPC, HoldingPC, saved, volatile
<1>1. EntryShape' /\ JobShape' /\ ProcShape' /\ HandlersApart' /\ EntriesApart' /\ ActiveIsFree' /\
      StartHasProcess' /\ StartingHasWorker' /\ EditStage' /\ StoppedStaysStopped' /\
      StatusIsConsistent'
  BY DEF IInv, EntryShape, JobShape, ProcShape, HandlersApart, EntriesApart, ActiveIsFree,
         StartHasProcess, StartingHasWorker, EditStage, StoppedStaysStopped, StatusIsConsistent,
         Restart
<1>2. DownIsEmpty'
  BY DEF IInv, DownIsEmpty, TypeOK, Restart
<1>3. ProcessOwned'
  BY DEF IInv, ProcessOwned, Owned, EntryShape, JobShape, TypeOK, Restart
<1>4. RunningAsConfigured'
  BY DEF IInv, RunningAsConfigured, EntryShape, RuleSets, SavedCopy, TypeOK, Restart
<1>5. EditIsExclusive'
  BY DEF IInv, EditIsExclusive, JobShape, Editors, RuleSets, SavedCopy, TypeOK, Restart
<1>6. EditedExists'
  BY DEF IInv, EditedExists, RuleSets, DownIsEmpty, TypeOK, Restart
<1>7. SavedCopy'
  BY DEF IInv, SavedCopy, TypeOK, Restart
<1>8. RulesAreValid'
  BY DEF IInv, RulesAreValid, Valid, RuleSets, SavedCopy, TypeOK, Restart
<1> QED
  BY <1>1, <1>2, <1>3, <1>4, <1>5, <1>6, <1>7, <1>8 DEF IInv

\* An added rule preserves the invariant.
LEMMA ForwardAddStep ==
    ASSUME IInv, TypeOK', NEW id \in Ids, NEW c \in Configs, ForwardAdd(id, c)
    PROVE  IInv'
<1> USE NameAssumption, ThreadsType
        DEF Stopped, Starting, Active, Reconnecting, RetryDue, Failed, NoProc, NoJob, NoInfo,
            ErrorInfo, RunningInfo, WorkerPC, UsingPC, HoldingPC, saved, volatile
<1>1. EntryShape' /\ JobShape' /\ ProcShape' /\ DownIsEmpty' /\ HandlersApart' /\ EntriesApart' /\
      ActiveIsFree' /\ ProcessOwned' /\ StartHasProcess' /\ StartingHasWorker' /\ EditStage' /\
      StoppedStaysStopped' /\ StatusIsConsistent'
  BY DEF IInv, EntryShape, JobShape, ProcShape, DownIsEmpty, HandlersApart, EntriesApart,
         ActiveIsFree, ProcessOwned, StartHasProcess, StartingHasWorker, EditStage,
         StoppedStaysStopped, StatusIsConsistent, Owned, ForwardAdd, Save, Written, Applied
<1>2. RunningAsConfigured'
  BY DEF IInv, RunningAsConfigured, EntryShape, RuleSets, TypeOK, ForwardAdd, Save, Written,
         Applied
<1>3. EditIsExclusive'
  BY DEF IInv, EditIsExclusive, JobShape, Editors, RuleSets, TypeOK, ForwardAdd, Save, Written,
         Applied
<1>4. EditedExists'
  BY DEF IInv, EditedExists, RuleSets, TypeOK, ForwardAdd, Save, Written, Applied
<1>5. SavedCopy'
  BY DEF IInv, SavedCopy, TypeOK, ForwardAdd, Save, Written, Applied
<1>6. RulesAreValid'
  BY DEF IInv, RulesAreValid, Valid, RuleSets, TypeOK, ForwardAdd, Save, Written, Applied
<1> QED
  BY <1>1, <1>2, <1>3, <1>4, <1>5, <1>6 DEF IInv

\* An imported batch preserves the invariant.
LEMMA ForwardImportStep ==
    ASSUME IInv, TypeOK', NEW batch \in RuleSets, ForwardImport(batch)
    PROVE  IInv'
<1> USE NameAssumption, ThreadsType
        DEF Stopped, Starting, Active, Reconnecting, RetryDue, Failed, NoProc, NoJob, NoInfo,
            ErrorInfo, RunningInfo, WorkerPC, UsingPC, HoldingPC, saved, volatile
<1>1. EntryShape' /\ JobShape' /\ ProcShape' /\ DownIsEmpty' /\ HandlersApart' /\ EntriesApart' /\
      ActiveIsFree' /\ ProcessOwned' /\ StartHasProcess' /\ StartingHasWorker' /\ EditStage' /\
      StoppedStaysStopped' /\ StatusIsConsistent'
  BY DEF IInv, EntryShape, JobShape, ProcShape, DownIsEmpty, HandlersApart, EntriesApart,
         ActiveIsFree, ProcessOwned, StartHasProcess, StartingHasWorker, EditStage,
         StoppedStaysStopped, StatusIsConsistent, Owned, ForwardImport, Save, Written, Applied
<1>2. RunningAsConfigured'
  BY DEF IInv, RunningAsConfigured, EntryShape, RuleSets, TypeOK, ForwardImport, Save, Written,
         Applied
<1>3. EditIsExclusive'
  BY DEF IInv, EditIsExclusive, JobShape, Editors, RuleSets, TypeOK, ForwardImport, Save,
         Written, Applied
<1>4. EditedExists'
  BY DEF IInv, EditedExists, RuleSets, TypeOK, ForwardImport, Save, Written, Applied
<1>5. SavedCopy'
  BY DEF IInv, SavedCopy, TypeOK, ForwardImport, Save, Written, Applied
<1>6. RulesAreValid'
  BY DEF IInv, RulesAreValid, Valid, RuleSets, TypeOK, ForwardImport, Save, Written, Applied
<1> QED
  BY <1>1, <1>2, <1>3, <1>4, <1>5, <1>6 DEF IInv

\* A removed rule preserves the invariant.
LEMMA ForwardRemoveStep ==
    ASSUME IInv, TypeOK', NEW id \in Ids, ForwardRemove(id)
    PROVE  IInv'
<1> USE NameAssumption, ThreadsType
        DEF Stopped, Starting, Active, Reconnecting, RetryDue, Failed, NoProc, NoJob, NoInfo,
            ErrorInfo, RunningInfo, WorkerPC, UsingPC, HoldingPC, saved, volatile
<1>1. EntryShape' /\ JobShape' /\ ProcShape' /\ DownIsEmpty' /\ HandlersApart' /\ EntriesApart' /\
      ActiveIsFree' /\ ProcessOwned' /\ StartHasProcess' /\ StartingHasWorker' /\ EditStage' /\
      StoppedStaysStopped' /\ StatusIsConsistent'
  BY DEF IInv, EntryShape, JobShape, ProcShape, DownIsEmpty, HandlersApart, EntriesApart,
         ActiveIsFree, ProcessOwned, StartHasProcess, StartingHasWorker, EditStage,
         StoppedStaysStopped, StatusIsConsistent, Owned, ForwardRemove, Save, Written, Applied
<1>2. RunningAsConfigured'
  BY DEF IInv, RunningAsConfigured, EntryShape, RuleSets, TypeOK, ForwardRemove, Save, Written,
         Applied
<1>3. EditIsExclusive'
  BY DEF IInv, EditIsExclusive, JobShape, Editors, RuleSets, TypeOK, ForwardRemove, Save,
         Written, Applied
<1>4. EditedExists'
  BY DEF IInv, EditedExists, RuleSets, TypeOK, ForwardRemove, Save, Written, Applied
<1>5. SavedCopy'
  BY DEF IInv, SavedCopy, TypeOK, ForwardRemove, Save, Written, Applied
<1>6. RulesAreValid'
  BY DEF IInv, RulesAreValid, Valid, RuleSets, TypeOK, ForwardRemove, Save, Written, Applied
<1> QED
  BY <1>1, <1>2, <1>3, <1>4, <1>5, <1>6 DEF IInv

\* New settings preserves the invariant.
LEMMA SettingsUpdateStep ==
    ASSUME IInv, TypeOK', NEW s \in Settings, SettingsUpdate(s)
    PROVE  IInv'
<1> USE NameAssumption, ThreadsType
        DEF Stopped, Starting, Active, Reconnecting, RetryDue, Failed, NoProc, NoJob, NoInfo,
            ErrorInfo, RunningInfo, WorkerPC, UsingPC, HoldingPC, saved, volatile
<1>1. EntryShape' /\ JobShape' /\ ProcShape' /\ DownIsEmpty' /\ HandlersApart' /\ EntriesApart' /\
      ActiveIsFree' /\ ProcessOwned' /\ StartHasProcess' /\ StartingHasWorker' /\ EditStage' /\
      StoppedStaysStopped' /\ StatusIsConsistent'
  BY DEF IInv, EntryShape, JobShape, ProcShape, DownIsEmpty, HandlersApart, EntriesApart,
         ActiveIsFree, ProcessOwned, StartHasProcess, StartingHasWorker, EditStage,
         StoppedStaysStopped, StatusIsConsistent, Owned, SettingsUpdate, Save, Written, Applied
<1>2. RunningAsConfigured'
  BY DEF IInv, RunningAsConfigured, EntryShape, RuleSets, TypeOK, SettingsUpdate, Save, Written,
         Applied
<1>3. EditIsExclusive'
  BY DEF IInv, EditIsExclusive, JobShape, Editors, RuleSets, TypeOK, SettingsUpdate, Save,
         Written, Applied
<1>4. EditedExists'
  BY DEF IInv, EditedExists, RuleSets, TypeOK, SettingsUpdate, Save, Written, Applied
<1>5. SavedCopy'
  BY DEF IInv, SavedCopy, TypeOK, SettingsUpdate, Save, Written, Applied
<1>6. RulesAreValid'
  BY DEF IInv, RulesAreValid, Valid, RuleSets, TypeOK, SettingsUpdate, Save, Written, Applied
<1> QED
  BY <1>1, <1>2, <1>3, <1>4, <1>5, <1>6 DEF IInv

-----------------------------------------------------------------------------
\* The theorems

\* A step that changes nothing preserves the invariant.
LEMMA StutterStep == ASSUME IInv, UNCHANGED vars PROVE IInv'
BY DEF IInv, TypeOK, EntryShape, JobShape, ProcShape, DownIsEmpty, HandlersApart, EntriesApart,
       ActiveIsFree, ProcessOwned, Owned, StartHasProcess, StartingHasWorker,
       RunningAsConfigured,
       EditIsExclusive, Editors, EditStage, EditedExists, StoppedStaysStopped, SavedCopy,
       RulesAreValid, Valid, StatusIsConsistent, vars, saved, volatile

\* A new DaemonManager satisfies the invariant.
LEMMA InitIInv == Init => IInv
<1> SUFFICES ASSUME Init PROVE IInv
  OBVIOUS
<1> USE NameAssumption, ThreadsType
        DEF Init, NothingRuns, NoRequests, NoDiagnostics, StartOfThread, Stopped, NoJob, NoProc,
            NoInfo
<1>1. TypeOK
  BY InitTypeOK
<1>2. EntryShape /\ JobShape /\ ProcShape /\ DownIsEmpty
  BY DEF EntryShape, JobShape, ProcShape, DownIsEmpty, UsingPC, WorkerPC
<1>3. HandlersApart /\ EntriesApart /\ ActiveIsFree /\ ProcessOwned /\ StartHasProcess
  BY DEF HandlersApart, EntriesApart, ActiveIsFree, ProcessOwned, StartHasProcess, UsingPC,
         WorkerPC
<1>4. StartingHasWorker /\ RunningAsConfigured /\ EditIsExclusive /\ EditStage
  BY DEF StartingHasWorker, RunningAsConfigured, EditIsExclusive, Editors, EditStage, WorkerPC
<1>5. EditedExists /\ StoppedStaysStopped /\ SavedCopy /\ RulesAreValid /\ StatusIsConsistent
  BY DEF EditedExists, StoppedStaysStopped, SavedCopy, RulesAreValid, Valid, StatusIsConsistent,
         Reconnecting, RetryDue, Failed
<1> QED
  BY <1>1, <1>2, <1>3, <1>4, <1>5 DEF IInv

\* Every step preserves the invariant.
LEMMA StepIInv == IInv /\ [Next]_vars => IInv'
<1> SUFFICES ASSUME IInv, [Next]_vars PROVE IInv'
  OBVIOUS
<1>1. TypeOK'
  BY StepTypeOK DEF IInv
<1> USE <1>1, ThreadsType
<1>2. CASE Requests
  BY <1>2, ForwardAddStep, ForwardImportStep, ForwardRemoveStep, SettingsUpdateStep,
     StartAttemptStep, StartReturnsStep, ForwardStopStep, EditBeginStep, MaintainScanStep
     DEF Requests
<1>3. CASE \E t \in Threads : Progress(t)
  BY <1>3, StartAttemptStep, StartReturnsStep, SpawnAcceptedStep, SpawnFailedStep,
     StartCommitsStep, AnnounceStep, StartDiscardsStep, DiscardDoneStep, StartFailsStep,
     StopDoneStep, EditStoppedStep, EditStopFailedStep, EditSaveStep, EditFinishStep
     DEF Progress
<1>4. CASE SupervisorLoop
  BY <1>4, RestoreStep, MaintainScanStep DEF SupervisorLoop
<1>5. CASE Environment
  BY <1>5, DelayElapsesStep, ProcessExitStep, GuardianCleanupStep, CrashStep, RestartStep
     DEF Environment
<1>6. CASE UNCHANGED vars
  BY <1>6, StutterStep
<1> QED
  BY <1>2, <1>3, <1>4, <1>5, <1>6 DEF Next

\* The inductive invariant holds in every reachable state: all the parts of the
\* manager's state agree with where the handlers stand.
THEOREM InvariantCorrect == Spec => []IInv
BY InitIInv, StepIInv, PTL DEF Spec

\* Owned gives an attempt one owner at least, the apartness of entries and
\* handlers one at most.
LEMMA OwnersAreSingle == IInv => AttemptHasOneOwner
<1> SUFFICES ASSUME IInv, up, NEW a \in Attempts, proc[a] # NoProc
             PROVE  \/ \E i \in Ids : ActiveFor(a) = {i} /\ HeldBy(a) = {}
                    \/ \E t \in Threads : HeldBy(a) = {t} /\ ActiveFor(a) = {}
  BY DEF AttemptHasOneOwner
<1> USE DEF Active, HoldingPC, UsingPC, WorkerPC
<1>1. CASE \E i \in Ids : running[i] = Active(a)
  <2>1. PICK i \in Ids : running[i] = Active(a)
    BY <1>1
  <2>2. ActiveFor(a) = {i}
    BY <2>1 DEF ActiveFor, IInv, EntriesApart
  <2>3. HeldBy(a) = {}
    BY <2>1 DEF HeldBy, IInv, ActiveIsFree
  <2> QED
    BY <2>2, <2>3
<1>2. CASE \E t \in Threads : pc[t] \in HoldingPC /\ job[t].attempt = a
  <2>1. PICK t \in Threads : pc[t] \in HoldingPC /\ job[t].attempt = a
    BY <1>2
  <2>2. HeldBy(a) = {t}
    BY <2>1 DEF HeldBy, IInv, HandlersApart
  <2>3. ActiveFor(a) = {}
    BY <2>1 DEF ActiveFor, IInv, ActiveIsFree
  <2> QED
    BY <2>2, <2>3
<1> QED
  BY <1>1, <1>2 DEF IInv, ProcessOwned, Owned

\* No ssh process is lost or has two places responsible for it, whatever starts,
\* stops, edits and retries race (start_inner, stop, edit_active, maintain).
THEOREM OneOwnerCorrect == Spec => []AttemptHasOneOwner
BY InvariantCorrect, OwnersAreSingle, PTL

\* A starting or active rule runs the configuration the daemon lists, although
\* start_inner reads the rule and inserts the attempt in two critical sections.
THEOREM RunningConfigCorrect == Spec => []RunningAsConfigured
<1>1. IInv => RunningAsConfigured
  BY DEF IInv
<1> QED
  BY <1>1, InvariantCorrect, PTL

\* No Starting marker is abandoned by start_inner.
THEOREM StartingCorrect == Spec => []StartingHasWorker
<1>1. IInv => StartingHasWorker
  BY DEF IInv
<1> QED
  BY <1>1, InvariantCorrect, PTL

\* A manual stop is never undone by a retry, a restore or a late acceptance.
THEOREM ManualStopCorrect == Spec => []StoppedStaysStopped
<1>1. IInv => StoppedStaysStopped
  BY DEF IInv
<1> QED
  BY <1>1, InvariantCorrect, PTL

\* edit_active's reservation is exclusive and its save overwrites nobody's change.
THEOREM EditCorrect == Spec => []EditIsExclusive
<1>1. IInv => EditIsExclusive
  BY DEF IInv
<1> QED
  BY <1>1, InvariantCorrect, PTL

\* The rule set is valid after every add, import, removal and edit.
THEOREM RulesCorrect == Spec => []RulesAreValid
<1>1. IInv => RulesAreValid
  BY DEF IInv
<1> QED
  BY <1>1, InvariantCorrect, PTL

\* The daemon serves what the file holds, after uncertain saves and restarts too.
THEOREM SavedCorrect == Spec => []ServedIsSaved
<1>1. IInv => ServedIsSaved
  BY DEF IInv, SavedCopy, ServedIsSaved
<1> QED
  BY <1>1, InvariantCorrect, PTL

\* Uptime and last error agree with the runtime state Status reports.
THEOREM StatusCorrect == Spec => []StatusIsConsistent
<1>1. IInv => StatusIsConsistent
  BY DEF IInv
<1> QED
  BY <1>1, InvariantCorrect, PTL

\* What only the editor t of rule i, while it works on it, may do.
LEMMA EditorFacts ==
    ASSUME IInv, NEW i \in Ids, NEW t \in Editors(i)
    PROVE  /\ t \in Threads /\ job[t].id = i /\ i \in editing /\ rules[i] # None
           /\ pc[t] \notin {"announce", "edit_finish"} =>
                 running[i] \in {Stopped, Starting(job[t].attempt)}
<1>1. t \in Threads /\ job[t].id = i /\ job[t].kind = "edit"
  BY DEF Editors
<1>2. i \in editing /\ rules[i] # None
  BY <1>1 DEF IInv, EditIsExclusive, EditedExists
<1>3. pc[t] \in WorkerPC \cup {"edit_stop", "edit_save", "edit_restart", "announce",
"edit_finish"}
  BY <1>1 DEF IInv, TypeOK, PC, JobShape, EditStage, NoJob, WorkerPC
<1>4. pc[t] \notin {"announce", "edit_finish"} =>
         running[i] \in {Stopped, Starting(job[t].attempt)}
  BY <1>1, <1>3 DEF IInv, EditStage
<1> QED
  BY <1>1, <1>2, <1>4

\* The rule of an editor that does not move is changed, or its entry is.
TouchedByOther(i, t) ==
    /\ up'
    /\ \/ rules'[i] # rules[i]
       \/ running'[i] # running[i] /\ pc[t] \notin {"announce", "edit_finish"}
    /\ pc'[t] = pc[t]

\* No step touches the rule of an editor that does not move.
LEMMA StepTouches ==
    ASSUME IInv, [Next]_vars, NEW i \in Ids, NEW t \in Editors(i)
    PROVE  ~TouchedByOther(i, t)
<1> DEFINE Kept == rules'[i] = rules[i] /\ running'[i] = running[i]
<1>0. t \in Threads /\ job[t].id = i /\ i \in editing /\ rules[i] # None
      /\ (pc[t] \notin {"announce", "edit_finish"} =>
             running[i] \in {Stopped, Starting(job[t].attempt)})
  BY EditorFacts
<1>a. Kept => ~TouchedByOther(i, t)
  BY DEF TouchedByOther
<1> USE <1>0, ThreadsType DEF saved, volatile
<1>1. ASSUME NEW id \in Ids, NEW c \in Configs, ForwardAdd(id, c) PROVE Kept
  BY <1>1 DEF ForwardAdd, Save, IInv, TypeOK, RuleSets
<1>2. ASSUME NEW batch \in RuleSets, ForwardImport(batch) PROVE Kept
  BY <1>2 DEF ForwardImport, Save, IInv, TypeOK, RuleSets
<1>3. ASSUME NEW id \in Ids, ForwardRemove(id) PROVE Kept
  BY <1>3 DEF ForwardRemove, Save, IInv, TypeOK, RuleSets
<1>4. ASSUME NEW s \in Settings, SettingsUpdate(s) PROVE Kept
  BY <1>4 DEF SettingsUpdate, Save
<1>5. ASSUME NEW u \in Threads, NEW id \in Ids, NEW kind \in {"manual", "automatic", "edit"},
             StartAttempt(u, id, kind)
      PROVE  ~TouchedByOther(i, t)
  <2>1. CASE id = i
    <3>1. u \in Editors(i)
      BY <1>5, <2>1 DEF StartAttempt, StartCaller, StartRefused, Editors, IInv, JobShape
    <3>2. u = t
      BY <3>1 DEF IInv, EditIsExclusive
    <3> QED
      BY <1>5, <3>2 DEF StartAttempt, StartCaller, StartRefused, IInv, TypeOK, TouchedByOther
  <2>2. CASE id # i
    BY <1>5, <2>2, <1>a DEF StartAttempt, IInv, TypeOK
  <2> QED
    BY <2>1, <2>2
<1>6. ASSUME NEW u \in Threads, NEW id \in Ids, NEW kind \in {"manual", "automatic", "edit"},
             StartReturns(u, id, kind)
      PROVE  ~TouchedByOther(i, t)
  <2>1. CASE running[i] = Failed \/ id # i
    BY <1>6, <2>1 DEF StartReturns, StartRefused, StartCaller, IInv, TypeOK, TouchedByOther,
                      Failed, Stopped, Starting
  <2>2. CASE running[i] # Failed
    BY <1>6, <2>2 DEF StartReturns, IInv, TypeOK, TouchedByOther
  <2> QED
    BY <2>1, <2>2
<1>7. ASSUME NEW u \in Clients, NEW id \in Ids, ForwardStop(u, id) PROVE Kept
  BY <1>7 DEF ForwardStop, TakeOut, IInv, TypeOK
<1>8. ASSUME NEW u \in Clients, NEW id \in Ids, NEW c \in Configs, EditBegin(u, id,
             c) PROVE Kept
  BY <1>8 DEF EditBegin, IInv, TypeOK
<1>9. ASSUME NEW u \in Threads, MaintainScan(u) PROVE ~TouchedByOther(i, t)
  BY <1>9 DEF MaintainScan, ExitSeen, TouchedByOther, Stopped, Starting, RetryDue
<1>10. ASSUME NEW u \in Threads, StartCommits(u) PROVE ~TouchedByOther(i, t)
  <2>1. CASE u = t
    BY <1>10, <2>1 DEF StartCommits, TouchedByOther, IInv, TypeOK
  <2>2. CASE u # t
    <3>1. job[u].id # i
      BY <1>10, <2>2, EditorsApart DEF StartCommits, StillWanted, WorkerPC, Editors
    <3> QED
      BY <1>10, <1>a, <3>1 DEF StartCommits, IInv, TypeOK
  <2> QED
    BY <2>1, <2>2
<1>11. ASSUME NEW u \in Threads, StartFails(u) PROVE ~TouchedByOther(i, t)
  <2>1. CASE u = t
    BY <1>11, <2>1 DEF StartFails, ReturnFromStart, AfterStart, TouchedByOther, IInv, TypeOK,
                       Editors
  <2>2. CASE u # t
    <3>1. job[u].id # i \/ ~StillWanted(u)
      BY <1>11, <2>2, EditorsApart DEF StartFails, StillWanted, WorkerPC, Editors
    <3> QED
      BY <1>11, <1>a, <3>1 DEF StartFails, IInv, TypeOK
  <2> QED
    BY <2>1, <2>2
<1>12. ASSUME NEW u \in Threads, EditStopFailed(u) PROVE ~TouchedByOther(i, t)
  <2>1. u \in Editors(job[u].id) /\ job[u].id \in Ids
    BY <1>12 DEF EditStopFailed, IInv, JobShape, Editors
  <2>2. CASE u = t
    BY <1>12, <2>2 DEF EditStopFailed, TouchedByOther, IInv, TypeOK
  <2>3. CASE u # t
    BY <1>12, <2>1, <2>3, <1>a DEF EditStopFailed, IInv, TypeOK, EditIsExclusive
  <2> QED
    BY <2>2, <2>3
<1>13. ASSUME NEW u \in Threads, EditSave(u) PROVE ~TouchedByOther(i, t)
  <2>1. u \in Editors(job[u].id) /\ job[u].id \in Ids
    BY <1>13 DEF EditSave, IInv, JobShape, Editors
  <2>2. CASE u = t
    BY <1>13, <2>2 DEF EditSave, TouchedByOther, IInv, TypeOK
  <2>3. CASE u # t
    BY <1>13, <2>1, <2>3, <1>a DEF EditSave, Save, IInv, TypeOK, RuleSets, EditIsExclusive
  <2> QED
    BY <2>2, <2>3
<1>14. ASSUME NEW id \in Ids, DelayElapses(id) PROVE ~TouchedByOther(i, t)
  BY <1>14 DEF DelayElapses, IInv, TypeOK, TouchedByOther, Reconnecting, Stopped, Starting
<1>15. CASE Crash
  BY <1>15 DEF Crash, TouchedByOther
<1>16. CASE Restart
  BY <1>16, <1>a DEF Restart, IInv, DownIsEmpty
<1>17. ASSUME NEW u \in Threads,
              \/ SpawnAccepted(u) \/ SpawnFailed(u) \/ Announce(u) \/ StartDiscards(u)
              \/ DiscardDone(u) \/ StopDone(u) \/ EditStopped(u) \/ EditFinish(u)
       PROVE  Kept
  BY <1>17 DEF SpawnAccepted, SpawnFailed, Announce, StartDiscards, DiscardDone, StopDone,
               EditStopped, EditFinish
<1>18. ASSUME NEW a \in Attempts, ProcessExit(a) \/ GuardianCleanup(a) PROVE Kept
  BY <1>18 DEF ProcessExit, GuardianCleanup
<1>19. CASE Restore
  BY <1>19, <1>a DEF Restore
<1>20. CASE UNCHANGED vars
  BY <1>20, <1>a DEF vars
<1>21. CASE Requests
  BY <1>21, <1>a, <1>1, <1>2, <1>3, <1>4, <1>5, <1>6, <1>7, <1>8, <1>9 DEF Requests
<1>22. CASE \E u \in Threads : Progress(u)
  BY <1>22, <1>a, <1>5, <1>6, <1>10, <1>11, <1>12, <1>13, <1>17 DEF Progress
<1>23. CASE SupervisorLoop
  BY <1>23, <1>9, <1>19, <1>a DEF SupervisorLoop
<1>24. CASE Environment
  BY <1>24, <1>14, <1>15, <1>16, <1>18, <1>a DEF Environment
<1> QED
  BY <1>20, <1>21, <1>22, <1>23, <1>24, <1>a DEF Next

\* Only its editor changes a reserved rule or its runtime state before the restart
\* is decided.
THEOREM ReservationCorrect == Spec => OnlyEditorTouches
<1>1. IInv /\ [Next]_vars =>
        [\A i \in Ids : \A t \in Editors(i) :
          /\ up'
          /\ \/ rules'[i] # rules[i]
             \/ running'[i] # running[i] /\ pc[t] \notin {"announce", "edit_finish"}
          => pc'[t] # pc[t]]_vars
  BY StepTouches DEF TouchedByOther
<1> QED
  BY <1>1, InvariantCorrect, PTL DEF Spec, OnlyEditorTouches

-----------------------------------------------------------------------------
\* The refinement of Attempt

\* How far an attempt is agrees with where its holder stands.
LEMMA StepStartsApart == IInv /\ StartsApart /\ [Next]_vars => StartsApart'
<1> SUFFICES ASSUME IInv, StartsApart, [Next]_vars PROVE StartsApart'
  OBVIOUS
<1> USE ThreadsType, NameAssumption
        DEF StartsApart, HoldingPC, Stopped, Starting, Active, Reconnecting, RetryDue, Failed,
            saved, volatile
<1>1. ASSUME UNCHANGED <<running, proc, pc, job>> PROVE StartsApart'
  BY <1>1
<1>2. ASSUME NEW t \in Threads, NEW id \in Ids, NEW kind \in {"manual", "automatic", "edit"},
             StartAttempt(t, id, kind)
      PROVE  StartsApart'
  <2>1. PICK a \in Attempts :
           /\ Fresh(a)
           /\ running' = [running EXCEPT ![id] = Starting(a)]
           /\ proc' = [proc EXCEPT ![a] =
                         [status |-> "starting", rule |-> id, config |-> rules[id]]]
           /\ job' = [job EXCEPT ![t] =
                         [kind |-> kind, id |-> id, attempt |-> a,
                          config |-> rules[id], expected |-> None]]
    BY <1>2 DEF StartAttempt
  <2>2. pc' = [pc EXCEPT ![t] = "spawning"]
    BY <1>2 DEF StartAttempt
  <2> QED
    BY <2>1, <2>2 DEF IInv, TypeOK, Fresh, JobShape, EntryShape, UsingPC, WorkerPC
<1>3. ASSUME NEW t \in Threads, NEW id \in Ids, NEW kind \in {"manual", "automatic", "edit"},
             StartReturns(t, id, kind)
      PROVE  StartsApart'
  BY <1>3 DEF StartReturns, AfterStart, IInv, TypeOK
<1>4. ASSUME NEW t \in Clients, NEW id \in Ids, ForwardStop(t, id) PROVE StartsApart'
  BY <1>4 DEF ForwardStop, TakeOut, IInv, TypeOK
<1>5. ASSUME NEW t \in Clients, NEW id \in Ids, NEW c \in Configs, EditBegin(t, id, c)
      PROVE  StartsApart'
  BY <1>5 DEF EditBegin, IInv, TypeOK
<1>6. ASSUME NEW t \in Threads, MaintainScan(t) PROVE StartsApart'
  BY <1>6 DEF MaintainScan, ExitSeen, IInv, TypeOK, JobShape, EntryShape, UsingPC, WorkerPC,
              NoProc
<1>7. ASSUME NEW t \in Threads, SpawnAccepted(t) PROVE StartsApart'
  BY <1>7 DEF SpawnAccepted, IInv, TypeOK, JobShape, EntryShape, HandlersApart, UsingPC,
              WorkerPC
<1>8. ASSUME NEW t \in Threads, SpawnFailed(t) PROVE StartsApart'
  BY <1>8 DEF SpawnFailed, IInv, TypeOK, JobShape, EntryShape, HandlersApart, UsingPC,
              WorkerPC, NoProc
<1>9. ASSUME NEW t \in Threads, StartCommits(t) PROVE StartsApart'
  BY <1>9 DEF StartCommits, IInv, TypeOK
<1>10. ASSUME NEW t \in Threads, Announce(t) PROVE StartsApart'
  BY <1>10 DEF Announce, ReturnFromStart, AfterStart, IInv, TypeOK
<1>11. ASSUME NEW t \in Threads, StartDiscards(t) PROVE StartsApart'
  BY <1>11 DEF StartDiscards, IInv, TypeOK
<1>12. ASSUME NEW t \in Threads, DiscardDone(t) PROVE StartsApart'
  BY <1>12 DEF DiscardDone, ReturnFromStart, AfterStart, IInv, TypeOK, JobShape, EntryShape,
               HandlersApart, UsingPC, WorkerPC, NoProc
<1>13. ASSUME NEW t \in Threads, StartFails(t) PROVE StartsApart'
  BY <1>13 DEF StartFails, AfterFailure, ReturnFromStart, AfterStart, IInv, TypeOK
<1>14. ASSUME NEW t \in Threads, StopDone(t) \/ EditStopped(t) PROVE StartsApart'
  BY <1>14 DEF StopDone, EditStopped, IInv, TypeOK, JobShape, EntryShape, HandlersApart,
               UsingPC, WorkerPC, NoProc
<1>15. ASSUME NEW t \in Threads, EditStopFailed(t) PROVE StartsApart'
  BY <1>15 DEF EditStopFailed, IInv, TypeOK, JobShape, EntryShape, HandlersApart, UsingPC,
               WorkerPC, NoProc
<1>16. ASSUME NEW t \in Threads, EditSave(t) \/ EditFinish(t) PROVE StartsApart'
  BY <1>16 DEF EditSave, EditFinish, IInv, TypeOK
<1>17. CASE Restore
  BY <1>17 DEF Restore, IInv, TypeOK
<1>18. ASSUME NEW id \in Ids, DelayElapses(id) PROVE StartsApart'
  BY <1>18 DEF DelayElapses, IInv, TypeOK
<1>19. ASSUME NEW a \in Attempts, ProcessExit(a) PROVE StartsApart'
  BY <1>19 DEF ProcessExit, IInv, TypeOK, JobShape, EntryShape, UsingPC, WorkerPC
<1>20. ASSUME NEW a \in Attempts, GuardianCleanup(a) PROVE StartsApart'
  BY <1>20 DEF GuardianCleanup, IInv, DownIsEmpty, StartOfThread, NothingRuns
<1>21. CASE Crash
  BY <1>21 DEF Crash, StartOfThread, NothingRuns
<1>22. CASE Restart
  BY <1>22, <1>1 DEF Restart
<1>23. CASE Requests
  BY <1>23, <1>1, <1>2, <1>3, <1>4, <1>5, <1>6
     DEF Requests, ForwardAdd, ForwardImport, ForwardRemove, SettingsUpdate
<1>24. CASE \E t \in Threads : Progress(t)
  BY <1>24, <1>2, <1>3, <1>7, <1>8, <1>9, <1>10, <1>11, <1>12, <1>13, <1>14, <1>15, <1>16
     DEF Progress
<1>25. CASE SupervisorLoop
  BY <1>25, <1>6, <1>17 DEF SupervisorLoop
<1>26. CASE Environment
  BY <1>26, <1>18, <1>19, <1>20, <1>21, <1>22 DEF Environment
<1>27. CASE UNCHANGED vars
  BY <1>27, <1>1 DEF vars
<1> QED
  BY <1>23, <1>24, <1>25, <1>26, <1>27 DEF Next

\* The initial state has nothing started.
LEMMA InitStartsApart == Init => StartsApart
BY ThreadsType DEF Init, StartsApart, NothingRuns, Stopped, StartOfThread, HoldingPC

\* An attempt that a step leaves alone stutters, unless the daemon dies or comes.
LEMMA LifeStutters ==
    ASSUME NEW a, proc'[a] = proc[a], up' = up
    PROVE  [Life(a)!Next]_(Life(a)!vars)
BY DEF Life!vars

\* What a call that ends an attempt does to it.
LEMMA LifeEnds ==
    ASSUME IInv, NEW a \in Attempts, up, up', proc'[a] = NoProc,
           proc[a].status # "starting"
    PROVE  [Life(a)!Next]_(Life(a)!vars)
<1>1. CASE proc[a].status = "none"
  <2>1. proc'[a] = proc[a]
    BY <1>1 DEF IInv, ProcShape
  <2> QED
    BY <2>1, LifeStutters DEF IInv, TypeOK
<1>2. CASE proc[a].status # "none"
  <2>1. Life(a)!End
    BY <1>2 DEF Life!End, IInv, TypeOK, Proc, NoProc
  <2> QED
    BY <2>1 DEF Life!Next
<1> QED
  BY <1>1, <1>2

\* Each step is, for each attempt, one of its life or none.
LEMMA StepLife ==
    ASSUME NEW a \in Attempts, IInv, StartsApart, [Next]_vars
    PROVE  [Life(a)!Next]_(Life(a)!vars)
<1> USE ThreadsType, NameAssumption DEF saved, volatile
<1>a. ASSUME UNCHANGED <<up, proc>> PROVE [Life(a)!Next]_(Life(a)!vars)
  BY <1>a, LifeStutters
<1>b. ASSUME NEW t \in Threads, pc[t] \in HoldingPC \ {"spawning"},
             proc' = [proc EXCEPT ![job[t].attempt] = NoProc], up' = up
      PROVE  [Life(a)!Next]_(Life(a)!vars)
  <2>1. up
    BY <1>b DEF IInv, DownIsEmpty, StartOfThread, HoldingPC, TypeOK
  <2>2. CASE job[t].attempt = a
    <3>1. proc[a].status # "starting" /\ proc'[a] = NoProc
      BY <1>b, <2>2 DEF StartsApart, IInv, TypeOK
    <3> QED
      BY <1>b, <2>1, <3>1, LifeEnds
  <2>3. CASE job[t].attempt # a
    <3>1. proc'[a] = proc[a]
      BY <1>b, <2>3 DEF IInv, TypeOK
    <3> QED
      BY <1>b, <3>1, LifeStutters
  <2> QED
    BY <2>2, <2>3
<1>1. ASSUME NEW t \in Threads, NEW id \in Ids, NEW kind \in {"manual", "automatic", "edit"},
             StartAttempt(t, id, kind)
      PROVE  [Life(a)!Next]_(Life(a)!vars)
  <2>1. PICK b \in Attempts :
           /\ proc[b] = NoProc
           /\ proc' = [proc EXCEPT ![b] =
                         [status |-> "starting", rule |-> id, config |-> rules[id]]]
    BY <1>1 DEF StartAttempt, Fresh
  <2>2. up /\ up' = up
    BY <1>1 DEF StartAttempt, StartCaller
  <2>3. CASE a = b
    <3>1. proc'[a].status = "starting" /\ proc[a].status = "none"
      BY <2>1, <2>3 DEF IInv, TypeOK, NoProc
    <3>2. Life(a)!Begin
      BY <2>2, <3>1 DEF Life!Begin
    <3> QED
      BY <3>2 DEF Life!Next
  <2>4. CASE a # b
    <3>1. proc'[a] = proc[a]
      BY <2>1, <2>4 DEF IInv, TypeOK
    <3> QED
      BY <2>2, <3>1, LifeStutters
  <2> QED
    BY <2>3, <2>4
<1>2. ASSUME NEW t \in Threads, SpawnAccepted(t) \/ SpawnFailed(t)
      PROVE  [Life(a)!Next]_(Life(a)!vars)
  <2>1. pc[t] = "spawning" /\ up' = up /\ job[t].attempt \in Attempts
    BY <1>2 DEF SpawnAccepted, SpawnFailed, IInv, JobShape, UsingPC, WorkerPC
  <2>2. up
    BY <2>1 DEF IInv, DownIsEmpty, StartOfThread, TypeOK
  <2>3. CASE job[t].attempt = a
    <3>1. proc[a].status = "starting"
      BY <2>1, <2>3 DEF StartsApart
    <3>2. CASE SpawnAccepted(t)
      <4>1. proc'[a].status = "live"
        BY <2>3, <3>2 DEF SpawnAccepted, IInv, TypeOK, Proc
      <4>2. Life(a)!Accept
        BY <2>1, <2>2, <3>1, <4>1 DEF Life!Accept
      <4> QED
        BY <4>2 DEF Life!Next
    <3>3. CASE SpawnFailed(t)
      <4>1. proc'[a].status = "none"
        BY <2>3, <3>3 DEF SpawnFailed, IInv, TypeOK, NoProc
      <4>2. Life(a)!Fail
        BY <2>1, <2>2, <3>1, <4>1 DEF Life!Fail
      <4> QED
        BY <4>2 DEF Life!Next
    <3> QED
      BY <1>2, <3>2, <3>3
  <2>4. CASE job[t].attempt # a
    <3>1. proc'[a] = proc[a]
      BY <1>2, <2>4 DEF SpawnAccepted, SpawnFailed, IInv, TypeOK
    <3> QED
      BY <2>1, <3>1, LifeStutters
  <2> QED
    BY <2>3, <2>4
<1>3. ASSUME NEW t \in Threads,
             DiscardDone(t) \/ StopDone(t) \/ EditStopped(t) \/ EditStopFailed(t)
      PROVE  [Life(a)!Next]_(Life(a)!vars)
  BY <1>3, <1>b DEF DiscardDone, StopDone, EditStopped, EditStopFailed, HoldingPC
<1>4. ASSUME NEW t \in Threads, MaintainScan(t) PROVE [Life(a)!Next]_(Life(a)!vars)
  <2>1. up /\ up' = up
    BY <1>4 DEF MaintainScan
  <2>2. CASE \E i \in Ids : ExitSeen(i) /\ running[i].attempt = a
    <3>1. proc'[a] = NoProc /\ proc[a].status # "starting"
      BY <1>4, <2>2 DEF MaintainScan, ExitSeen
    <3> QED
      BY <2>1, <3>1, LifeEnds
  <2>3. CASE ~\E i \in Ids : ExitSeen(i) /\ running[i].attempt = a
    <3>1. proc'[a] = proc[a]
      BY <1>4, <2>3 DEF MaintainScan
    <3> QED
      BY <2>1, <3>1, LifeStutters
  <2> QED
    BY <2>2, <2>3
<1>5. ASSUME NEW b \in Attempts, ProcessExit(b) PROVE [Life(a)!Next]_(Life(a)!vars)
  <2>1. CASE a = b
    <3>1. proc[a].status = "live" /\ proc'[a].status = "exited" /\ up' = up
      BY <1>5, <2>1 DEF ProcessExit, IInv, TypeOK, Proc
    <3>2. CASE up
      <4>1. Life(a)!Exit
        BY <3>1, <3>2 DEF Life!Exit
      <4> QED
        BY <4>1 DEF Life!Next
    <3>3. CASE ~up
      <4>1. proc[a] # NoProc /\ proc'[a] # NoProc
        BY <3>1 DEF NoProc
      <4>2. Life(a)!SshEnds
        BY <3>1, <3>3, <4>1 DEF Life!SshEnds
      <4> QED
        BY <4>2 DEF Life!Next
    <3> QED
      BY <3>2, <3>3
  <2>2. CASE a # b
    <3>1. proc'[a] = proc[a] /\ up' = up
      BY <1>5, <2>2 DEF ProcessExit, IInv, TypeOK
    <3> QED
      BY <3>1, LifeStutters
  <2> QED
    BY <2>1, <2>2
<1>6. ASSUME NEW b \in Attempts, GuardianCleanup(b) PROVE [Life(a)!Next]_(Life(a)!vars)
  <2>1. CASE a = b
    <3>1. ~up /\ up' = up /\ proc[a] # NoProc /\ proc'[a] = NoProc
      BY <1>6, <2>1 DEF GuardianCleanup, IInv, TypeOK
    <3>2. Life(a)!Cleanup
      BY <3>1 DEF Life!Cleanup, NoProc
    <3> QED
      BY <3>2 DEF Life!Next
  <2>2. CASE a # b
    <3>1. proc'[a] = proc[a] /\ up' = up
      BY <1>6, <2>2 DEF GuardianCleanup, IInv, TypeOK
    <3> QED
      BY <3>1, LifeStutters
  <2> QED
    BY <2>1, <2>2
<1>7. CASE Crash
  <2>1. up /\ up' = FALSE /\ proc' = proc
    BY <1>7 DEF Crash
  <2>2. Life(a)!Crash
    BY <2>1 DEF Life!Crash, IInv, ProcShape, NoProc
  <2> QED
    BY <2>2 DEF Life!Next
<1>8. CASE Restart
  <2>1. ~up /\ up' = TRUE /\ proc' = proc /\ proc[a] = NoProc
    BY <1>8 DEF Restart
  <2>2. Life(a)!Restart
    BY <2>1 DEF Life!Restart, NoProc
  <2> QED
    BY <2>2 DEF Life!Next
<1>9. CASE Requests
  BY <1>9, <1>a, <1>1, <1>4
     DEF Requests, ForwardAdd, ForwardImport, ForwardRemove, SettingsUpdate, StartReturns,
         ForwardStop, TakeOut, EditBegin
<1>10. CASE \E t \in Threads : Progress(t)
  BY <1>10, <1>a, <1>1, <1>2, <1>3
     DEF Progress, StartReturns, StartCommits, Announce, StartDiscards, StartFails, EditSave,
         EditFinish
<1>11. CASE SupervisorLoop
  BY <1>11, <1>a, <1>4 DEF SupervisorLoop, Restore
<1>12. CASE Environment
  BY <1>12, <1>a, <1>5, <1>6, <1>7, <1>8 DEF Environment, DelayElapses
<1>13. CASE UNCHANGED vars
  BY <1>13, <1>a DEF vars
<1> QED
  BY <1>9, <1>10, <1>11, <1>12, <1>13 DEF Next

\* Whatever clients ask for, the manager treats every attempt as Attempt
\* allows: it begins one that is nowhere else, stops only what start_attempt has
\* returned, and serves again only when the guardians of its predecessor are done.
THEOREM AttemptsLive == \A a \in Attempts : Spec => Life(a)!Spec
<1> SUFFICES ASSUME NEW a \in Attempts PROVE Spec => Life(a)!Spec
  OBVIOUS
<1>1. Init => Life(a)!Init
  BY DEF Init, Life!Init, NoProc
<1>2. IInv /\ StartsApart /\ [Next]_vars => [Life(a)!Next]_(Life(a)!vars)
  BY StepLife
<1> QED
  BY <1>1, <1>2, InvariantCorrect, InitStartsApart, StepStartsApart, PTL
     DEF Spec, Life!Spec
==============================================================================
