-------------------------- MODULE SshAttemptProofs ---------------------------
(***************************************************************************)
(* Theorems about one attempt, for all timeouts that fit together: what is *)
(* left when a call returns, that the daemon's patience outlasts what the  *)
(* guardian may still have to do, and that it is an Attempt.               *)
(***************************************************************************)
EXTENDS SshAttempt, TLAPS

\* How far the daemon is tells how far the guardian can be.
Stages ==
    /\ daemon \in {"idle", "made", "refused"} => guardian = "none"
    /\ guardian = "none" => daemon \in {"idle", "made", "refused", "failed", "dead"}
    /\ daemon \in {"waiting", "active", "stopping", "stopped", "stop_failed"} => sent
    /\ daemon = "failing" => sent \/ GuardianEnded
    /\ daemon \in {"idle", "made", "spawned"} => ~sent
    /\ ~sent => guardian \in {"none", "reading", "ended_bad", "killed"}
    /\ daemon \in {"active", "stopping", "stopped"} => report = "accepted"
    /\ daemon = "failing" => report # "accepted"
    /\ daemon \in {"stopped", "stop_failed"} => GuardianEnded
    /\ daemon = "failed" =>
          guardian \in {"none", "reporting", "joining", "ended_ok", "ended_bad", "killed"}

\* What has been reported, and what the guardian is about to report or why it
\* ends ssh.
Reports ==
    /\ report = "accepted" =>
          guardian \in {"watching", "terminating", "joining", "ended_ok", "killed"}
    /\ report = "rejected" => guardian = "ended_bad"
    /\ report # "none" => sent
    /\ guardian = "watching" => report = "accepted"
    /\ guardian = "reporting" => purpose \in {"accepted", "rejected"}
    /\ guardian \in {"terminating", "joining"} =>
          purpose \in IF report = "accepted" THEN {"stop", "exit"} ELSE {"rejected", "unsent"}
    /\ guardian = "terminating" /\ report = "accepted" => LeaseClosed

MasterEnded ==
    /\ guardian \in {"none", "reading", "joining", "ended_ok", "ended_bad"} => ~MasterRuns
    /\ guardian = "reporting" /\ purpose = "rejected" => ~MasterRuns
    /\ daemon = "failed" /\ guardian = "reporting" => purpose = "rejected"
    /\ daemon \in {"stopped", "stop_failed"} => ~MasterRuns

DirectoryRemoved ==
    /\ guardian = "ended_ok" => ~dir
    /\ guardian = "ended_bad" /\ sent => ~dir
    /\ daemon \in {"failed", "stopped", "stop_failed"} => ~dir

\* The startup deadline is missed by no more than the calls under way.
Deadlines ==
    /\ guardian = "polling" => left.startup >= 0
    /\ guardian = "checking" => left.call <= left.startup + Control
    /\ guardian = "forwarding" => left.call <= left.startup + 2 * Control

\* What the daemon still waits, and what the guardian still needs at most
\* until its master has ended.
Patience == left.daemon + (IF daemon = "waiting" THEN CleanupTimeout ELSE 0)

Awaited == daemon \in {"failing", "stopping"} \/ (daemon = "waiting" /\ report = "none")

PatienceOutlasts ==
    Awaited =>
        /\ guardian = "reading" /\ sent => Startup + 2 * Control + Grace < Patience
        /\ guardian \in {"polling", "checking"} =>
              left.startup + 2 * Control + Grace < Patience
        /\ guardian = "forwarding" => left.call + Grace < Patience
        /\ guardian \in {"confirming", "watching"} => Grace < Patience
        /\ guardian = "reporting" /\ purpose = "accepted" => Grace < Patience
        /\ guardian = "terminating" => left.grace < Patience

IInv ==
    /\ TypeOK
    /\ Stages
    /\ Reports
    /\ MasterEnded
    /\ DirectoryRemoved
    /\ Deadlines
    /\ PatienceOutlasts

-----------------------------------------------------------------------------

Times ==
    [daemon : 0 .. ReportTimeout, startup : -(2 * Control) .. Startup,
     call : 0 .. Control, grace : 0 .. Grace]

LEMMA TerminateTimes ==
    ASSUME left \in Times, NEW p, Terminate(p)
    PROVE  left' \in Times
  <1>1. left' = [daemon |-> left.daemon, startup |-> 0, call |-> 0, grace |-> Grace]
    BY DEF Times, Terminate
  <1> QED
    BY <1>1, TimeAssumption DEF Times

LEMMA InitIInv == Init => IInv
  <1> SUFFICES ASSUME Init PROVE IInv
    OBVIOUS
  <1>1. TypeOK
    <2>1. sent \in BOOLEAN /\ dir \in BOOLEAN
      BY Zenon DEF Init
    <2>2. left \in Times
      BY TimeAssumption DEF Init, Times, NoTime, ReportTimeout
    <2> QED
      BY <2>1, <2>2 DEF Init, TypeOK, Times
  <1> QED
    BY <1>1 DEF Init, IInv, Stages, Reports, MasterEnded, DirectoryRemoved, Deadlines,
                PatienceOutlasts, Awaited, MasterRuns

\* The deadlines stay within the timeouts, the startup time exceeded by two calls.
LEMMA NextTypeOK == IInv /\ [Next]_vars => TypeOK'
  <1> SUFFICES ASSUME IInv, [Next]_vars PROVE TypeOK'
    OBVIOUS
  <1> USE TimeAssumption, HelperAssumption
      DEF IInv, TypeOK, Returned, NoTime, ReportTimeout, CleanupTimeout, Deadlines
  <1>1. CASE MakeDirectory
    BY <1>1 DEF MakeDirectory
  <1>2. CASE Refuse
    BY <1>2 DEF Refuse
  <1>3. CASE GuardianSpawnFails
    <2>1. dir' \in BOOLEAN
      BY <1>3, Zenon DEF GuardianSpawnFails
    <2> QED
      BY <1>3, <2>1 DEF GuardianSpawnFails
  <1>4. CASE SpawnGuardian
    BY <1>4 DEF SpawnGuardian
  <1>5. CASE SendSpec
    BY <1>5 DEF SendSpec
  <1>6. CASE ReadAcceptance
    BY <1>6 DEF ReadAcceptance
  <1>7. CASE GiveUp
    BY <1>7 DEF GiveUp
  <1>8. CASE ReturnError
    <2>1. left' \in Times
      BY <1>8 DEF ReturnError, Times
    <2>2. dir' \in BOOLEAN
      BY <1>8, Zenon DEF ReturnError
    <2> QED
      BY <1>8, <2>1, <2>2 DEF ReturnError, Times
  <1>9. CASE Collect
    BY <1>9 DEF Collect, BeginCleanup
  <1>10. CASE CleanupSucceeds
    BY <1>10 DEF CleanupSucceeds
  <1>11. CASE ForceCleanup
    <2>1. left' \in Times
      BY <1>11 DEF ForceCleanup, Times
    <2>2. dir' \in BOOLEAN
      BY <1>11, Zenon DEF ForceCleanup
    <2> QED
      BY <1>11, <2>1, <2>2 DEF ForceCleanup, Times, KillGroup, MasterRuns, HelperRuns,
                              GuardianRuns
  <1>12. CASE ReadSpec
    BY <1>12 DEF ReadSpec
  <1>13. CASE SshSpawnFails
    BY <1>13 DEF SshSpawnFails
  <1>14. CASE SpecMissing
    BY <1>14 DEF SpecMissing
  <1>15. CASE WriteReport
    <2>1. dir' \in BOOLEAN
      BY <1>15, Zenon DEF WriteReport
    <2> QED
      BY <1>15, <2>1 DEF WriteReport, Reports
  <1>16. CASE WriteReportFails
    <2>1. left' \in Times
      BY <1>16, TerminateTimes DEF WriteReportFails, Times
    <2>2. dir' \in BOOLEAN
      BY <1>16, Zenon DEF WriteReportFails
    <2> QED
      BY <1>16, <2>1, <2>2 DEF WriteReportFails, Times, Terminate
  <1>17. CASE LeaseEnds
    <2>1. left' \in Times
      BY <1>17, TerminateTimes DEF LeaseEnds, Times
    <2> QED
      BY <1>17, <2>1 DEF LeaseEnds, Times, Terminate
  <1>18. CASE MasterEndSeen
    BY <1>18 DEF MasterEndSeen
  <1>19. CASE MasterEndsEarly
    BY <1>19 DEF MasterEndsEarly
  <1>20. CASE CheckSucceeds
    BY <1>20 DEF CheckSucceeds
  <1>21. CASE CheckFails
    <2>1. left' \in Times
      BY <1>21, TerminateTimes DEF CheckFails, Times
    <2> QED
      BY <1>21, <2>1 DEF CheckFails, Times, Terminate
  <1>22. CASE ForwardAccepted
    BY <1>22 DEF ForwardAccepted
  <1>23. CASE ForwardFails
    <2>1. left' \in Times
      BY <1>23, TerminateTimes DEF ForwardFails, Times
    <2> QED
      BY <1>23, <2>1 DEF ForwardFails, Times, Terminate
  <1>24. CASE ConfirmMaster
    BY <1>24 DEF ConfirmMaster
  <1>25. CASE LeaderEnds
    BY <1>25 DEF LeaderEnds
  <1>26. CASE KillAfterGrace
    BY <1>26 DEF KillAfterGrace, KillGroup, MasterRuns, HelperRuns
  <1>27. CASE JoinStderr
    <2>1. dir' \in BOOLEAN
      BY <1>27, Zenon DEF JoinStderr
    <2> QED
      BY <1>27, <2>1 DEF JoinStderr
  <1>28. CASE BeginCleanup
    BY <1>28 DEF BeginCleanup
  <1>29. CASE DaemonKilled
    BY <1>29 DEF DaemonKilled
  <1>30. CASE GuardianKilled
    BY <1>30 DEF GuardianKilled
  <1>31. CASE CheckHangs
    BY <1>31 DEF CheckHangs
  <1>32. CASE MasterReady \/ MasterExits \/ HelperExits
    BY <1>32 DEF MasterReady, MasterExits, HelperExits, MasterRuns, HelperRuns
  <1>33. CASE Tick
    BY <1>33 DEF Tick, DaemonActs, GuardianActs, GuardianEnded, LeaseClosed
  <1>34. CASE UNCHANGED vars
    BY <1>34 DEF vars
  <1> QED
    BY <1>1, <1>2, <1>3, <1>4, <1>5, <1>6, <1>7, <1>8, <1>9, <1>10, <1>11, <1>12,
       <1>13, <1>14, <1>15, <1>16, <1>17, <1>18, <1>19, <1>20, <1>21, <1>22, <1>23, <1>24,
       <1>25, <1>26, <1>27, <1>28, <1>29, <1>30, <1>31, <1>32, <1>33, <1>34
       DEF Next, DaemonStep, GuardianStep, Environment

\* No call returns before the guardian has got far enough.
LEMMA NextStages == IInv /\ [Next]_vars => Stages'
  <1> SUFFICES ASSUME IInv, [Next]_vars PROVE Stages'
    OBVIOUS
  <1> USE TimeAssumption
      DEF IInv, TypeOK, Stages, Reports, Returned, LeaseClosed, GuardianEnded, GuardianRuns
  <1>1. CASE MakeDirectory
    BY <1>1 DEF MakeDirectory
  <1>2. CASE Refuse
    BY <1>2 DEF Refuse
  <1>3. CASE GuardianSpawnFails
    BY <1>3 DEF GuardianSpawnFails
  <1>4. CASE SpawnGuardian
    BY <1>4 DEF SpawnGuardian
  <1>5. CASE SendSpec
    BY <1>5 DEF SendSpec
  <1>6. CASE ReadAcceptance
    BY <1>6 DEF ReadAcceptance
  <1>7. CASE GiveUp
    <2>1. CASE daemon = "waiting"
      BY <1>7, <2>1 DEF GiveUp
    <2>2. CASE daemon = "spawned"
      BY <1>7, <2>2 DEF GiveUp
    <2> QED
      BY <1>7, <2>1, <2>2 DEF GiveUp
  <1>8. CASE ReturnError
    BY <1>8 DEF ReturnError, PatienceOutlasts, Awaited, Patience, MasterEnded
  <1>9. CASE Collect
    BY <1>9 DEF Collect, BeginCleanup
  <1>10. CASE CleanupSucceeds
    BY <1>10 DEF CleanupSucceeds
  <1>11. CASE ForceCleanup
    BY <1>11 DEF ForceCleanup, KillGroup, MasterRuns, HelperRuns
  <1>12. CASE ReadSpec
    BY <1>12 DEF ReadSpec
  <1>13. CASE SshSpawnFails
    BY <1>13 DEF SshSpawnFails
  <1>14. CASE SpecMissing
    BY <1>14 DEF SpecMissing
  <1>15. CASE WriteReport
    BY <1>15 DEF WriteReport
  <1>16. CASE WriteReportFails
    <2>1. CASE purpose = "accepted"
      BY <1>16, <2>1 DEF WriteReportFails, Terminate, MasterEnded
    <2>2. CASE purpose # "accepted"
      BY <1>16, <2>2 DEF WriteReportFails
    <2> QED
      BY <2>1, <2>2
  <1>17. CASE LeaseEnds
    BY <1>17 DEF LeaseEnds, Terminate
  <1>18. CASE MasterEndSeen
    BY <1>18 DEF MasterEndSeen
  <1>19. CASE MasterEndsEarly
    BY <1>19 DEF MasterEndsEarly
  <1>20. CASE CheckSucceeds
    BY <1>20 DEF CheckSucceeds
  <1>21. CASE CheckFails
    BY <1>21 DEF CheckFails, Terminate
  <1>22. CASE ForwardAccepted
    BY <1>22 DEF ForwardAccepted
  <1>23. CASE ForwardFails
    BY <1>23 DEF ForwardFails, Terminate
  <1>24. CASE ConfirmMaster
    BY <1>24 DEF ConfirmMaster
  <1>25. CASE LeaderEnds
    BY <1>25 DEF LeaderEnds
  <1>26. CASE KillAfterGrace
    BY <1>26 DEF KillAfterGrace, KillGroup, MasterRuns, HelperRuns
  <1>27. CASE JoinStderr
    BY <1>27 DEF JoinStderr
  <1>28. CASE BeginCleanup
    BY <1>28 DEF BeginCleanup
  <1>29. CASE DaemonKilled
    BY <1>29 DEF DaemonKilled
  <1>30. CASE GuardianKilled
    BY <1>30 DEF GuardianKilled
  <1>31. CASE CheckHangs
    BY <1>31 DEF CheckHangs
  <1>32. CASE MasterReady \/ MasterExits \/ HelperExits
    BY <1>32 DEF MasterReady, MasterExits, HelperExits, MasterRuns, HelperRuns
  <1>33. CASE Tick
    BY <1>33 DEF Tick, DaemonActs, GuardianActs
  <1>34. CASE UNCHANGED vars
    BY <1>34 DEF vars
  <1> QED
    BY <1>1, <1>2, <1>3, <1>4, <1>5, <1>6, <1>7, <1>8, <1>9, <1>10, <1>11, <1>12,
       <1>13, <1>14, <1>15, <1>16, <1>17, <1>18, <1>19, <1>20, <1>21, <1>22, <1>23, <1>24,
       <1>25, <1>26, <1>27, <1>28, <1>29, <1>30, <1>31, <1>32, <1>33, <1>34
       DEF Next, DaemonStep, GuardianStep, Environment

\* The guardian reports once and knows why it ends ssh.
LEMMA NextReports == IInv /\ [Next]_vars => Reports'
  <1> SUFFICES ASSUME IInv, [Next]_vars PROVE Reports'
    OBVIOUS
  <1> USE DEF IInv, TypeOK, Stages, Reports, Returned, LeaseClosed, GuardianEnded, GuardianRuns
  <1>1. CASE MakeDirectory
    BY <1>1 DEF MakeDirectory
  <1>2. CASE Refuse
    BY <1>2 DEF Refuse
  <1>3. CASE GuardianSpawnFails
    BY <1>3 DEF GuardianSpawnFails
  <1>4. CASE SpawnGuardian
    BY <1>4 DEF SpawnGuardian
  <1>5. CASE SendSpec
    BY <1>5 DEF SendSpec
  <1>6. CASE ReadAcceptance
    BY <1>6 DEF ReadAcceptance
  <1>7. CASE GiveUp
    BY <1>7 DEF GiveUp
  <1>8. CASE ReturnError
    BY <1>8 DEF ReturnError
  <1>9. CASE Collect
    BY <1>9 DEF Collect, BeginCleanup
  <1>10. CASE CleanupSucceeds
    BY <1>10 DEF CleanupSucceeds
  <1>11. CASE ForceCleanup
    BY <1>11 DEF ForceCleanup, KillGroup, MasterRuns, HelperRuns
  <1>12. CASE ReadSpec
    BY <1>12 DEF ReadSpec
  <1>13. CASE SshSpawnFails
    BY <1>13 DEF SshSpawnFails
  <1>14. CASE SpecMissing
    BY <1>14 DEF SpecMissing
  <1>15. CASE WriteReport
    BY <1>15 DEF WriteReport
  <1>16. CASE WriteReportFails
    BY <1>16 DEF WriteReportFails, Terminate
  <1>17. CASE LeaseEnds
    BY <1>17 DEF LeaseEnds, Terminate
  <1>18. CASE MasterEndSeen
    BY <1>18 DEF MasterEndSeen
  <1>19. CASE MasterEndsEarly
    BY <1>19 DEF MasterEndsEarly
  <1>20. CASE CheckSucceeds
    BY <1>20 DEF CheckSucceeds
  <1>21. CASE CheckFails
    BY <1>21 DEF CheckFails, Terminate
  <1>22. CASE ForwardAccepted
    BY <1>22 DEF ForwardAccepted
  <1>23. CASE ForwardFails
    BY <1>23 DEF ForwardFails, Terminate
  <1>24. CASE ConfirmMaster
    BY <1>24 DEF ConfirmMaster
  <1>25. CASE LeaderEnds
    BY <1>25 DEF LeaderEnds
  <1>26. CASE KillAfterGrace
    BY <1>26 DEF KillAfterGrace, KillGroup, MasterRuns, HelperRuns
  <1>27. CASE JoinStderr
    BY <1>27 DEF JoinStderr
  <1>28. CASE BeginCleanup
    BY <1>28 DEF BeginCleanup
  <1>29. CASE DaemonKilled
    BY <1>29 DEF DaemonKilled
  <1>30. CASE GuardianKilled
    BY <1>30 DEF GuardianKilled
  <1>31. CASE CheckHangs
    BY <1>31 DEF CheckHangs
  <1>32. CASE MasterReady \/ MasterExits \/ HelperExits
    BY <1>32 DEF MasterReady, MasterExits, HelperExits, MasterRuns, HelperRuns
  <1>33. CASE Tick
    BY <1>33 DEF Tick, DaemonActs, GuardianActs
  <1>34. CASE UNCHANGED vars
    BY <1>34 DEF vars
  <1> QED
    BY <1>1, <1>2, <1>3, <1>4, <1>5, <1>6, <1>7, <1>8, <1>9, <1>10, <1>11, <1>12,
       <1>13, <1>14, <1>15, <1>16, <1>17, <1>18, <1>19, <1>20, <1>21, <1>22, <1>23, <1>24,
       <1>25, <1>26, <1>27, <1>28, <1>29, <1>30, <1>31, <1>32, <1>33, <1>34
       DEF Next, DaemonStep, GuardianStep, Environment

\* Every way to the end of the guardian, or past it, ends the master first.
LEMMA NextMasterEnded == IInv /\ [Next]_vars => MasterEnded'
  <1> SUFFICES ASSUME IInv, [Next]_vars PROVE MasterEnded'
    OBVIOUS
  <1> USE TimeAssumption
      DEF IInv, TypeOK, Stages, Reports, MasterEnded, MasterRuns, GuardianEnded, GuardianRuns
  <1>1. CASE MakeDirectory
    BY <1>1 DEF MakeDirectory
  <1>2. CASE Refuse
    BY <1>2 DEF Refuse
  <1>3. CASE GuardianSpawnFails
    BY <1>3 DEF GuardianSpawnFails
  <1>4. CASE SpawnGuardian
    BY <1>4 DEF SpawnGuardian
  <1>5. CASE SendSpec
    BY <1>5 DEF SendSpec
  <1>6. CASE ReadAcceptance
    BY <1>6 DEF ReadAcceptance
  <1>7. CASE GiveUp
    BY <1>7 DEF GiveUp
  <1>8. CASE ReturnError
    BY <1>8 DEF ReturnError, PatienceOutlasts, Awaited, Patience
  <1>9. CASE Collect
    BY <1>9 DEF Collect, BeginCleanup
  <1>10. CASE CleanupSucceeds
    BY <1>10 DEF CleanupSucceeds
  <1>11. CASE ForceCleanup
    BY <1>11 DEF ForceCleanup, KillGroup, HelperRuns
  <1>12. CASE ReadSpec
    BY <1>12 DEF ReadSpec
  <1>13. CASE SshSpawnFails
    BY <1>13 DEF SshSpawnFails
  <1>14. CASE SpecMissing
    BY <1>14 DEF SpecMissing
  <1>15. CASE WriteReport
    BY <1>15 DEF WriteReport
  <1>16. CASE WriteReportFails
    BY <1>16 DEF WriteReportFails, Terminate
  <1>17. CASE LeaseEnds
    BY <1>17 DEF LeaseEnds, Terminate
  <1>18. CASE MasterEndSeen
    BY <1>18 DEF MasterEndSeen
  <1>19. CASE MasterEndsEarly
    BY <1>19 DEF MasterEndsEarly
  <1>20. CASE CheckSucceeds
    BY <1>20 DEF CheckSucceeds
  <1>21. CASE CheckFails
    BY <1>21 DEF CheckFails, Terminate
  <1>22. CASE ForwardAccepted
    BY <1>22 DEF ForwardAccepted
  <1>23. CASE ForwardFails
    BY <1>23 DEF ForwardFails, Terminate
  <1>24. CASE ConfirmMaster
    BY <1>24 DEF ConfirmMaster
  <1>25. CASE LeaderEnds
    BY <1>25 DEF LeaderEnds
  <1>26. CASE KillAfterGrace
    BY <1>26 DEF KillAfterGrace, KillGroup, HelperRuns
  <1>27. CASE JoinStderr
    BY <1>27 DEF JoinStderr
  <1>28. CASE BeginCleanup
    BY <1>28 DEF BeginCleanup
  <1>29. CASE DaemonKilled
    BY <1>29 DEF DaemonKilled
  <1>30. CASE GuardianKilled
    BY <1>30 DEF GuardianKilled
  <1>31. CASE CheckHangs
    BY <1>31 DEF CheckHangs
  <1>32. CASE MasterReady \/ MasterExits \/ HelperExits
    BY <1>32 DEF MasterReady, MasterExits, HelperExits, HelperRuns
  <1>33. CASE Tick
    BY <1>33 DEF Tick, DaemonActs, GuardianActs
  <1>34. CASE UNCHANGED vars
    BY <1>34 DEF vars
  <1> QED
    BY <1>1, <1>2, <1>3, <1>4, <1>5, <1>6, <1>7, <1>8, <1>9, <1>10, <1>11, <1>12,
       <1>13, <1>14, <1>15, <1>16, <1>17, <1>18, <1>19, <1>20, <1>21, <1>22, <1>23, <1>24,
       <1>25, <1>26, <1>27, <1>28, <1>29, <1>30, <1>31, <1>32, <1>33, <1>34
       DEF Next, DaemonStep, GuardianStep, Environment

\* Whoever ends an attempt removes its directory.
LEMMA NextDirectoryRemoved == IInv /\ [Next]_vars => DirectoryRemoved'
  <1> SUFFICES ASSUME IInv, [Next]_vars PROVE DirectoryRemoved'
    OBVIOUS
  <1> USE DEF IInv, TypeOK, Stages, Reports, DirectoryRemoved, GuardianEnded, GuardianRuns
  <1>1. CASE MakeDirectory
    BY <1>1 DEF MakeDirectory
  <1>2. CASE Refuse
    BY <1>2 DEF Refuse
  <1>3. CASE GuardianSpawnFails
    BY <1>3 DEF GuardianSpawnFails
  <1>4. CASE SpawnGuardian
    BY <1>4 DEF SpawnGuardian
  <1>5. CASE SendSpec
    BY <1>5 DEF SendSpec
  <1>6. CASE ReadAcceptance
    BY <1>6 DEF ReadAcceptance
  <1>7. CASE GiveUp
    BY <1>7 DEF GiveUp
  <1>8. CASE ReturnError
    BY <1>8 DEF ReturnError
  <1>9. CASE Collect
    BY <1>9 DEF Collect, BeginCleanup
  <1>10. CASE CleanupSucceeds
    BY <1>10 DEF CleanupSucceeds
  <1>11. CASE ForceCleanup
    BY <1>11 DEF ForceCleanup, KillGroup, MasterRuns, HelperRuns
  <1>12. CASE ReadSpec
    BY <1>12 DEF ReadSpec
  <1>13. CASE SshSpawnFails
    BY <1>13 DEF SshSpawnFails
  <1>14. CASE SpecMissing
    BY <1>14 DEF SpecMissing
  <1>15. CASE WriteReport
    BY <1>15 DEF WriteReport
  <1>16. CASE WriteReportFails
    BY <1>16 DEF WriteReportFails, Terminate
  <1>17. CASE LeaseEnds
    BY <1>17 DEF LeaseEnds, Terminate
  <1>18. CASE MasterEndSeen
    BY <1>18 DEF MasterEndSeen
  <1>19. CASE MasterEndsEarly
    BY <1>19 DEF MasterEndsEarly
  <1>20. CASE CheckSucceeds
    BY <1>20 DEF CheckSucceeds
  <1>21. CASE CheckFails
    BY <1>21 DEF CheckFails, Terminate
  <1>22. CASE ForwardAccepted
    BY <1>22 DEF ForwardAccepted
  <1>23. CASE ForwardFails
    BY <1>23 DEF ForwardFails, Terminate
  <1>24. CASE ConfirmMaster
    BY <1>24 DEF ConfirmMaster
  <1>25. CASE LeaderEnds
    BY <1>25 DEF LeaderEnds
  <1>26. CASE KillAfterGrace
    BY <1>26 DEF KillAfterGrace, KillGroup, MasterRuns, HelperRuns
  <1>27. CASE JoinStderr
    BY <1>27 DEF JoinStderr
  <1>28. CASE BeginCleanup
    BY <1>28 DEF BeginCleanup
  <1>29. CASE DaemonKilled
    BY <1>29 DEF DaemonKilled
  <1>30. CASE GuardianKilled
    BY <1>30 DEF GuardianKilled
  <1>31. CASE CheckHangs
    BY <1>31 DEF CheckHangs
  <1>32. CASE MasterReady \/ MasterExits \/ HelperExits
    BY <1>32 DEF MasterReady, MasterExits, HelperExits, MasterRuns, HelperRuns
  <1>33. CASE Tick
    BY <1>33 DEF Tick, DaemonActs, GuardianActs
  <1>34. CASE UNCHANGED vars
    BY <1>34 DEF vars
  <1> QED
    BY <1>1, <1>2, <1>3, <1>4, <1>5, <1>6, <1>7, <1>8, <1>9, <1>10, <1>11, <1>12,
       <1>13, <1>14, <1>15, <1>16, <1>17, <1>18, <1>19, <1>20, <1>21, <1>22, <1>23, <1>24,
       <1>25, <1>26, <1>27, <1>28, <1>29, <1>30, <1>31, <1>32, <1>33, <1>34
       DEF Next, DaemonStep, GuardianStep, Environment

\* A call that begins in time ends at most its own length too late.
LEMMA NextDeadlines == IInv /\ [Next]_vars => Deadlines'
  <1> SUFFICES ASSUME IInv, [Next]_vars PROVE Deadlines'
    OBVIOUS
  <1> USE TimeAssumption
      DEF IInv, TypeOK, Deadlines, NoTime
  <1>1. CASE MakeDirectory
    BY <1>1 DEF MakeDirectory
  <1>2. CASE Refuse
    BY <1>2 DEF Refuse
  <1>3. CASE GuardianSpawnFails
    BY <1>3 DEF GuardianSpawnFails
  <1>4. CASE SpawnGuardian
    BY <1>4 DEF SpawnGuardian
  <1>5. CASE SendSpec
    BY <1>5 DEF SendSpec
  <1>6. CASE ReadAcceptance
    BY <1>6 DEF ReadAcceptance
  <1>7. CASE GiveUp
    BY <1>7 DEF GiveUp
  <1>8. CASE ReturnError
    BY <1>8 DEF ReturnError
  <1>9. CASE Collect
    BY <1>9 DEF Collect, BeginCleanup
  <1>10. CASE CleanupSucceeds
    BY <1>10 DEF CleanupSucceeds
  <1>11. CASE ForceCleanup
    BY <1>11 DEF ForceCleanup, KillGroup, MasterRuns, HelperRuns
  <1>12. CASE ReadSpec
    BY <1>12 DEF ReadSpec
  <1>13. CASE SshSpawnFails
    BY <1>13 DEF SshSpawnFails
  <1>14. CASE SpecMissing
    BY <1>14 DEF SpecMissing
  <1>15. CASE WriteReport
    BY <1>15 DEF WriteReport
  <1>16. CASE WriteReportFails
    BY <1>16 DEF WriteReportFails, Terminate
  <1>17. CASE LeaseEnds
    BY <1>17 DEF LeaseEnds, Terminate
  <1>18. CASE MasterEndSeen
    BY <1>18 DEF MasterEndSeen
  <1>19. CASE MasterEndsEarly
    BY <1>19 DEF MasterEndsEarly
  <1>20. CASE CheckSucceeds
    BY <1>20 DEF CheckSucceeds
  <1>21. CASE CheckFails
    BY <1>21 DEF CheckFails, Terminate
  <1>22. CASE ForwardAccepted
    BY <1>22 DEF ForwardAccepted
  <1>23. CASE ForwardFails
    BY <1>23 DEF ForwardFails, Terminate
  <1>24. CASE ConfirmMaster
    BY <1>24 DEF ConfirmMaster
  <1>25. CASE LeaderEnds
    BY <1>25 DEF LeaderEnds
  <1>26. CASE KillAfterGrace
    BY <1>26 DEF KillAfterGrace, KillGroup, MasterRuns, HelperRuns
  <1>27. CASE JoinStderr
    BY <1>27 DEF JoinStderr
  <1>28. CASE BeginCleanup
    BY <1>28 DEF BeginCleanup
  <1>29. CASE DaemonKilled
    BY <1>29 DEF DaemonKilled
  <1>30. CASE GuardianKilled
    BY <1>30 DEF GuardianKilled
  <1>31. CASE CheckHangs
    BY <1>31 DEF CheckHangs
  <1>32. CASE MasterReady \/ MasterExits \/ HelperExits
    BY <1>32 DEF MasterReady, MasterExits, HelperExits, MasterRuns, HelperRuns
  <1>33. CASE Tick
    BY <1>33 DEF Tick, DaemonActs, GuardianActs, LeaseClosed, GuardianEnded
  <1>34. CASE UNCHANGED vars
    BY <1>34 DEF vars
  <1> QED
    BY <1>1, <1>2, <1>3, <1>4, <1>5, <1>6, <1>7, <1>8, <1>9, <1>10, <1>11, <1>12,
       <1>13, <1>14, <1>15, <1>16, <1>17, <1>18, <1>19, <1>20, <1>21, <1>22, <1>23, <1>24,
       <1>25, <1>26, <1>27, <1>28, <1>29, <1>30, <1>31, <1>32, <1>33, <1>34
       DEF Next, DaemonStep, GuardianStep, Environment

\* Time passes for both sides alike, and each stage needs no more than is left of
\* the stages before it.
LEMMA NextPatienceOutlasts == IInv /\ [Next]_vars => PatienceOutlasts'
  <1> SUFFICES ASSUME IInv, [Next]_vars PROVE PatienceOutlasts'
    OBVIOUS
  <1> USE TimeAssumption, TimeoutsFit
      DEF IInv, TypeOK, Stages, Reports, Deadlines, PatienceOutlasts, Awaited, Patience, NoTime,
               Returned, LeaseClosed, GuardianEnded, GuardianRuns, ReportTimeout, CleanupTimeout
  <1>1. CASE MakeDirectory
    BY <1>1 DEF MakeDirectory
  <1>2. CASE Refuse
    BY <1>2 DEF Refuse
  <1>3. CASE GuardianSpawnFails
    BY <1>3 DEF GuardianSpawnFails
  <1>4. CASE SpawnGuardian
    BY <1>4 DEF SpawnGuardian
  <1>5. CASE SendSpec
    BY <1>5 DEF SendSpec
  <1>6. CASE ReadAcceptance
    BY <1>6 DEF ReadAcceptance
  <1>7. CASE GiveUp
    BY <1>7 DEF GiveUp
  <1>8. CASE ReturnError
    BY <1>8 DEF ReturnError
  <1>9. CASE Collect
    BY <1>9 DEF Collect, BeginCleanup
  <1>10. CASE CleanupSucceeds
    BY <1>10 DEF CleanupSucceeds
  <1>11. CASE ForceCleanup
    BY <1>11 DEF ForceCleanup, KillGroup, MasterRuns, HelperRuns
  <1>12. CASE ReadSpec
    BY <1>12 DEF ReadSpec
  <1>13. CASE SshSpawnFails
    BY <1>13 DEF SshSpawnFails
  <1>14. CASE SpecMissing
    BY <1>14 DEF SpecMissing
  <1>15. CASE WriteReport
    BY <1>15 DEF WriteReport
  <1>16. CASE WriteReportFails
    BY <1>16 DEF WriteReportFails, Terminate
  <1>17. CASE LeaseEnds
    BY <1>17 DEF LeaseEnds, Terminate
  <1>18. CASE MasterEndSeen
    BY <1>18 DEF MasterEndSeen
  <1>19. CASE MasterEndsEarly
    BY <1>19 DEF MasterEndsEarly
  <1>20. CASE CheckSucceeds
    BY <1>20 DEF CheckSucceeds
  <1>21. CASE CheckFails
    <2>1. CASE left.startup <= 0
      <3>1. guardian' = "terminating" /\ left'.grace = Grace /\ left'.daemon = left.daemon
        BY <1>21, <2>1 DEF CheckFails, Terminate
      <3> QED
        BY <1>21, <2>1, <3>1 DEF CheckFails
    <2>2. CASE left.startup > 0
      BY <1>21, <2>2 DEF CheckFails
    <2> QED
      BY <2>1, <2>2
  <1>22. CASE ForwardAccepted
    BY <1>22 DEF ForwardAccepted
  <1>23. CASE ForwardFails
    BY <1>23 DEF ForwardFails, Terminate
  <1>24. CASE ConfirmMaster
    BY <1>24 DEF ConfirmMaster
  <1>25. CASE LeaderEnds
    BY <1>25 DEF LeaderEnds, MasterEnded
  <1>26. CASE KillAfterGrace
    BY <1>26 DEF KillAfterGrace, KillGroup, MasterRuns, HelperRuns
  <1>27. CASE JoinStderr
    BY <1>27 DEF JoinStderr
  <1>28. CASE BeginCleanup
    BY <1>28 DEF BeginCleanup
  <1>29. CASE DaemonKilled
    BY <1>29 DEF DaemonKilled
  <1>30. CASE GuardianKilled
    BY <1>30 DEF GuardianKilled
  <1>31. CASE CheckHangs
    BY <1>31 DEF CheckHangs
  <1>32. CASE MasterReady \/ MasterExits \/ HelperExits
    BY <1>32 DEF MasterReady, MasterExits, HelperExits, MasterRuns, HelperRuns
  <1>33. CASE Tick
    BY <1>33 DEF Tick, DaemonActs, GuardianActs
  <1>34. CASE UNCHANGED vars
    BY <1>34 DEF vars
  <1> QED
    BY <1>1, <1>2, <1>3, <1>4, <1>5, <1>6, <1>7, <1>8, <1>9, <1>10, <1>11, <1>12,
       <1>13, <1>14, <1>15, <1>16, <1>17, <1>18, <1>19, <1>20, <1>21, <1>22, <1>23, <1>24,
       <1>25, <1>26, <1>27, <1>28, <1>29, <1>30, <1>31, <1>32, <1>33, <1>34
       DEF Next, DaemonStep, GuardianStep, Environment

-----------------------------------------------------------------------------

LEMMA NextIInv == IInv /\ [Next]_vars => IInv'
BY NextTypeOK, NextStages, NextReports, NextMasterEnded, NextDirectoryRemoved,
   NextDeadlines, NextPatienceOutlasts
   DEF IInv

\* The invariant: the daemon's stage tells the guardian's, and whatever the
\* guardian still has to do takes less time than the daemon still waits.
THEOREM AttemptInvariant == Spec => []IInv
BY InitIInv, NextIInv, PTL DEF Spec

\* Types, and the bounds of all deadlines.
THEOREM AttemptTypes == Spec => []TypeOK
BY AttemptInvariant, PTL DEF IInv

\* No ssh master is left when start_attempt has failed or a stop has returned.
THEOREM AttemptEndedWhenReturned == Spec => []EndedWhenReturned
  <1>1. IInv => EndedWhenReturned
    BY DEF IInv, Stages, MasterEnded, EndedWhenReturned
  <1> QED
    BY AttemptInvariant, <1>1, PTL

\* The lock is held as long as a master runs under its guardian.
THEOREM AttemptLockCoversMaster == Spec => []LockCoversMaster
  <1>1. IInv => LockCoversMaster
    BY DEF IInv, MasterEnded, LockCoversMaster
  <1> QED
    BY AttemptInvariant, <1>1, PTL

\* A failed start and a stop leave no directory.
THEOREM AttemptNothingLeftBehind == Spec => []NothingLeftBehind
  <1>1. IInv => NothingLeftBehind
    BY DEF IInv, DirectoryRemoved, NothingLeftBehind
  <1> QED
    BY AttemptInvariant, <1>1, PTL

\* The daemon kills no guardian that is still stopping its master.
THEOREM AttemptGraceSuffices == Spec => GraceSuffices
  <1>1. ASSUME IInv, [Next]_vars, daemon = "stopping", daemon' = "stop_failed"
        PROVE  guardian \in {"killed", "joining"}
    <2>1. ForceCleanup
      BY <1>1 DEF Next, DaemonStep, GuardianStep, Environment, Tick, vars, MakeDirectory,
                  Refuse, GuardianSpawnFails, SpawnGuardian, SendSpec, ReadAcceptance,
                  GiveUp, ReturnError, Collect, BeginCleanup, CleanupSucceeds, ReadSpec,
                  SshSpawnFails, SpecMissing, WriteReport, WriteReportFails, LeaseEnds,
                  MasterEndSeen, MasterEndsEarly, CheckSucceeds, CheckFails, ForwardAccepted,
                  ForwardFails, ConfirmMaster, LeaderEnds, KillAfterGrace, JoinStderr,
                  DaemonKilled, GuardianKilled, CheckHangs, MasterReady, MasterExits,
                  HelperExits
    <2>2. guardian \in {"watching", "terminating", "joining", "ended_ok", "killed"}
      BY <1>1 DEF IInv, Stages, Reports
    <2>3. CASE guardian = "terminating"
      <3>1. left.daemon = 0
        BY <2>1, <2>3 DEF ForceCleanup
      <3> QED
        BY <1>1, <2>3, <3>1 DEF IInv, TypeOK, PatienceOutlasts, Awaited, Patience
    <2>4. CASE guardian = "watching"
      <3>1. left.daemon = 0
        BY <2>1, <2>4 DEF ForceCleanup
      <3> QED
        BY <1>1, <2>4, <3>1, TimeAssumption
           DEF IInv, PatienceOutlasts, Awaited, Patience
    <2>5. guardian # "ended_ok"
      BY <2>1 DEF ForceCleanup, GuardianRuns
    <2> QED
      BY <2>2, <2>3, <2>4, <2>5
  <1>2. IInv /\ [Next]_vars =>
           [daemon = "stopping" /\ daemon' = "stop_failed" =>
               guardian \in {"killed", "joining"}]_vars
    BY <1>1
  <1> QED
    BY AttemptInvariant, <1>2, PTL DEF Spec, GraceSuffices

-----------------------------------------------------------------------------
\* The refinement of Attempt

LEMMA InitPromise == Init => Promise!Init
BY DEF Init, Promise!Init, Status, Ssh, MasterRuns

\* Where a step leaves the mapped variables alone.
LEMMA PromiseStutters ==
    ASSUME Status' = Status, Ssh' = Ssh, (daemon # "dead")' = (daemon # "dead")
    PROVE  [Promise!Next]_(Promise!vars)
BY DEF Promise!vars

\* A step of the guardian by which it ends: what the daemon holds looks ended
\* now, and what a dead one left is gone.
LEMMA GuardianEndsStep ==
    ASSUME UNCHANGED daemon, GuardianRuns, GuardianEnded', Ssh' = "none", Ssh = "none"
    PROVE  [Promise!Next]_(Promise!vars)
  <1> USE DEF Status
  <1>1. ~GuardianEnded /\ ~GuardianRuns'
    BY DEF GuardianEnded, GuardianRuns
  <1>2. CASE daemon \in {"active", "stopping"}
    <2>1. Promise!Exit
      BY <1>1, <1>2 DEF Promise!Exit
    <2> QED
      BY <2>1 DEF Promise!Next
  <1>3. CASE daemon = "dead"
    <2>1. Promise!Cleanup
      BY <1>1, <1>3 DEF Promise!Cleanup
    <2> QED
      BY <2>1 DEF Promise!Next
  <1>4. CASE daemon \notin {"active", "stopping", "dead"}
    <2>1. Status' = Status
      BY <1>4
    <2> QED
      BY <2>1, PromiseStutters
  <1> QED
    BY <1>2, <1>3, <1>4

\* Each step of the daemon, the guardian and ssh is one of the attempt, or none.
LEMMA StepPromise == IInv /\ IInv' /\ [Next]_vars => [Promise!Next]_(Promise!vars)
  <1> SUFFICES ASSUME IInv, IInv', [Next]_vars PROVE [Promise!Next]_(Promise!vars)
    OBVIOUS
  <1> USE DEF MasterRuns, GuardianRuns, GuardianEnded
  <1>1. CASE MakeDirectory
    <2>1. Promise!Begin
      BY <1>1 DEF MakeDirectory, IInv, Stages, MasterEnded, Promise!Begin, Status, Ssh
    <2> QED
      BY <2>1 DEF Promise!Next
  <1>2. CASE Refuse \/ GuardianSpawnFails
    <2>1. Promise!Fail
      BY <1>2 DEF Refuse, GuardianSpawnFails, Returned, IInv, Stages, MasterEnded,
                  Promise!Fail, Status, Ssh
    <2> QED
      BY <2>1 DEF Promise!Next
  <1>3. CASE SpawnGuardian \/ SendSpec
    <2>1. Ssh' = Ssh
      BY <1>3 DEF SpawnGuardian, SendSpec, IInv, Stages, MasterEnded, Ssh
    <2> QED
      BY <1>3, <2>1, PromiseStutters DEF SpawnGuardian, SendSpec, Status
  <1>4. CASE ReadAcceptance
    <2>1. Promise!Accept
      BY <1>4 DEF ReadAcceptance, IInv, MasterEnded, Promise!Accept, Status, Ssh
    <2> QED
      BY <2>1 DEF Promise!Next
  <1>5. CASE GiveUp
    BY <1>5, PromiseStutters DEF GiveUp, Status, Ssh
  <1>6. CASE ReturnError
    <2>1. Promise!Fail
      BY <1>6 DEF ReturnError, IInv, Stages, MasterEnded, Promise!Fail, Status, Ssh
    <2> QED
      BY <2>1 DEF Promise!Next
  <1>7. CASE Collect \/ BeginCleanup
    BY <1>7, PromiseStutters DEF Collect, BeginCleanup, Status, Ssh
  <1>8. CASE CleanupSucceeds \/ ForceCleanup
    <2>1. Promise!End
      BY <1>8 DEF CleanupSucceeds, ForceCleanup, KillGroup, IInv, MasterEnded,
                  Promise!End, Status, Ssh
    <2> QED
      BY <2>1 DEF Promise!Next
  <1>9. CASE ReadSpec
    <2>1. daemon \in {"waiting", "failing", "dead"}
      BY <1>9 DEF ReadSpec, IInv, TypeOK, Stages, Reports, Returned
    <2>2. Promise!SshBegins
      BY <1>9, <2>1 DEF ReadSpec, IInv, MasterEnded, Promise!SshBegins, Status, Ssh
    <2> QED
      BY <2>2 DEF Promise!Next
  <1>10. CASE SpecMissing
    BY <1>10, GuardianEndsStep DEF SpecMissing, IInv, MasterEnded, Ssh
  <1>11. CASE WriteReport
    <2>1. CASE purpose = "accepted"
      BY <1>11, <2>1, PromiseStutters DEF WriteReport, Status, Ssh
    <2>2. CASE purpose # "accepted"
      BY <1>11, <2>2, GuardianEndsStep DEF WriteReport, IInv, Reports, MasterEnded, Ssh
    <2> QED
      BY <2>1, <2>2
  <1>12. CASE WriteReportFails
    <2>1. CASE purpose = "accepted"
      BY <1>12, <2>1, PromiseStutters DEF WriteReportFails, Terminate, Status, Ssh
    <2>2. CASE purpose # "accepted"
      BY <1>12, <2>2, GuardianEndsStep DEF WriteReportFails, IInv, Reports, MasterEnded, Ssh
    <2> QED
      BY <2>1, <2>2
  <1>13. CASE JoinStderr
    <2>1. CASE purpose = "rejected"
      BY <1>13, <2>1, PromiseStutters DEF JoinStderr, Status, Ssh
    <2>2. CASE purpose # "rejected"
      BY <1>13, <2>2, GuardianEndsStep DEF JoinStderr, IInv, MasterEnded, Ssh
    <2> QED
      BY <2>1, <2>2
  <1>14. CASE SshSpawnFails \/ LeaseEnds \/ MasterEndSeen \/ MasterEndsEarly
              \/ CheckSucceeds \/ CheckFails \/ CheckHangs \/ ForwardAccepted
              \/ ForwardFails \/ ConfirmMaster \/ LeaderEnds
    <2>1. /\ UNCHANGED <<daemon, master>>
          /\ ~GuardianEnded /\ ~GuardianEnded'
          /\ GuardianRuns /\ GuardianRuns'
      BY <1>14 DEF SshSpawnFails, LeaseEnds, MasterEndSeen, MasterEndsEarly, CheckSucceeds,
                   CheckFails, CheckHangs, ForwardAccepted, ForwardFails, ConfirmMaster,
                   LeaderEnds, Terminate
    <2> QED
      BY <2>1, PromiseStutters DEF Status, Ssh
  <1>15. CASE KillAfterGrace
    <2>1. Promise!SshEnds
      BY <1>15 DEF KillAfterGrace, KillGroup, Promise!SshEnds, Status, Ssh
    <2> QED
      BY <2>1 DEF Promise!Next
  <1>16. CASE MasterExits
    <2>1. Promise!SshEnds
      BY <1>16 DEF MasterExits, Promise!SshEnds, Status, Ssh
    <2> QED
      BY <2>1 DEF Promise!Next
  <1>17. CASE MasterReady \/ HelperExits \/ Tick \/ UNCHANGED vars
    BY <1>17, PromiseStutters DEF MasterReady, HelperExits, Tick, vars, Status, Ssh
  <1>18. CASE DaemonKilled
    <2>1. Promise!Crash
      BY <1>18 DEF DaemonKilled, IInv, TypeOK, Stages, MasterEnded, Returned,
                   Promise!Crash, Status, Ssh
    <2> QED
      BY <2>1 DEF Promise!Next
  <1>19. CASE GuardianKilled
    <2>1. CASE MasterRuns
      <3>1. Promise!Orphan
        BY <1>19, <2>1 DEF GuardianKilled, Promise!Orphan, Status, Ssh
      <3> QED
        BY <3>1 DEF Promise!Next
    <2>2. CASE ~MasterRuns
      BY <1>19, <2>2, GuardianEndsStep DEF GuardianKilled, Ssh
    <2> QED
      BY <2>1, <2>2
  <1> QED
    BY <1>1, <1>2, <1>3, <1>4, <1>5, <1>6, <1>7, <1>8, <1>9, <1>10, <1>11, <1>12, <1>13,
       <1>14, <1>15, <1>16, <1>17, <1>18, <1>19
       DEF Next, DaemonStep, GuardianStep, Environment

\* start_attempt, ManagedAttempt and the guardian implement the attempt the
\* manager relies on, for all timeouts and whoever is killed.
THEOREM AttemptKeepsPromise == Spec => KeepsPromise
  <1>1. IInv /\ IInv' /\ [Next]_vars => [Promise!Next]_(Promise!vars)
    BY StepPromise
  <1> QED
    BY AttemptInvariant, InitPromise, <1>1, PTL DEF Spec, KeepsPromise, Promise!Spec
=============================================================================
