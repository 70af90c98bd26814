----------------------------- MODULE SshAttempt ------------------------------
(***************************************************************************)
(* One rule attempt, from start_attempt to the end of its guardian: what   *)
(* src/daemon/process.rs does in the daemon (start_attempt and             *)
(* ManagedAttempt), in the guardian process (run_guardian, guardian_start, *)
(* control, terminate_group) and what the ssh processes may do meanwhile.  *)
(*                                                                         *)
(* The daemon and the guardian share a socket pair, the lease: the         *)
(* daemon writes the specification and the guardian one report, and the    *)
(* guardian takes the end of file of the daemon's end for an order to      *)
(* stop.  Time is discrete: a tick passes only when no process has         *)
(* something to do at once, polling intervals counting as no time.         *)
(***************************************************************************)
EXTENDS Integers

CONSTANTS
    Startup,   \* STARTUP_TIMEOUT
    Control,   \* CONTROL_TIMEOUT
    Grace,     \* STOP_GRACE
    Slack,     \* the two seconds the daemon adds to its own timeouts
    Helpers    \* what the ssh configuration may start: see helper

ASSUME TimeAssumption ==
    /\ Startup \in Nat /\ Control \in Nat /\ Grace \in Nat /\ Slack \in Nat
    /\ Startup > 0 /\ Control > 0 /\ Grace > 0 /\ Slack > 0

\* The daemon waits for a report and then for the guardian's end.  The guardian
\* takes its startup time, two control requests beyond it and a grace period.
ASSUME TimeoutsFit == Control < Grace + 2 * Slack

ASSUME HelperAssumption == Helpers \subseteq {"none", "quiet", "noisy"}

VARIABLES
    daemon,    \* where start_attempt or the ManagedAttempt is
    guardian,  \* where the guardian process is
    purpose,   \* why the guardian stops ssh, or what it is to report
    sent,      \* the specification has been written to the lease
    report,    \* the report written to the lease
    master,    \* the ssh master, the leader of its process group
    helper,    \* another process of that group; a noisy one holds stderr open
    dir,       \* the attempt directory exists
    left       \* time left to each deadline

vars == <<daemon, guardian, purpose, sent, report, master, helper, dir, left>>

-----------------------------------------------------------------------------

NoTime == [daemon |-> 0, startup |-> 0, call |-> 0, grace |-> 0]

\* set_read_timeout of the lease while the report is awaited.
ReportTimeout == Startup + Control + Grace + Slack

CleanupTimeoutTooShort == Slack  \* faulty

\* wait_child's limit when the daemon wants the guardian gone.
CleanupTimeout == Grace + Slack

Returned == {"refused", "failed", "stopped", "stop_failed"}

\* The daemon's end of the lease is closed.
LeaseClosed == daemon \in Returned \cup {"failing", "stopping", "dead"}

GuardianEnded == guardian \in {"ended_ok", "ended_bad", "killed"}

GuardianRuns == guardian \notin {"none", "ended_ok", "ended_bad", "killed"}

MasterRuns == master \in {"connecting", "ready"}

HelperRuns == helper \in {"quiet", "noisy"}

KillGroup ==
    /\ master' = IF MasterRuns THEN "exited" ELSE master
    /\ helper' = IF HelperRuns THEN "none" ELSE helper

-----------------------------------------------------------------------------
\* start_attempt

MakeDirectory ==
    /\ daemon = "idle"
    /\ daemon' = "made"
    /\ dir' = TRUE
    /\ UNCHANGED <<guardian, purpose, sent, report, master, helper, left>>

\* The permissions, the socket path's length, the socket pair or the lock's
\* clone: start_attempt returns at once.
Refuse ==
    /\ daemon = "made"
    /\ daemon' = "refused"
    /\ UNCHANGED <<guardian, purpose, sent, report, master, helper, dir, left>>

GuardianSpawnFails ==
    /\ daemon = "made"
    /\ daemon' = "failed"
    /\ dir' = FALSE
    /\ UNCHANGED <<guardian, purpose, sent, report, master, helper, left>>

SpawnGuardian ==
    /\ daemon = "made"
    /\ daemon' = "spawned"
    /\ guardian' = "reading"
    /\ UNCHANGED <<purpose, sent, report, master, helper, dir, left>>

SendSpec ==
    /\ daemon = "spawned"
    /\ ~GuardianEnded
    /\ sent' = TRUE
    /\ daemon' = "waiting"
    /\ left' = [left EXCEPT !.daemon = ReportTimeout]
    /\ UNCHANGED <<guardian, purpose, report, master, helper, dir>>

ReadAcceptance ==
    /\ daemon = "waiting"
    /\ report = "accepted"
    /\ daemon' = "active"
    /\ left' = [left EXCEPT !.daemon = 0]
    /\ UNCHANGED <<guardian, purpose, sent, report, master, helper, dir>>

\* Faulty: the report is awaited without a timeout.
GiveUpOnReport ==
    /\ \/ daemon = "waiting" /\ report = "rejected"
       \/ daemon = "waiting" /\ report = "none" /\ GuardianEnded
       \/ daemon = "spawned" /\ GuardianEnded
    /\ daemon' = "failing"
    /\ left' = [left EXCEPT !.daemon = CleanupTimeout]
    /\ UNCHANGED <<guardian, purpose, sent, report, master, helper, dir>>

\* A rejection, no report in time, or a guardian that is gone: the lease is
\* dropped and the guardian given time to end.
GiveUp ==
    /\ \/ daemon = "waiting" /\ report = "rejected"
       \/ daemon = "waiting" /\ report = "none" /\ (left.daemon = 0 \/ GuardianEnded)
       \/ daemon = "spawned" /\ GuardianEnded
    /\ daemon' = "failing"
    /\ left' = [left EXCEPT !.daemon = CleanupTimeout]
    /\ UNCHANGED <<guardian, purpose, sent, report, master, helper, dir>>

\* Faulty: the guardian is trusted with the directory.
ReturnErrorOnly ==
    /\ daemon = "failing"
    /\ GuardianEnded \/ left.daemon = 0
    /\ daemon' = "failed"
    /\ left' = [left EXCEPT !.daemon = 0]
    /\ UNCHANGED <<guardian, purpose, sent, report, master, helper, dir>>

\* However wait_child ended, start_attempt removes the directory.
ReturnError ==
    /\ daemon = "failing"
    /\ GuardianEnded \/ left.daemon = 0
    /\ daemon' = "failed"
    /\ dir' = FALSE
    /\ left' = [left EXCEPT !.daemon = 0]
    /\ UNCHANGED <<guardian, purpose, sent, report, master, helper>>

-----------------------------------------------------------------------------
\* ManagedAttempt

\* stop, or the drop of an attempt whose guardian maintain found ended.
BeginCleanup ==
    /\ daemon = "active"
    /\ daemon' = "stopping"
    /\ left' = [left EXCEPT !.daemon = CleanupTimeout]
    /\ UNCHANGED <<guardian, purpose, sent, report, master, helper, dir>>

Collect == GuardianEnded /\ BeginCleanup

CleanupSucceeds ==
    /\ daemon = "stopping"
    /\ guardian = "ended_ok"
    /\ daemon' = "stopped"
    /\ left' = [left EXCEPT !.daemon = 0]
    /\ UNCHANGED <<guardian, purpose, sent, report, master, helper, dir>>

\* Faulty: only the guardian is killed, not the ssh group.
ForceCleanupOfGuardian ==
    /\ daemon = "stopping"
    /\ guardian \in {"ended_bad", "killed"} \/ (GuardianRuns /\ left.daemon = 0)
    /\ guardian' = IF GuardianRuns THEN "killed" ELSE guardian
    /\ daemon' = "stop_failed"
    /\ dir' = FALSE
    /\ left' = NoTime
    /\ UNCHANGED <<purpose, sent, report, master, helper>>

\* wait_child's limit, or a guardian that failed: SIGKILL to the ssh group.
ForceCleanup ==
    /\ daemon = "stopping"
    /\ guardian \in {"ended_bad", "killed"} \/ (GuardianRuns /\ left.daemon = 0)
    /\ KillGroup
    /\ guardian' = IF GuardianRuns THEN "killed" ELSE guardian
    /\ daemon' = "stop_failed"
    /\ dir' = FALSE
    /\ left' = NoTime
    /\ UNCHANGED <<purpose, sent, report>>

\* SIGKILL of the daemon closes its end of the lease.
DaemonKilled ==
    /\ daemon \notin Returned \cup {"dead"}
    /\ daemon' = "dead"
    /\ left' = [left EXCEPT !.daemon = 0]
    /\ UNCHANGED <<guardian, purpose, sent, report, master, helper, dir>>

-----------------------------------------------------------------------------
\* run_guardian

\* The ssh master is started in a process group of its own.
ReadSpec ==
    /\ guardian = "reading"
    /\ sent
    /\ guardian' = "polling"
    /\ master' = "connecting"
    /\ helper' \in Helpers
    /\ left' = [left EXCEPT !.startup = Startup]
    /\ UNCHANGED <<daemon, purpose, sent, report, dir>>

SshSpawnFails ==
    /\ guardian = "reading"
    /\ sent
    /\ guardian' = "reporting"
    /\ purpose' = "rejected"
    /\ UNCHANGED <<daemon, sent, report, master, helper, dir, left>>

\* The daemon died before it wrote the specification.
SpecMissing ==
    /\ guardian = "reading"
    /\ ~sent
    /\ LeaseClosed
    /\ guardian' = "ended_bad"
    /\ UNCHANGED <<daemon, purpose, sent, report, master, helper, dir, left>>

\* The report of an accepted forwarding is followed by the wait for the end.
WriteReport ==
    /\ guardian = "reporting"
    /\ ~LeaseClosed
    /\ report' = purpose
    /\ IF purpose = "accepted"
       THEN guardian' = "watching" /\ UNCHANGED dir
       ELSE guardian' = "ended_bad" /\ dir' = FALSE
    /\ UNCHANGED <<daemon, purpose, sent, master, helper, left>>

\* SIGTERM to the group; the leader has until the grace period ends.
Terminate(p) ==
    /\ guardian' = "terminating"
    /\ purpose' = p
    /\ left' = [left EXCEPT !.startup = 0, !.call = 0, !.grace = Grace]

\* Faulty: the guardian leaves its master when the report cannot be delivered.
WriteReportFailsAndLeaves ==
    /\ guardian = "reporting"
    /\ LeaseClosed
    /\ guardian' = "ended_bad"
    /\ dir' = FALSE
    /\ UNCHANGED <<daemon, purpose, sent, report, master, helper, left>>

\* Nobody reads the report any more.
WriteReportFails ==
    /\ guardian = "reporting"
    /\ LeaseClosed
    /\ IF purpose = "accepted"
       THEN Terminate("unsent") /\ UNCHANGED dir
       ELSE guardian' = "ended_bad" /\ dir' = FALSE /\ UNCHANGED <<purpose, left>>
    /\ UNCHANGED <<daemon, sent, report, master, helper>>

\* Faulty: somebody else inherited the daemon's end of the lease.
LeaseEndsUnlessKilled ==
    /\ guardian = "watching"
    /\ LeaseClosed /\ daemon # "dead"
    /\ Terminate("stop")
    /\ UNCHANGED <<daemon, sent, report, master, helper, dir>>

LeaseEnds ==
    /\ guardian = "watching"
    /\ LeaseClosed
    /\ Terminate("stop")
    /\ UNCHANGED <<daemon, sent, report, master, helper, dir>>

\* Faulty: the loop only watches the lease.
MasterEndSeenWithLease ==
    /\ guardian = "watching"
    /\ master = "exited" /\ LeaseClosed
    /\ guardian' = "joining"
    /\ purpose' = "exit"
    /\ UNCHANGED <<daemon, sent, report, master, helper, dir, left>>

MasterEndSeen ==
    /\ guardian = "watching"
    /\ master = "exited"
    /\ guardian' = "joining"
    /\ purpose' = "exit"
    /\ UNCHANGED <<daemon, sent, report, master, helper, dir, left>>

-----------------------------------------------------------------------------
\* guardian_start: wait for the master to answer, then request the forwarding.

MasterEndsEarly ==
    /\ guardian = "polling"
    /\ master = "exited"
    /\ guardian' = "joining"
    /\ purpose' = "rejected"
    /\ left' = [left EXCEPT !.startup = 0]
    /\ UNCHANGED <<daemon, sent, report, master, helper, dir>>

\* A control request that is not answered at once.
CheckHangs ==
    /\ guardian = "polling"
    /\ MasterRuns
    /\ guardian' = "checking"
    /\ left' = [left EXCEPT !.call = Control]
    /\ UNCHANGED <<daemon, purpose, sent, report, master, helper, dir>>

CheckSucceeds ==
    /\ guardian \in {"polling", "checking"}
    /\ master = "ready"
    /\ guardian' = "forwarding"
    /\ left' = [left EXCEPT !.call = Control]
    /\ UNCHANGED <<daemon, purpose, sent, report, master, helper, dir>>

\* Refused or too late; the startup deadline is looked at only now.
CheckFails ==
    /\ \/ guardian = "checking"
       \/ guardian = "polling" /\ MasterRuns /\ left.startup <= 0
    /\ IF left.startup <= 0
       THEN Terminate("rejected")
       ELSE /\ guardian' = "polling"
            /\ left' = [left EXCEPT !.call = 0]
            /\ UNCHANGED purpose
    /\ UNCHANGED <<daemon, sent, report, master, helper, dir>>

ForwardAccepted ==
    /\ guardian = "forwarding"
    /\ master = "ready"
    /\ guardian' = "confirming"
    /\ left' = [left EXCEPT !.call = 0]
    /\ UNCHANGED <<daemon, purpose, sent, report, master, helper, dir>>

ForwardFails ==
    /\ guardian = "forwarding"
    /\ Terminate("rejected")
    /\ UNCHANGED <<daemon, sent, report, master, helper, dir>>

ConfirmMaster ==
    /\ guardian = "confirming"
    /\ IF MasterRuns
       THEN guardian' = "reporting" /\ purpose' = "accepted"
       ELSE guardian' = "joining" /\ purpose' = "rejected"
    /\ UNCHANGED <<daemon, sent, report, master, helper, dir, left>>

-----------------------------------------------------------------------------
\* terminate_group and the end of the guardian

LeaderEnds ==
    /\ guardian = "terminating"
    /\ master = "exited"
    /\ guardian' = "joining"
    /\ left' = [left EXCEPT !.grace = 0]
    /\ UNCHANGED <<daemon, purpose, sent, report, master, helper, dir>>

\* Faulty: a master that ignores SIGTERM is left alone.
ForgetAfterGrace ==
    /\ guardian = "terminating"
    /\ MasterRuns
    /\ left.grace = 0
    /\ guardian' = "joining"
    /\ UNCHANGED <<daemon, purpose, sent, report, master, helper, dir, left>>

KillAfterGrace ==
    /\ guardian = "terminating"
    /\ MasterRuns
    /\ left.grace = 0
    /\ KillGroup
    /\ guardian' = "joining"
    /\ UNCHANGED <<daemon, purpose, sent, report, dir, left>>

\* stderr_task.join returns when no process holds the write end of stderr.
JoinStderr ==
    /\ guardian = "joining"
    /\ helper # "noisy"
    /\ CASE purpose = "rejected" -> guardian' = "reporting" /\ UNCHANGED dir
         [] purpose = "unsent" -> guardian' = "ended_bad" /\ dir' = FALSE
         [] OTHER -> guardian' = "ended_ok" /\ dir' = FALSE
    /\ UNCHANGED <<daemon, purpose, sent, report, master, helper, left>>

GuardianKilled ==
    /\ GuardianRuns
    /\ guardian' = "killed"
    /\ left' = [NoTime EXCEPT !.daemon = left.daemon]
    /\ UNCHANGED <<daemon, purpose, sent, report, master, helper, dir>>

-----------------------------------------------------------------------------
\* The ssh processes

MasterReady ==
    /\ master = "connecting"
    /\ master' = "ready"
    /\ UNCHANGED <<daemon, guardian, purpose, sent, report, helper, dir, left>>

MasterExits ==
    /\ MasterRuns
    /\ master' = "exited"
    /\ UNCHANGED <<daemon, guardian, purpose, sent, report, helper, dir, left>>

HelperExits ==
    /\ HelperRuns
    /\ helper' = "none"
    /\ UNCHANGED <<daemon, guardian, purpose, sent, report, master, dir, left>>

-----------------------------------------------------------------------------
\* Time

\* Some process is about to act, so no time passes before it has.
DaemonActs ==
    \/ daemon \in {"idle", "made", "spawned"}
    \/ daemon = "waiting" /\ (report # "none" \/ left.daemon = 0 \/ GuardianEnded)
    \/ daemon \in {"failing", "stopping"} /\ (GuardianEnded \/ left.daemon = 0)
    \/ daemon = "active" /\ GuardianEnded

GuardianActs ==
    \/ guardian = "reading" /\ (sent \/ LeaseClosed)
    \/ guardian \in {"reporting", "confirming"}
    \/ guardian = "polling" /\ (master = "exited" \/ left.startup <= 0)
    \/ guardian \in {"checking", "forwarding"} /\ left.call = 0
    \/ guardian = "terminating" /\ (master = "exited" \/ left.grace = 0)
    \/ guardian = "joining" /\ helper # "noisy"
    \/ guardian = "watching" /\ (LeaseClosed \/ master = "exited")

\* startup counts on below zero, for the time a start takes beyond it: the
\* deadline is looked at only after a control request.
Tick ==
    /\ ~DaemonActs
    /\ ~GuardianActs
    /\ left' = [daemon |-> IF left.daemon > 0 THEN left.daemon - 1 ELSE 0,
                startup |-> IF guardian \in {"polling", "checking", "forwarding"}
                            THEN left.startup - 1 ELSE left.startup,
                call |-> IF left.call > 0 THEN left.call - 1 ELSE 0,
                grace |-> IF left.grace > 0 THEN left.grace - 1 ELSE 0]
    /\ left' # left
    /\ UNCHANGED <<daemon, guardian, purpose, sent, report, master, helper, dir>>

-----------------------------------------------------------------------------

Init ==
    /\ daemon = "idle"
    /\ guardian = "none"
    /\ purpose = "none"
    /\ sent = FALSE
    /\ report = "none"
    /\ master = "none"
    /\ helper = "none"
    /\ dir = FALSE
    /\ left = NoTime

DaemonStep ==
    \/ MakeDirectory
    \/ Refuse
    \/ GuardianSpawnFails
    \/ SpawnGuardian
    \/ SendSpec
    \/ ReadAcceptance
    \/ GiveUp
    \/ ReturnError
    \/ Collect
    \/ CleanupSucceeds
    \/ ForceCleanup

GuardianStep ==
    \/ ReadSpec
    \/ SshSpawnFails
    \/ SpecMissing
    \/ WriteReport
    \/ WriteReportFails
    \/ LeaseEnds
    \/ MasterEndSeen
    \/ MasterEndsEarly
    \/ CheckSucceeds
    \/ CheckFails
    \/ ForwardAccepted
    \/ ForwardFails
    \/ ConfirmMaster
    \/ LeaderEnds
    \/ KillAfterGrace
    \/ JoinStderr

Environment ==
    \/ BeginCleanup
    \/ DaemonKilled
    \/ GuardianKilled
    \/ CheckHangs
    \/ MasterReady
    \/ MasterExits
    \/ HelperExits

Next == DaemonStep \/ GuardianStep \/ Environment \/ Tick

Spec == Init /\ [][Next]_vars

\* The processes run and time passes.
Fairness == WF_vars(DaemonStep) /\ WF_vars(GuardianStep) /\ WF_vars(Tick)

FairSpec == Spec /\ Fairness

-----------------------------------------------------------------------------
\* Properties

\* Every variable holds one of the states of start_attempt, run_guardian and
\* the processes, no deadline is further away than its timeout, and a start
\* exceeds its own by no more than two control requests.
TypeOK ==
    /\ daemon \in {"idle", "made", "spawned", "waiting", "failing", "active",
                   "stopping", "dead"} \cup Returned
    /\ guardian \in {"none", "reading", "polling", "checking", "forwarding",
                     "confirming", "reporting", "watching", "terminating",
                     "joining", "ended_ok", "ended_bad", "killed"}
    /\ purpose \in {"none", "accepted", "rejected", "unsent", "stop", "exit"}
    /\ sent \in BOOLEAN
    /\ report \in {"none", "accepted", "rejected"}
    /\ master \in {"none", "connecting", "ready", "exited"}
    /\ helper \in {"none", "quiet", "noisy"}
    /\ dir \in BOOLEAN
    /\ left \in [daemon : 0 .. ReportTimeout, startup : -(2 * Control) .. Startup,
                 call : 0 .. Control, grace : 0 .. Grace]

\* When start_attempt has failed or a stop has returned, no ssh master is left,
\* not even one that ignores SIGTERM or whose acceptance came too late.  Only a
\* guardian killed while it starts takes the master's identity with it.
EndedWhenReturned ==
    daemon \in {"failed", "stopped", "stop_failed"} =>
        ~MasterRuns \/ (daemon = "failed" /\ guardian = "killed")

\* A guardian closes the lock only after its master has ended: no new daemon
\* gets the lock beside an old forwarding.
LockCoversMaster == guardian \in {"ended_ok", "ended_bad"} => ~MasterRuns

\* The daemon's patience is long enough: it never kills a guardian that is
\* still stopping its master.  One that waits for stderr it may have to kill.
GraceSuffices ==
    [][daemon = "stopping" /\ daemon' = "stop_failed" =>
          guardian \in {"killed", "joining"}]_vars

\* A failed start and a stop leave no attempt directory, and neither does a
\* daemon that dies once the guardian knows what to remove.  Excepted are the
\* failures before a guardian is spawned ("refused"): they do leave it.
NothingLeftBehind ==
    (\/ daemon \in {"failed", "stopped", "stop_failed"}
     \/ daemon = "dead" /\ sent /\ guardian \in {"ended_ok", "ended_bad"})
    => ~dir

\* Liveness, under FairSpec.

\* start_attempt and a stop return, whatever the guardian and ssh do.
CallsReturn ==
    /\ daemon = "made" ~> daemon \in Returned \cup {"active", "stopping", "dead"}
    /\ daemon = "stopping" ~> daemon \in Returned \cup {"dead"}

\* All that a guardian may still wait for once its master has ended: a process
\* that ssh started and that holds stderr open.
StderrHeld == guardian = "joining" /\ helper = "noisy"

\* The end of the daemon ends its attempt and releases the lock, unless stderr
\* is held open.
LeaseEndsMaster == daemon = "dead" ~> ~GuardianRuns \/ StderrHeld

\* A master that ends by itself is noticed through the end of its guardian,
\* unless stderr is held open.
MasterEndIsNoticed ==
    daemon = "active" /\ master = "exited" ~> daemon # "active" \/ StderrHeld

-----------------------------------------------------------------------------
\* What the daemon knows of the attempt.
Status ==
    CASE daemon \in {"made", "spawned", "waiting", "failing"} -> "starting"
      [] daemon \in {"active", "stopping"} ->
            IF GuardianEnded THEN "exited" ELSE "live"
      [] daemon = "dead" -> IF GuardianRuns THEN "left" ELSE "none"
      [] OTHER -> "none"

Ssh ==
    CASE ~MasterRuns -> "none"
      [] MasterRuns /\ guardian # "killed" -> "guarded"
      [] OTHER -> "orphaned"

Promise == INSTANCE Attempt WITH
              up <- daemon # "dead", status <- Status, ssh <- Ssh

\* start_attempt, has_exited and stop keep what the manager relies on: an
\* attempt looks ended only when its master has, and a call that returns
\* without one, or a guardian that ends, leaves no master behind.
KeepsPromise == Promise!Spec
=============================================================================
