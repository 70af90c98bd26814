------------------------------- MODULE Attempt -------------------------------
(***************************************************************************)
(* What an attempt promises to the daemon that starts it: a guarded ssh    *)
(* master belongs to an attempt that the daemon holds or a dead daemon has *)
(* left, an attempt looks ended only when its master has, and a call that  *)
(* returns without one leaves none.  Only a guardian killed by somebody    *)
(* else can leave a master that nobody will end.                           *)
(***************************************************************************)
VARIABLES
    up,      \* the daemon runs
    status,  \* the attempt: none, starting, live, exited; left by a dead daemon
    ssh      \* its ssh master: none, guarded or orphaned

vars == <<up, status, ssh>>

Init == up = TRUE /\ status = "none" /\ ssh = "none"

\* start_attempt is called.
Begin ==
    /\ up /\ status = "none" /\ ssh = "none"
    /\ status' = "starting"
    /\ ssh' \in {"none", "guarded"}
    /\ UNCHANGED up

\* The guardian starts ssh, even if the daemon has died meanwhile.
SshBegins ==
    /\ status \in {"starting", "left"} /\ ssh = "none"
    /\ ssh' = "guarded"
    /\ UNCHANGED <<up, status>>

\* By itself, or by its guardian.
SshEnds ==
    /\ ssh' = "none"
    /\ UNCHANGED <<up, status>>

\* start_attempt returns the attempt, at worst one that has ended already.
Accept ==
    /\ up /\ status = "starting"
    /\ status' = "live" \/ (status' = "exited" /\ ssh # "guarded")
    /\ UNCHANGED <<up, ssh>>

\* start_attempt returns an error.
Fail ==
    /\ up /\ status = "starting"
    /\ status' = "none"
    /\ ssh' \in {"none", ssh} \ {"guarded"}
    /\ UNCHANGED up

\* has_exited becomes true.
Exit ==
    /\ up /\ status = "live"
    /\ status' = "exited"
    /\ ssh' = "none"
    /\ UNCHANGED up

\* stop returns, or the attempt is dropped: by force, if it must be.
End ==
    /\ up /\ status \in {"live", "exited"}
    /\ status' = "none"
    /\ ssh' = "none"
    /\ UNCHANGED up

\* The guardian is killed; the daemon learns it from an attempt it holds.
Orphan ==
    /\ ssh = "guarded"
    /\ ssh' = "orphaned"
    /\ status' = CASE status = "live" -> "exited"
                   [] status = "left" -> "none"
                   [] OTHER -> status
    /\ UNCHANGED up

\* The daemon dies; what there is, is left to the guardian.
Crash ==
    /\ up
    /\ up' = FALSE
    /\ \/ status # "none" /\ status' = "left"
       \/ ssh # "guarded" /\ status' = "none"
    /\ UNCHANGED ssh

\* The guardian of a dead daemon ends.
Cleanup ==
    /\ status = "left"
    /\ status' = "none"
    /\ ssh' = "none"
    /\ UNCHANGED up

\* Another daemon gets the lock that the guardian held.
Restart ==
    /\ ~up /\ status = "none"
    /\ up' = TRUE
    /\ UNCHANGED <<status, ssh>>

Next ==
    \/ Begin
    \/ SshBegins
    \/ SshEnds
    \/ Accept
    \/ Fail
    \/ Exit
    \/ End
    \/ Orphan
    \/ Crash
    \/ Cleanup
    \/ Restart

Spec == Init /\ [][Next]_vars
=============================================================================
