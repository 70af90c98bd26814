---------------------------- MODULE MCSshAttempt -----------------------------
(* SshAttempt with the program's own timeouts, in seconds.  A control request *)
(* may take longer than the slack, so a guardian can outlive the daemon's     *)
(* patience with its report.                                                  *)
EXTENDS SshAttempt

ASSUME Slack < Control /\ Control <= Grace
=============================================================================
