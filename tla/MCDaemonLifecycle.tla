-------------------------- MODULE MCDaemonLifecycle --------------------------
(* One daemon process more than there are clients, so that every client can   *)
(* start its own and one more can have been there before.                     *)
EXTENDS DaemonLifecycle, FiniteSets

ASSUME Cardinality(Daemons) > Cardinality(Clients)
=============================================================================
