------------------------------ MODULE EventHub -------------------------------
(***************************************************************************)
(* The daemon's event stream to one subscriber: EventHub and Subscription  *)
(* of src/ipc/mod.rs, the Subscribe part of serve_connection in            *)
(* src/daemon/lifecycle.rs and the thread of spawn_subscription in         *)
(* src/tui/mod.rs, which turns each event into a notice for the TUI.       *)
(*                                                                         *)
(* The TUI reads nothing from an event but that there was one, so that     *)
(* events are counted, in the order the hub numbers them.                  *)
(***************************************************************************)
EXTENDS Naturals

CONSTANTS
    Capacity,   \* EVENT_BUFFER_CAPACITY
    MaxEvents   \* bound on the events of a run

ASSUME CapacityAssumption == Capacity \in Nat \ {0}

VARIABLES
    sequence,  \* number of the last event
    stream,    \* "unstarted", "asked", "live", "dropped", "ended" or "lost"
    queued,    \* events in the subscriber's queue
    notices,   \* what the subscription thread has sent to the TUI
    missed     \* the TUI has not read the daemon since something it is not told of

hubVars == <<sequence, stream, queued, notices, missed>>

-----------------------------------------------------------------------------

\* try_send to the subscriber; one whose queue is full is forgotten.
Publish ==
    /\ sequence' = sequence + 1
    /\ IF stream = "live" /\ queued < Capacity
       THEN /\ queued' = queued + 1
            /\ UNCHANGED <<stream, missed>>
       ELSE /\ stream' = IF stream = "live" THEN "dropped" ELSE stream
            /\ missed' = TRUE
            /\ UNCHANGED queued

\* run_loop starts the thread when the rules and settings have been loaded.
SpawnSubscription ==
    /\ stream = "unstarted"
    /\ stream' = "asked"
    /\ UNCHANGED <<sequence, queued, notices, missed>>

\* The hub learns of the subscriber after Subscribe has been answered, and
\* long after the TUI has loaded what it shows.
Subscribe ==
    /\ stream = "asked"
    /\ stream' = "live"
    /\ UNCHANGED <<sequence, queued, notices, missed>>

\* The server thread writes an event, the TUI's thread reads it and sends a
\* notice to the main loop.
ReadEvent ==
    /\ stream \in {"live", "dropped"}
    /\ queued > 0
    /\ queued' = queued - 1
    /\ notices' = notices + 1
    /\ UNCHANGED <<sequence, stream, missed>>

\* A dropped subscriber's queue is drained, then the connection is closed.
CloseDropped ==
    /\ stream = "dropped"
    /\ queued = 0
    /\ stream' = "ended"
    /\ UNCHANGED <<sequence, queued, notices, missed>>

\* The read timeout of Client::connect stays on the subscription: a silence
\* of five seconds is an error, which ends the thread.
ReadTimesOut ==
    /\ stream \in {"asked", "live"}
    /\ queued = 0
    /\ stream' = "ended"
    /\ UNCHANGED <<sequence, queued, notices, missed>>

\* The daemon is gone.
StreamBreaks ==
    /\ stream \in {"asked", "live", "dropped"}
    /\ stream' = "lost"
    /\ queued' = 0
    /\ UNCHANGED <<sequence, notices, missed>>
=============================================================================
