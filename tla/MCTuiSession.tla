---------------------------- MODULE MCTuiSession -----------------------------
(* Small instances of TuiSession for TLC: a queue shorter than the number of  *)
(* events, so that a subscriber can lag.                                      *)
EXTENDS TuiSession

ASSUME Capacity <= MaxEvents

\* Bound on the initial states: the file has the default settings.  Others come
\* by a change, before the first request of the TUI too.
ViewInit == Init /\ settings = Default

ViewSpec == ViewInit /\ [][Next]_vars /\ Fairness
=============================================================================
