--------------------------- MODULE MCDaemonManager ---------------------------
(* Small instances of DaemonManager for TLC. *)
EXTENDS DaemonManagerInv, TLC

\* Two rules with the same local listener cannot stand together.
SameListener == {<<c, c>> : c \in Configs}

\* Nothing tells one rule, one attempt or one client from another.
Symmetry == Permutations(Ids) \cup Permutations(Attempts) \cup Permutations(Clients)
==============================================================================
