---------------------------- MODULE AtomicConfig -----------------------------
(***************************************************************************)
(* What the configuration file promises to its readers: it always holds a  *)
(* whole text, a text of an unknown schema stays, one of an old schema is  *)
(* only replaced by its own migration, and what the daemon has confirmed   *)
(* is what a power loss leaves.                                            *)
(***************************************************************************)
CONSTANTS
    Current,   \* the texts of the current schema
    Legacy,    \* the texts of the schema with a migration
    Future,    \* the texts of unknown schemas, and those that are no TOML
    Absent,    \* there is no file
    Migrated   \* the migration, from Legacy to Current or Absent

VARIABLES
    value,     \* the text a reader of the file sees
    survivors  \* the texts a power loss may leave

vars == <<value, survivors>>

Texts == Current \cup Legacy \cup Future

Init ==
    /\ value \in Texts \cup {Absent}
    /\ survivors = {value}

\* The daemon replaces the text, or migrates it.
Replace(new) ==
    /\ new \in Current
    /\ value \in Current \cup {Absent} \/ (value \in Legacy /\ new = Migrated[value])
    /\ value' = new
    /\ survivors' = survivors \cup {new}

\* The directory reaches the disk.
Settle ==
    /\ survivors' = {value}
    /\ UNCHANGED value

LosePower ==
    /\ value' \in survivors
    /\ survivors' = {value'}

\* Somebody else installs a text.
Install ==
    /\ value' \in Texts
    /\ survivors' = {value'}

Next == (\E new \in Current : Replace(new)) \/ Settle \/ LosePower \/ Install

Spec == Init /\ [][Next]_vars
=============================================================================
