----------------------------- MODULE ConfigStore -----------------------------
(***************************************************************************)
(* The configuration file: src/config/store.rs, with the daemon's memory   *)
(* of what it holds (DaemonManager::open and save_outcome in manager.rs).  *)
(*                                                                         *)
(* A save writes a temporary file, syncs it, renames it over config.toml   *)
(* and syncs the directory; each step may fail, the process may be killed  *)
(* between any two of them and the machine may lose its power.  A file     *)
(* that has not been synced may then be torn, and of the directory's       *)
(* entries that have not been synced each may be the old or the new one.   *)
(***************************************************************************)
EXTENDS Naturals

CONSTANTS
    Current,   \* the texts of schema 2; each stands for what it decodes to
    Legacy,    \* the texts of schema 1
    Future,    \* the texts of other schemas, and those that are no TOML
    Default,   \* what a daemon without a file holds, in Current
    Migrated   \* V1Migration: the text for a legacy one, Absent if it is invalid

Texts == Current \cup Legacy \cup Future

Absent == "absent"   \* no file
Torn == "torn"       \* part of a text
None == "none"

ASSUME TextAssumption ==
    /\ Current \cap (Legacy \cup Future) = {} /\ Legacy \cap Future = {}
    /\ Default \in Current
    /\ {Absent, Torn, None} \cap Texts = {}
    /\ Migrated \in [Legacy -> Current \cup {Absent}]

VARIABLES
    config,     \* the file config.toml names
    survivors,  \* the files a power loss may leave under that name
    backups,    \* the texts with a complete backup in the directory
    kept,       \* those of them that survive a power loss
    temp,       \* the temporary file, or the backup that is being written
    step,       \* where the daemon is in load_with_migration or replace
    job,        \* the text to be saved
    held,       \* the configuration in the daemon's memory
    original,   \* a text that is not of schema 2 and is not the daemon's to lose
    allowed     \* the texts the daemon's answers let a reader expect

vars == <<config, survivors, backups, kept, temp, step, job, held, original, allowed>>

-----------------------------------------------------------------------------

File(text, flushed) == [text |-> text, flushed |-> flushed]

NoFile == File(Absent, TRUE)

\* load_config succeeds.
Readable == config.text \in Current \cup {Absent}

Saving == step \in {"start", "created", "written", "synced", "renamed"}

BackingUp == step \in {"bak_created", "bak_written", "bak_synced"}

\* What a reader may find while a save is under way, or after it was cut off.
Possible == allowed \cup (IF Saving THEN {job} ELSE {})

\* load_with_migration is called by open only, save_config once it returned.
Opening == held = None

Down ==
    /\ step' = "down"
    /\ job' = None
    /\ held' = None
    /\ temp' = NoFile

-----------------------------------------------------------------------------
\* open

OpenDaemon ==
    /\ step = "down"
    /\ Readable
    /\ step' = "idle"
    /\ held' = IF config.text = Absent THEN Default ELSE config.text
    /\ UNCHANGED <<config, survivors, backups, kept, temp, job, original, allowed>>

\* load_with_migration, up to the creation of the backup.
OpenLegacy ==
    /\ step = "down"
    /\ config.text \in Legacy
    /\ step' = "bak_created"
    /\ temp' = File(Torn, FALSE)
    /\ UNCHANGED <<config, survivors, backups, kept, job, held, original, allowed>>

WriteBackup ==
    /\ step = "bak_created"
    /\ step' = "bak_written"
    /\ temp' = File(config.text, FALSE)
    /\ UNCHANGED <<config, survivors, backups, kept, job, held, original, allowed>>

SyncBackup ==
    /\ step = "bak_written"
    /\ step' = "bak_synced"
    /\ temp' = File(temp.text, TRUE)
    /\ UNCHANGED <<config, survivors, backups, kept, job, held, original, allowed>>

\* Faulty: the directory is not synced before the conversion.
KeepBackupUnsynced ==
    /\ step = "bak_synced"
    /\ step' = "converting"
    /\ backups' = backups \cup {temp.text}
    /\ temp' = NoFile
    /\ UNCHANGED <<config, survivors, kept, job, held, original, allowed>>

\* The directory is synced, and with it whatever it names.
KeepBackup ==
    /\ step = "bak_synced"
    /\ step' = "converting"
    /\ backups' = backups \cup {temp.text}
    /\ kept' = backups'
    /\ survivors' = {config}
    /\ temp' = NoFile
    /\ UNCHANGED <<config, job, held, original, allowed>>

BackupFails ==
    /\ BackingUp
    /\ Down
    /\ UNCHANGED <<config, survivors, backups, kept, original, allowed>>

Convert ==
    /\ step = "converting"
    /\ IF Migrated[config.text] \in Current
       THEN /\ step' = "start"
            /\ job' = Migrated[config.text]
            /\ UNCHANGED <<temp, held>>
       ELSE Down
    /\ UNCHANGED <<config, survivors, backups, kept, original, allowed>>

-----------------------------------------------------------------------------
\* save_config and replace

SaveConfig(new) ==
    /\ step = "idle"
    /\ Readable
    /\ step' = "start"
    /\ job' = new
    /\ UNCHANGED <<config, survivors, backups, kept, temp, held, original, allowed>>

CreateTemporary ==
    /\ step = "start"
    /\ step' = "created"
    /\ temp' = File(Torn, FALSE)
    /\ UNCHANGED <<config, survivors, backups, kept, job, held, original, allowed>>

WriteTemporary ==
    /\ step = "created"
    /\ step' = "written"
    /\ temp' = File(job, FALSE)
    /\ UNCHANGED <<config, survivors, backups, kept, job, held, original, allowed>>

\* Faulty: flush alone, which leaves the text in the page cache.
FlushTemporary ==
    /\ step = "written"
    /\ step' = "synced"
    /\ UNCHANGED <<config, survivors, backups, kept, temp, job, held, original, allowed>>

SyncTemporary ==
    /\ step = "written"
    /\ step' = "synced"
    /\ temp' = File(temp.text, TRUE)
    /\ UNCHANGED <<config, survivors, backups, kept, job, held, original, allowed>>

Rename ==
    /\ step = "synced"
    /\ step' = "renamed"
    /\ config' = temp
    /\ survivors' = survivors \cup {temp}
    /\ temp' = NoFile
    /\ UNCHANGED <<backups, kept, job, held, original, allowed>>

\* A failure before the rename removes the temporary file; an opening daemon
\* gives up.
ReplaceFails ==
    /\ step \in {"start", "created", "written", "synced"}
    /\ IF Opening
       THEN Down
       ELSE step' = "idle" /\ temp' = NoFile /\ job' = None /\ UNCHANGED held
    /\ UNCHANGED <<config, survivors, backups, kept, original, allowed>>

\* Faulty: the last sync is left to the kernel.
ConfirmUnsynced ==
    /\ step = "renamed"
    /\ step' = "idle"
    /\ held' = job
    /\ allowed' = {job}
    /\ job' = None
    /\ UNCHANGED <<config, survivors, backups, kept, temp, original>>

SyncDirectory ==
    /\ step = "renamed"
    /\ step' = "idle"
    /\ survivors' = {config}
    /\ kept' = backups
    /\ held' = job
    /\ allowed' = {job}
    /\ job' = None
    /\ UNCHANGED <<config, backups, temp, original>>

\* Faulty: the daemon takes every error for a save that did not happen.
SyncDirectoryForgets ==
    /\ step = "renamed"
    /\ allowed' = allowed \cup {job}
    /\ IF Opening
       THEN Down
       ELSE step' = "idle" /\ job' = None /\ UNCHANGED <<held, temp>>
    /\ UNCHANGED <<config, survivors, backups, kept, original>>

\* DurabilityUncertain: save_outcome reconciles the memory, open gives up.
SyncDirectoryFails ==
    /\ step = "renamed"
    /\ allowed' = allowed \cup {job}
    /\ IF Opening
       THEN Down
       ELSE step' = "idle" /\ held' = job /\ job' = None /\ UNCHANGED temp
    /\ UNCHANGED <<config, survivors, backups, kept, original>>

-----------------------------------------------------------------------------
\* The daemon stops or is killed, the machine loses its power, somebody else
\* writes the file.

Killed ==
    /\ step # "down"
    /\ Down
    /\ allowed' = Possible
    /\ UNCHANGED <<config, survivors, backups, kept, original>>

LosePower ==
    /\ \E file \in survivors :
         \E text \in {file.text} \cup (IF file.flushed THEN {} ELSE {Torn}) :
            /\ config' = File(text, TRUE)
            /\ survivors' = {config'}
            /\ allowed' = Possible
    /\ \E lost \in SUBSET (backups \ kept) : backups' = backups \ lost
    /\ kept' = backups'
    /\ Down
    /\ UNCHANGED original

\* An editor or another version of the program, never beside a save of ours.
Install(text) ==
    /\ step = "down" \/ (step = "idle" /\ text \notin Current)
    /\ config' = File(text, TRUE)
    /\ survivors' = {config'}
    /\ original' = IF text \in Current THEN None ELSE text
    /\ allowed' = {text}
    /\ UNCHANGED <<backups, kept, temp, step, job, held>>

-----------------------------------------------------------------------------

Init ==
    /\ \E text \in Texts \cup {Absent} :
         /\ config = File(text, TRUE)
         /\ original = IF text \in Legacy \cup Future THEN text ELSE None
         /\ allowed = {text}
    /\ survivors = {config}
    /\ backups = {}
    /\ kept = {}
    /\ temp = NoFile
    /\ step = "down"
    /\ job = None
    /\ held = None

Next ==
    \/ OpenDaemon
    \/ OpenLegacy
    \/ WriteBackup
    \/ SyncBackup
    \/ KeepBackup
    \/ BackupFails
    \/ Convert
    \/ \E new \in Current : SaveConfig(new)
    \/ CreateTemporary
    \/ WriteTemporary
    \/ SyncTemporary
    \/ Rename
    \/ ReplaceFails
    \/ SyncDirectory
    \/ SyncDirectoryFails
    \/ Killed
    \/ LosePower
    \/ \E text \in Texts : Install(text)

Spec == Init /\ [][Next]_vars

-----------------------------------------------------------------------------
\* Properties

Files == [text : Texts \cup {Absent, Torn}, flushed : BOOLEAN]

\* Files hold texts or parts of them, and the steps are those of
\* load_with_migration and replace.
TypeOK ==
    /\ config \in Files
    /\ survivors \in SUBSET Files
    /\ backups \in SUBSET Texts
    /\ kept \in SUBSET backups
    /\ temp \in Files
    /\ step \in {"down", "idle", "bak_created", "bak_written", "bak_synced", "converting",
                 "start", "created", "written", "synced", "renamed"}
    /\ job \in Current \cup {None}
    /\ held \in Current \cup {None}
    /\ original \in Legacy \cup Future \cup {None}
    /\ allowed \in SUBSET (Texts \cup {Absent})

\* Whenever the power is lost, the file holds what the daemon's last answers
\* let its clients expect: the confirmed configuration or one of those whose
\* save was cut off or called uncertain since, and never one whose save failed.
SavedSurvives == \A file \in survivors : file.text \in Possible

\* The daemon answers for the configuration that is on disk, after failed and
\* uncertain saves too, unless somebody else made the file unreadable.
HeldIsOnDisk ==
    step = "idle" /\ Readable => held = (IF config.text = Absent THEN Default ELSE config.text)

\* A file of another schema is not lost: it is still there, or it is a legacy
\* one and the backup of its exact text survives a power loss.
OriginalIsKept ==
    original = None \/ original \in kept \/ \A file \in survivors : file.text = original

\* replace and the migration are atomic replacements of whole texts.
Atomic == INSTANCE AtomicConfig WITH
            value <- config.text,
            survivors <- {file.text : file \in survivors}

ReplacesAtomically == Atomic!Spec
=============================================================================
