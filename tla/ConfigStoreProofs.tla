-------------------------- MODULE ConfigStoreProofs --------------------------
(****************************************************************************)
(* The properties of ConfigStore as theorems, for any sets of texts and any *)
(* migration, and ConfigStore as an implementation of AtomicConfig.         *)
(****************************************************************************)
EXTENDS ConfigStore, TLAPS

\* What load_config decodes a readable file to.
Decoded == IF config.text = Absent THEN Default ELSE config.text

\* The daemon has a configuration from the end of open on; before, only a
\* migration is under way.
StepShape ==
    /\ step = "down" => held = None /\ job = None
    /\ step = "idle" => held \in Current /\ job = None
    /\ BackingUp \/ step = "converting" => held = None /\ job = None /\ config.text \in Legacy
    /\ Saving => job \in Current

\* The temporary file holds what its stage says.
TempShape ==
    /\ step = "bak_written" => temp.text = config.text
    /\ step = "bak_synced" => temp = File(config.text, TRUE)
    /\ step = "written" => temp = File(job, FALSE)
    /\ step = "synced" => temp = File(job, TRUE)

\* What config.toml names is whole and on disk, and so is all it may name.
Whole ==
    /\ config \in survivors
    /\ \A file \in survivors : file.flushed /\ file.text # Torn

\* A save only replaces a configuration the daemon holds, a migration only the
\* text it has a backup of.
MayReplace ==
    /\ step = "converting" => config.text \in kept
    /\ Saving /\ step # "renamed" =>
          \/ held # None /\ Readable
          \/ held = None /\ config.text \in Legacy /\ config.text \in kept
                /\ job = Migrated[config.text]
    /\ step = "renamed" => config = File(job, TRUE)

\* Memory and disk agree until the rename.
MemoryAgrees ==
    Readable /\ held # None /\ step # "renamed" => held = Decoded

\* Only a save that has reached its rename may show after a power loss.
Expected ==
    \A file \in survivors : file.text \in allowed \/ (step = "renamed" /\ file.text = job)

\* The only text of another schema is the one somebody else installed.
OneOriginal ==
    \A file \in survivors : file.text \in Legacy \cup Future => file.text = original

IInv ==
    /\ TypeOK
    /\ StepShape
    /\ TempShape
    /\ Whole
    /\ MayReplace
    /\ MemoryAgrees
    /\ Expected
    /\ OneOriginal
    /\ OriginalIsKept

-----------------------------------------------------------------------------

\* Files are records of a text and a flag.
LEMMA FileFacts ==
    /\ \A text \in Texts \cup {Absent, Torn}, flushed \in BOOLEAN : File(text, flushed) \in Files
    /\ \A text, flushed : File(text, flushed).text = text /\ File(text, flushed).flushed = flushed
    /\ \A file \in Files : file.text \in Texts \cup {Absent, Torn} /\ file.flushed \in BOOLEAN
    /\ \A file \in Files : file = File(file.text, file.flushed)
    /\ NoFile \in Files
<1>1. \A text \in Texts \cup {Absent, Torn}, flushed \in BOOLEAN : File(text, flushed) \in Files
  BY DEF Files, File
<1>2. \A text, flushed : File(text, flushed).text = text /\ File(text, flushed).flushed = flushed
  BY DEF File
<1>3. \A file \in Files : file.text \in Texts \cup {Absent, Torn} /\ file.flushed \in BOOLEAN
  BY DEF Files
<1>4. \A file \in Files : file = File(file.text, file.flushed)
  BY DEF Files, File
<1> QED
  BY <1>1, <1>2, <1>3, <1>4 DEF NoFile

LEMMA InitIInv == Init => IInv
<1> SUFFICES ASSUME Init PROVE IInv
  OBVIOUS
<1>1. PICK text \in Texts \cup {Absent} :
        /\ config = File(text, TRUE)
        /\ original = IF text \in Legacy \cup Future THEN text ELSE None
        /\ allowed = {text}
  BY DEF Init
<1>2. config \in Files /\ config.text = text /\ config.flushed /\ text # Torn
  BY <1>1, FileFacts, TextAssumption DEF Absent, Torn
<1>3. TypeOK
  BY <1>1, <1>2, FileFacts DEF Init, TypeOK
<1>4. StepShape /\ TempShape /\ MayReplace /\ MemoryAgrees
  BY DEF Init, StepShape, TempShape, MayReplace, MemoryAgrees, BackingUp, Saving
<1>5. Whole /\ Expected /\ OneOriginal /\ OriginalIsKept
  BY <1>1, <1>2, TextAssumption
     DEF Init, Whole, Expected, OneOriginal, OriginalIsKept, Texts, Absent, None
<1> QED
  BY <1>3, <1>4, <1>5 DEF IInv

\* Every step preserves the types.
LEMMA StepTypeOK ==
    ASSUME TypeOK, StepShape, TempShape, Whole, [Next]_vars
    PROVE  TypeOK'
<1> USE DEF Next, vars, OpenDaemon, OpenLegacy, WriteBackup, SyncBackup, KeepBackup, BackupFails,
            Convert, SaveConfig, CreateTemporary, WriteTemporary, SyncTemporary, Rename,
            ReplaceFails, SyncDirectory, SyncDirectoryFails, Killed, LosePower, Install, Down
<1>1. temp' \in Files
  <2>1. temp \in Files /\ job \in Current \cup {None} /\ config \in Files
    BY DEF TypeOK
  <2>2. step = "created" => job \in Texts
    BY DEF StepShape, Saving, Texts
  <2>3. \A text \in {Torn, config.text, temp.text}, flushed \in BOOLEAN :
          File(text, flushed) \in Files
    BY <2>1, FileFacts
  <2>4. step = "created" => File(job, FALSE) \in Files
    BY <2>2, FileFacts
  <2> QED
    BY <2>1, <2>3, <2>4, FileFacts
<1>2. config' \in Files /\ survivors' \in SUBSET Files
  <2>1. config \in Files /\ survivors \in SUBSET Files /\ temp \in Files
    BY DEF TypeOK
  <2>2. \A file \in survivors : \A text \in {file.text, Torn} : File(text, TRUE) \in Files
    BY <2>1, FileFacts
  <2>3. \A text \in Texts : File(text, TRUE) \in Files
    BY FileFacts
  <2> QED
    BY <2>1, <2>2, <2>3
<1>3. step' \in {"down", "idle", "bak_created", "bak_written", "bak_synced", "converting",
                 "start", "created", "written", "synced", "renamed"}
  BY DEF TypeOK
<1>4. backups' \in SUBSET Texts /\ kept' \in SUBSET backups'
  <2>1. backups \in SUBSET Texts /\ kept \in SUBSET backups
    BY DEF TypeOK
  <2>2. step = "bak_synced" => config.text \in Texts /\ temp = File(config.text, TRUE)
    BY DEF StepShape, TempShape, BackingUp, Texts
  <2>3. step = "bak_synced" => temp.text \in Texts
    BY <2>2 DEF File
  <2> QED
    BY <2>1, <2>3
<1>5. job' \in Current \cup {None} /\ held' \in Current \cup {None}
  <2>1. job \in Current \cup {None} /\ held \in Current \cup {None}
    BY DEF TypeOK
  <2> QED
    BY <2>1, TextAssumption DEF Readable
<1>6. original' \in Legacy \cup Future \cup {None} /\ allowed' \in SUBSET (Texts \cup {Absent})
  <2>1. /\ original \in Legacy \cup Future \cup {None}
        /\ allowed \in SUBSET (Texts \cup {Absent})
    BY DEF TypeOK
  <2>2. Saving => job \in Texts
    BY DEF StepShape, Texts
  <2>3. Possible \in SUBSET (Texts \cup {Absent})
    BY <2>1, <2>2 DEF Possible
  <2>4. step = "renamed" => Saving
    BY DEF Saving
  <2> QED
    BY <2>1, <2>2, <2>3, <2>4 DEF Texts
<1> QED
  BY <1>1, <1>2, <1>3, <1>4, <1>5, <1>6 DEF TypeOK

\* Every step preserves the invariant, part by part.
LEMMA StepIInv == IInv /\ [Next]_vars => IInv'
<1> SUFFICES ASSUME IInv, [Next]_vars PROVE IInv'
  OBVIOUS
<1>1. TypeOK'
  BY StepTypeOK DEF IInv
<1> USE TextAssumption
        DEF Next, vars, OpenDaemon, OpenLegacy, WriteBackup, SyncBackup, KeepBackup, BackupFails,
            Convert, SaveConfig, CreateTemporary, WriteTemporary, SyncTemporary, Rename,
            ReplaceFails, SyncDirectory, SyncDirectoryFails, Killed, LosePower, Install, Down,
            BackingUp, Saving, Opening, Readable, Texts, None
<1>2. StepShape'
  <2>1. StepShape /\ held \in Current \cup {None}
    BY DEF IInv, TypeOK
  <2> QED
    BY <2>1 DEF StepShape
<1>3. TempShape'
  <2>1. TempShape
    BY DEF IInv
  <2> QED
    BY <2>1 DEF TempShape, File
<1>4. Whole'
  <2>1. Whole /\ TempShape /\ StepShape
    BY DEF IInv
  <2> QED
    BY <2>1 DEF Whole, TempShape, StepShape, File, Torn
<1>5. MayReplace'
  <2>1. MayReplace /\ TempShape /\ StepShape
    BY DEF IInv
  <2> QED
    BY <2>1 DEF MayReplace, TempShape, StepShape, File
<1>6. MemoryAgrees'
  <2>1. MemoryAgrees /\ StepShape /\ MayReplace
    BY DEF IInv
  <2> QED
    BY <2>1 DEF MemoryAgrees, MayReplace, StepShape, Decoded, File, Absent
<1>7. Expected'
  <2>1. Expected /\ Whole /\ TempShape /\ MayReplace
    BY DEF IInv
  <2> QED
    BY <2>1 DEF Expected, Whole, TempShape, MayReplace, Possible, File
<1>8. OneOriginal'
  <2>1. OneOriginal /\ Whole /\ TempShape /\ StepShape
    BY DEF IInv
  <2> QED
    BY <2>1 DEF OneOriginal, Whole, TempShape, StepShape, File
<1>9. OriginalIsKept'
  <2>1. OriginalIsKept /\ OneOriginal /\ Whole /\ MayReplace /\ kept \in SUBSET backups
    BY DEF IInv, TypeOK
  <2>2. CASE Rename
    <3>1. config \in survivors /\ original \in Legacy \cup Future \cup {None}
      BY DEF IInv, TypeOK, Whole
    <3>2. config.text \in Current \cup {Absent} \/ (config.text \in Legacy /\ config.text \in kept)
      BY <2>1, <2>2 DEF MayReplace
    <3>3. original = None \/ original \in kept
      BY <2>1, <3>1, <3>2 DEF OriginalIsKept, OneOriginal, Absent
    <3> QED
      BY <2>2, <3>3 DEF OriginalIsKept
  <2>3. CASE LosePower
    <3>1. kept \subseteq kept' /\ original' = original
      BY <2>1, <2>3
    <3>2. \E file \in survivors : survivors' = {File(file.text, TRUE)}
      BY <2>1, <2>3 DEF Whole
    <3> QED
      BY <2>1, <3>1, <3>2 DEF OriginalIsKept, File
  <2>4. CASE \E text \in Texts : Install(text)
    BY <2>4 DEF OriginalIsKept, File
  <2>5. CASE KeepBackup \/ SyncDirectory
    BY <2>1, <2>5 DEF OriginalIsKept, Whole
  <2>6. CASE UNCHANGED <<survivors, kept, original>>
    BY <2>1, <2>6 DEF OriginalIsKept
  <2>7. \/ Rename \/ LosePower \/ KeepBackup \/ SyncDirectory
        \/ \E text \in Texts : Install(text)
        \/ UNCHANGED <<survivors, kept, original>>
    OBVIOUS
  <2> QED
    BY <2>2, <2>3, <2>4, <2>5, <2>6, <2>7
<1> QED
  BY <1>1, <1>2, <1>3, <1>4, <1>5, <1>6, <1>7, <1>8, <1>9 DEF IInv

\* Files, steps and memory keep their types.
THEOREM TypeCorrect == Spec => []TypeOK
<1>1. IInv => TypeOK
  BY DEF IInv
<1> QED
  BY InitIInv, StepIInv, <1>1, PTL DEF Spec

\* After a power loss at any moment the file holds an expected text.
THEOREM SavedCorrect == Spec => []SavedSurvives
<1>1. IInv => SavedSurvives
  BY DEF IInv, Expected, SavedSurvives, Possible, Saving
<1> QED
  BY InitIInv, StepIInv, <1>1, PTL DEF Spec

\* The idle daemon holds what a reader of the file finds.
THEOREM HeldCorrect == Spec => []HeldIsOnDisk
<1>1. IInv => HeldIsOnDisk
  BY TextAssumption DEF IInv, StepShape, MemoryAgrees, HeldIsOnDisk, Decoded, None, Texts
<1> QED
  BY InitIInv, StepIInv, <1>1, PTL DEF Spec

\* No sequence of failures loses a text of another schema.
THEOREM OriginalCorrect == Spec => []OriginalIsKept
<1>1. IInv => OriginalIsKept
  BY DEF IInv
<1> QED
  BY InitIInv, StepIInv, <1>1, PTL DEF Spec

-----------------------------------------------------------------------------
\* The refinement of AtomicConfig

LEMMA InitAtomic == Init => Atomic!Init
<1> SUFFICES ASSUME Init PROVE Atomic!Init
  OBVIOUS
<1>1. PICK text \in Texts \cup {Absent} : config = File(text, TRUE)
  BY DEF Init
<1>2. config.text = text
  BY <1>1, FileFacts
<1>3. {file.text : file \in survivors} = {config.text}
  BY DEF Init
<1> QED
  BY <1>2, <1>3 DEF Atomic!Init, Atomic!Texts, Texts

\* The rename replaces the text, a sync of the directory settles it, and every
\* other step of the daemon is a stutter.
LEMMA StepAtomic == IInv /\ IInv' /\ [Next]_vars => [Atomic!Next]_(Atomic!vars)
<1> SUFFICES ASSUME IInv, IInv', [Next]_vars PROVE [Atomic!Next]_(Atomic!vars)
  OBVIOUS
<1> DEFINE Shown == {file.text : file \in survivors}
<1>1. CASE UNCHANGED <<config, survivors>>
  BY <1>1 DEF Atomic!vars
<1>2. CASE KeepBackup \/ SyncDirectory
  <2>1. config' = config /\ survivors' = {config}
    BY <1>2 DEF KeepBackup, SyncDirectory
  <2>2. Atomic!Settle
    BY <2>1 DEF Atomic!Settle
  <2> QED
    BY <2>2 DEF Atomic!Next
<1>3. CASE Rename
  <2>1. temp = File(job, TRUE) /\ job \in Current
    BY <1>3 DEF Rename, IInv, TempShape, StepShape, Saving
  <2>2. temp.text = job
    BY <2>1, FileFacts
  <2>3. config'.text = job /\ Shown' = Shown \cup {job}
    BY <1>3, <2>2 DEF Rename
  <2>4. \/ config.text \in Current \cup {Absent}
        \/ config.text \in Legacy /\ job = Migrated[config.text]
    BY <1>3 DEF Rename, IInv, MayReplace, Saving, Readable
  <2>5. \E new \in Current : Atomic!Replace(new)
    BY <2>1, <2>3, <2>4 DEF Atomic!Replace
  <2> QED
    BY <2>5 DEF Atomic!Next
<1>4. CASE LosePower
  <2>1. \E file \in survivors : config' = File(file.text, TRUE)
    BY <1>4 DEF LosePower, IInv, Whole
  <2>2. config'.text \in Shown
    BY <2>1 DEF File
  <2>3. survivors' = {config'}
    BY <1>4 DEF LosePower
  <2>4. Shown' = {config'.text}
    BY <2>3
  <2>5. Atomic!LosePower
    BY <2>2, <2>4 DEF Atomic!LosePower
  <2> QED
    BY <2>5 DEF Atomic!Next
<1>5. CASE \E text \in Texts : Install(text)
  <2>1. PICK text \in Texts : config' = File(text, TRUE) /\ survivors' = {config'}
    BY <1>5 DEF Install
  <2>2. config'.text \in Texts /\ Shown' = {config'.text}
    BY <2>1 DEF File
  <2>3. Atomic!Install
    BY <2>2 DEF Atomic!Install, Atomic!Texts, Texts
  <2> QED
    BY <2>3 DEF Atomic!Next
<1> QED
  <2>1. \/ UNCHANGED <<config, survivors>>
        \/ KeepBackup \/ SyncDirectory \/ Rename \/ LosePower
        \/ \E text \in Texts : Install(text)
    BY DEF Next, vars, OpenDaemon, OpenLegacy, WriteBackup, SyncBackup, BackupFails, Convert,
           SaveConfig, CreateTemporary, WriteTemporary, SyncTemporary, ReplaceFails,
           SyncDirectoryFails, Killed
  <2> QED
    BY <2>1, <1>1, <1>2, <1>3, <1>4, <1>5

\* replace and load_with_migration implement the atomic replacement of whole
\* texts, whatever step fails.
THEOREM AtomicCorrect == Spec => ReplacesAtomically
<1>1. Spec => []IInv
  BY InitIInv, StepIInv, PTL DEF Spec
<1> QED
  BY <1>1, InitAtomic, StepAtomic, PTL DEF Spec, ReplacesAtomically, Atomic!Spec
=============================================================================
