CONSTANTS
    Current = {"v2_default", "v2_migrated", "v2_edited"}
    Legacy = {"v1", "v1_invalid"}
    Future = {"v3"}
    Default = "v2_default"
    Migrated <- MigratedTexts
SPECIFICATION Spec
INVARIANTS
    SavedSurvives
    HeldIsOnDisk
    OriginalIsKept
PROPERTIES
    ReplacesAtomically
