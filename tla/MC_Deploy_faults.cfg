SPECIFICATION Spec
CONSTANTS
    s1 = s1
    s2 = s2
    legacy = legacy
    built = built
    built2 = built2
    migrated = migrated
    w1 = w1
    w2 = w2
    None = None
    Wrappers = {w1, w2}
    Shas = {s1, s2}
    Builds = {legacy, built, migrated}
    LegacyBuild = legacy
    ShaOf <- MC_ShaOf
    Needs <- MC_Needs
    Installed = {legacy, built, None}
    Commands = {"apply", "rollback"}
    Faults = {"before", "link", "up", "probe", "restore", "dies"}
SYMMETRY Overlaps
INVARIANTS
    DumpBeforeMigration
    SelectedIsMigrated
