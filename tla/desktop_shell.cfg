\* Two clicks of any kind, and the announcements of the changes, at once.
SPECIFICATION Spec
CONSTANTS
    Clicks = {"c1", "c2"}
    Emitters = {"e1", "e2"}
    EmitterOf <- MCEmitterOf
    MaxFaults = 1
    Nobody = Nobody
INVARIANTS TypeOK ShellReadsAreWhole SnapshotsFollowTheChange QuietPageShowsItsChanges
PROPERTIES ChangesAreAnnounced FlagsClear
CHECK_DEADLOCK FALSE
