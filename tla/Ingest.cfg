SPECIFICATION Spec
CONSTANTS
    Uploads = {u1, u2}
    Contents = {c1, c2}
    Ids = {i1, i2, i3}
    RepairIds = {n1, n2}
    Places = {m1}
    None = None
    MaxOldFiles = 2
    MaxIssues = 3
    MayCrash = TRUE
    RepairDuringUploads = FALSE
SYMMETRY Symmetry
INVARIANTS
    AcknowledgedIsStored
    OrphansAreExplained
    RepairSettlesOrphans
    HealthyIsSound
PROPERTIES
    ReferencedFileStays
    ServedRowStays
