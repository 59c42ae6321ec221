SPECIFICATION Spec
CONSTANTS
    Uploads = {u1, u2}
    Contents = {c1, c2}
    Ids = {i1, i2}
    RepairIds = {n1, n2}
    Places = {m1}
    None = None
    MaxOldFiles = 0
    MaxIssues = 2
    MayCrash = FALSE
    RepairDuringUploads = TRUE
PROPERTY ReferencedFileStays
