SPECIFICATION Spec
CONSTANTS
    Urls = {a, b}
    Twins = {a, b}
    Undated = {b}
    None = None
    NoRow = NoRow
    NoFile = NoFile
    MaxUploads = 1
    MaxCrashes = 1
INVARIANTS
    TypeOK
    PictureKept
    OrphansAreExplained
PROPERTIES
    ServedStays
    ChangedRowsAreServed
