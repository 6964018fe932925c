SPECIFICATION RecordsSpec
CONSTANTS
    Topics = {topic1, topic2}
    Texts = {text1, text2}
    Writers = {w1, w2}
    Archivers = {a1}
    MaxRows = 3
    MaxWrites = 3
    Devices = {d1, d2}
    Paths = {file1}
    Blobs = {b1}
    KeepLast = 1
    MaxManifests = 2
    MaxEdits = 2
SYMMETRY RecordsSymmetry
CHECK_DEADLOCK FALSE
INVARIANTS
    SupersededHasHeir
    ArchivedIsSummarised
    BucketRestorable
PROPERTIES
    FilesKept
