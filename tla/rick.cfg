SPECIFICATION Spec
CONSTANTS
    A = A
    Alias = Alias
    SlashB = SlashB
    FolderB = FolderB
    a = a
    b = b
    a1 = a1
    a2 = a2
    b1 = b1
    i1 = i1
    VA = VA
    Names <- MCNames
    Recordings <- MCRecordings
    NumBases = 2
    NumFiles = 2
    Absent = Absent
    Torn = Torn
    NoName = NoName
    NoMbid = NoMbid
    Similar <- MCSimilar
    Compilations = {VA}
    SafeArtist <- MCSafeArtist
    ArtistTag <- MCArtistTag
    ArtistId <- MCArtistId
    AlbumArtistId <- MCAlbumArtistId
    MbidOfName <- MCMbidOfName
    NameOfMbid <- MCNameOfMbid
    Shipped <- MCShipped
    ReadOnly = {}
    FolderScanCap = 1
    Requested = {NoName, Alias}
    MayFail = {b}
    Stocked <- MCStocked
    Incoming <- MCIncoming
    ReusesPlaces = FALSE
    MaxManual = 2
    MaxChanges = 5
CHECK_DEADLOCK FALSE
INVARIANTS NothingLost FullyRevertible ChangeSettles
PROPERTIES SweepSettles
