SPECIFICATION Spec
CONSTANTS
    Ints <- TheInts
    Doubles <- TheDoubles
    Files <- TheFiles
    AdHoc <- TheAdHoc
    Capacity = 1
    MaxImported = 7
    MaxRows = 3
INVARIANTS
    RowsShowTheirFavorite
    StaleMarksAreDeserved
    TagsAreTheTables
