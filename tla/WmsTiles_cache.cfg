SPECIFICATION Spec
CONSTANTS
    zoneTile = zoneTile
    farTile = farTile
    vungu_zones = vungu_zones
    zones = zones
    gweru_zones = gweru_zones
    Tiles = {zoneTile, farTile}
    Layers = {vungu_zones}
    Short <- MCShort
    Draws <- MCDraws
    Name <- MCName
    Bytes <- MCBytes
    Requests = {r1, r2}
    MaxTiles = 2
    MaxBytes = 4
    MaxChanges = 1
    NoPicture = NoPicture
INVARIANTS
    TypeOK
    BooksBalance
    StaleOnlyByStray
PROPERTIES
    StaleIsForgotten
CHECK_DEADLOCK FALSE
