CONSTANTS
    CacheBlock = 3
    Cluster = 2
    Block = 2
    OpenFiles <- MCOpenFiles
    Reads <- MCReads
    Others <- MCOthers
    BaseLen = 2
    ExtLen = 1
    Capitals <- MCCapitals
    Direct = 2
    Pointers = 2
    Top = 20
    HigherHalf = 50
    HeaderSize = 4
    Word = 2
    Limit = 4
    Drives <- MCDrives
    Contents <- MCContents
    Stacks <- MCStacks
    Disks <- MCDisks
    Chains <- MCChains
    Files <- MCFiles
    Trees <- MCTrees
    Paths <- MCPaths
    Superblocks <- MCSuperblocks
    Pads = {0, 1, 2}
    Archives <- MCArchives
    Images <- MCImages
    Slides = {0, 6}
    Texts <- MCTexts
    Configs <- MCConfigs
    Strokes <- MCStrokes
    Lines <- MCLines
    Modules <- MCModules
SPECIFICATION Spec
INVARIANTS
    FileIsRead
    FileIsFound
    Inflated
    ImageLoaded
    SelectionBoots
    ConfigIsRead
CHECK_DEADLOCK FALSE
