CONSTANTS
    CacheBlock = 3
    Cluster = 2
    Block = 2
    OpenFiles = {}
    Reads <- MCReads
    Others = {}
    BaseLen = 2
    ExtLen = 1
    Capitals <- MCCapitals
    Direct = 2
    Pointers = 2
    Top = 20
    HigherHalf = 50
    HeaderSize = 4
    Word = 2
    Limit = 4
    Drives = {}
    Contents = {}
    Stacks = {}
    Disks = {}
    Chains <- MCChains
    Files = {}
    Trees = {}
    Paths = {}
    Superblocks = {}
    Pads = {}
    Archives = {}
    Images = {}
    Slides = {}
    Texts = {}
    Configs = {}
    Strokes = {}
    Lines = {}
    Modules = {}
SPECIFICATION Spec
INVARIANT FatFileIsRead
CHECK_DEADLOCK FALSE
