\* Four orders, eight buffers of two bytes, four bits per word; two lists of
\* three entries; words of 24 bits; roms of three bits, of which an int holds
\* two, and pages of three bytes.
SPECIFICATION LibrarySpec
CONSTANTS
    NORDERS = 4
    Memory = 16
    BitsPerLong = 4
    Sizes <- MCSizes
    NULL = NULL
    Heads = {g, h}
    Entries = {a, b, c}
    LIST_POISON = LIST_POISON
    WordBits = 24
    ShortBits = 8
    Values <- MCValues
    Widths <- MCStars
    Strings <- MCStrings
    FlagRuns <- MCFlagRuns
    WidthRuns <- MCWidthRuns
    PrecisionRuns <- MCPrecisionRuns
    Qualifiers <- MCQualifiers
    Conversions <- MCConversions
    Blocks <- MCBlocks
    RomBits = 3
    IntBits = 2
    ClassBits = 1
    W1_MAX_DEVICES = 3
    MaxPresent = 4
    PageSize = 3
    MemSize = 7
    MaxWrite = 7
\* a format is printed once, a bus is scanned once
CHECK_DEADLOCK FALSE
INVARIANTS MemoryAccounted ListsAreRings  OneWireTrue
