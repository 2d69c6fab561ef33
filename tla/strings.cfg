SPECIFICATION Spec
CONSTANTS
    NUL = NUL
    Junk = Junk
    Byte <- MCByte
    MaxInt64 = 12
    MaxInt32 = 2
    HDR = 3
    WORD = 4
    SDS_MAX_PREALLOC = 4
    MaxLen = 3
    MaxRoom = 3
    SPLIT_SLOTS = 2
    Arg <- MCArg
    Charset <- MCCharset
    Format <- MCFormat
    Mapping <- MCMapping
    Lower <- MCLower
    Capital <- MCCapital
    Ascii <- MCAscii
    Separator <- MCSeparator
INVARIANTS BufferExact MeansText RoundTrips
