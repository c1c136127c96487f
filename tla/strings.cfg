\* Texts of up to five bytes, in memory that grows by two bytes too many.
CONSTANTS
    Chars <- Bytes
    NUL = 0
    JUNK = 63
    Strings <- Pieces
    Delimiters <- SlashOrLonger
    Limits <- SmallLimits
    PREALLOC = 2
    MaxChop = 3
    MaxLength = 5

SPECIFICATION Spec

INVARIANTS
    TerminatedInside
    SplitsAtDelimiters
    UrlRoundTrip

PROPERTIES
    ImplementsText
