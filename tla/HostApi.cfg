\* Two calls of any kinds; the key comes in any portions.
SPECIFICATION FairSpec
CONSTANTS
    a = a
    b = b
    Nothing = Nothing
    Call <- TwoCalls
    Length = 3
INVARIANTS
    TypeOK
    KeyIsWhole
PROPERTIES
    ImplementsCalls
    CallsEnd
CHECK_DEADLOCK FALSE
