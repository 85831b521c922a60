SPECIFICATION Spec
CONSTANTS
    N = 3
    ByteValues = 5
    LineSize = 4
    CR = CR
    LF = LF
    NUL = NUL
    Word = Word
    Char <- MCChar
    MaxWords = 1
INVARIANTS
    TypeOK
    ObeyedOnce
PROPERTIES
    QueueButForOverruns
    LineComesBack
