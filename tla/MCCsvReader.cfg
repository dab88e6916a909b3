SPECIFICATION ToolSpec
CONSTANTS
    Columns <- MCColumns
    Digit <- MCDigit
    Headers <- MCHeaders
    Rows <- MCRows
    TensorRows = 2
INVARIANTS
    SplitAsWritten
    SamplesAsRead
    OutputOnlyOnSuccess
