SPECIFICATION Spec
CONSTANTS
    Identifiers <- MCIdentifiers
    UpperCase <- MCUpperCase
    Dictionaries <- MCDictionaries
    Requests <- MCRequests
    DefaultSize = 4096
    Sizes = {4096, 4097, 70000}
    MaxBatch = 2
    None = None
    Null = Null
INVARIANTS
    TypeOK
    ExactTableWins
    ColumnsMatchTarget
    DescribedInsertIsValid
    BatchIsReadAsGiven
    NeverTooLarge
