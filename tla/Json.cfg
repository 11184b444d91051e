SPECIFICATION Spec
CONSTANTS
    MaxLength = 10
INVARIANTS
    ParsesEveryDocument
    AcceptsOnlyDocuments
CHECK_DEADLOCK FALSE
