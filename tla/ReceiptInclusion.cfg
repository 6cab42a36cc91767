SPECIFICATION CaseSpec
CONSTANTS
    Chain <- MCChain
    Signed <- MCSigned
    Transactions <- MCTransactions
    NoHeader = 0
    Contexts <- MCContexts
    Times = {0, 1, 2, 3}
    Indices <- MCIndices
    Receipts <- MCReceipts
    MaxAncestry = 3
    MaxNodes = 128
INVARIANTS ProvenIsIncluded HonestCaseAccepted
