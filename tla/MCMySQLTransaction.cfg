SPECIFICATION Spec
CONSTANTS
    t1 = t1
    t2 = t2
    t3 = t3
    NoTxn = NoTxn
    Txns <- MCTxns
    Size <- MCSize
    LoopBreaker = 2
    MaxLosses = 2
INVARIANTS TypeOK NothingLeftOpen NoGaps
PROPERTIES IsAtomic TransactionsEnd
