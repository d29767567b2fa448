\* One price decrease and one increase, amounts of a few shillings, three
\* receipts, two corrections anywhere on the task.
CONSTANTS
    Receipts = {c1, c2, c3}
    NoReceipt = NoReceipt
    NoAmount = NoAmount
    Cancellation = Cancellation
    Decreases = {d1}
    Increase = Increase
    Fee = 1
    RunnerFee = 1
    Item = 1
    IncreaseBy = 1
    DecreasesBy = {1}
    Limits = {1}
    MaxCorrections = 2
SPECIFICATION Spec
SYMMETRY ReceiptSymmetry
INVARIANTS SentWithinPaid ItemMoneySpentOnce ViewsFollowRows ReceiptsNotShared
PROPERTIES DecidedIsFinal
CHECK_DEADLOCK FALSE
