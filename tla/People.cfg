\* Two leave requests, one run, two requests at a time.
SPECIFICATION Spec
CONSTANTS
    clerk = clerk
    worker = worker
    l1 = l1
    l2 = l2
    r1 = r1
    r2 = r2
    None = None
    Employees = {clerk, worker}
    Terms <- MCTerms
    Days = {1, 2, 3}
    Month = {1, 2, 3}
    Off = {3}
    Sheets <- MCSheets
    Leaves = {l1, l2}
    Forms <- MCForms
    Entitled <- MCEntitled
    Unpaid = {"lwp"}
    Settings <- MCSettings
    Bonuses = {TRUE}
    MaxPayments = 2
    Requests = {r1, r2}
SYMMETRY MCSymmetry
INVARIANTS
    WithinEntitlement
    AwayDeductedOnce
    LedgerTellsSlips
