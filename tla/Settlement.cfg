\* Two interleaved requests over two invoices and two receipts, in thirds of a
\* paisa over one of them.
SPECIFICATION MCSpec
CONSTANTS
    d1 = d1
    d2 = d2
    p1 = p1
    p2 = p2
    r1 = r1
    r2 = r2
    customer = customer
    None = None
    Docs = {d1, d2}
    Pays = {p1, p2}
    Requests = {r1, r2}
    Owners = {customer}
    Paisa = 3
    Totals = {6}
    Amounts = {1, 2, 3, 5, 6}
    Owner <- MCOwner
    Side <- MCSide
SYMMETRY MCSymmetry
INVARIANTS
    PaidIsAllocated
    StatusTellsPaid
    EntryMatchesSource
    ControlAccountAgrees
