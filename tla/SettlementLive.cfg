\* Payments and cancellations lock two documents in either order.
SPECIFICATION LiveSpec
CONSTANTS
    d1 = d1
    d2 = d2
    p1 = p1
    p2 = p2
    r1 = r1
    r2 = r2
    customer = customer
    None = None
    Docs = {d1, d2}
    Pays = {p1, p2}
    Requests = {r1, r2}
    Owners = {customer}
    Paisa = 1
    Totals = {1}
    Amounts = {1, 2}
    Owner <- MCOwner
    Side <- MCSide
PROPERTIES
    RequestsEnd
