\* One order whose line a delivery names twice.
SPECIFICATION Spec
CONSTANTS
    o1 = o1
    o2 = o2
    q1 = q1
    g1 = g1
    g2 = g2
    b1 = b1
    b2 = b2
    r1 = r1
    r2 = r2
    None = None
    Requisitions = {}
    Orders = {o1}
    Receipts = {g1, g2}
    Bills = {b1, b2}
    OrderBodies <- MCBodies
    Deliveries <- MCDeliveries
    Requests = {r1, r2}
SYMMETRY MCSymmetry
INVARIANTS
    NeverOverReceived
