\* Two running bills on one item and two bills on one line of a work order.
SPECIFICATION Spec
CONSTANTS
    slab = slab
    lift = lift
    a1 = a1
    a2 = a2
    s1 = s1
    s2 = s2
    r1 = r1
    r2 = r2
    None = None
    Items = {slab}
    WorkLines = {lift}
    Ordered <- MCOrdered
    Quantities = {2, 3}
    RaBills = {a1, a2}
    SubBills = {s1, s2}
    Measures <- MCMeasures
    Advance = 1
    Percent = 50
    Requests = {r1, r2}
SYMMETRY MCSymmetry
INVARIANTS
    WithinBoq
    AdvanceWithinReach
    MeasuredOnce
PROPERTIES
    CancelledIsLatest
