\* Three documents that move stock between two warehouses, or an opening stock
\* and issues to the requisition.
SPECIFICATION Spec
CONSTANTS
    rod = rod
    sand = sand
    y1 = y1
    y2 = y2
    w1 = w1
    w2 = w2
    r1 = r1
    r2 = r2
    d1 = d1
    d2 = d2
    d3 = d3
    None = None
    Items = {rod, sand}
    Warehouses = {w1, w2}
    Docs = {d1, d2, d3}
    Bodies <- MCBodies
    Wanted <- MCWanted
    Years = {y1, y2}
    Requests = {r1, r2}
SYMMETRY MCSymmetry
CONSTRAINT MCScenario
CHECK_DEADLOCK FALSE
INVARIANTS
    TypeOK
    BalanceIsMovements
    PostedMovedOnce
    NoResidue
    InventoryAccountAgrees
    SiteReqTellsIssued
