SPECIFICATION Spec
CONSTANTS
    i1 = i1
    a1 = a1
    a2 = a2
    m1 = m1
    m2 = m2
    r1 = r1
    None = None
    Investors = {i1}
    Agreements = {a1, a2}
    Terms <- MCShareTerms
    Movements = {}
    Amounts = {}
    Manual = {}
    Days = {1}
    Periods = {}
    Profits = {4}
    Requests = {r1}
CHECK_DEADLOCK FALSE
INVARIANT
    SharesWithinWhole
