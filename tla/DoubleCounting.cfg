SPECIFICATION Spec
CONSTANTS
    i1 = i1
    a1 = a1
    a2 = a2
    m1 = m1
    m2 = m2
    r1 = r1
    None = None
    Investors = {i1}
    Agreements = {a1}
    Terms <- MCTerms
    Movements = {m1, m2}
    Amounts = {}
    Manual = {None}
    Days = {1, 2}
    Periods <- MCPeriods
    Profits = {4}
    Requests = {r1}
CHECK_DEADLOCK FALSE
INVARIANT
    NoDoubleCounting
