\* Two entries, balanced or not, and two statement lines to match.
SPECIFICATION Spec
CONSTANTS
    bank = bank
    other = other
    s1 = s1
    s2 = s2
    r1 = r1
    r2 = r2
    None = None
    Accounts = {bank, other}
    BankAccount = bank
    Periods = {1}
    Bodies <- MCBodies
    MaxNo = 2
    Statement = {s1, s2}
    Amount <- MCAmount
    Requests = {r1, r2}
SYMMETRY MCSymmetry
INVARIANTS
    NumbersGapFree
    TrialBalance
    MatchedOnce
PROPERTIES
    BookedIsForever
    OnlyOvertakenBook
