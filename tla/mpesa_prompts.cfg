SPECIFICATION PromptsSpec
CONSTANTS
    p1 = p1 p2 = p2 p3 = p3 inv1 = inv1 m1 = m1 m2 = m2
    None = None
    Pushes = {p1, p2, p3}
    Merges = {m1, m2}
    Payables = {inv1}
    PayableOf <- MCPayableOf
    HistoryMax = 2
    Budgets <- MCBudgets
SYMMETRY PushSymmetry
INVARIANTS StoredIdsMatch NoShortfall
CHECK_DEADLOCK FALSE
