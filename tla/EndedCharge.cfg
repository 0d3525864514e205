SPECIFICATION Spec
CONSTANTS
    w1 = w1
    w2 = w2
    Workers <- MCWorkers
    None = none
    MaxRows = 2
    MaxTime = 2
    Totals = {2}
    Amounts = {1}
    FreeTotal = 1
    Lives = {1}
PROPERTY ChargesActiveOnly
