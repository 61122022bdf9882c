\* A browser tab, and the watcher that resumes on advance, one at a time.
SPECIFICATION Spec
CONSTANTS
    e1 = e1
    e2 = e2
    e3 = e3
    x1 = x1
    x2 = x2
    d1 = d1
    Edits = {x1, x2}
    Drags = {d1}
    Slots = {s1, s2}
    MaxPlays = 2
    Budgets <- Troubles
    Items = {e1, e2, e3}
    Players = {shield}
    Polls = {p1, p2}
    Lineups <- TwoLineups
    MaxArms = 2
    MinMs = 2
    MaxFraction = 19
    NoItem = none
    NoPlayer = nobody
INVARIANTS SeeksAreRight 
PROPERTIES RefreshesAreSafe EditsAreReread ClientsAreSentNow DueIsSought
\* Edits, faults and scans are bounded: the system stops.
CHECK_DEADLOCK FALSE
