SPECIFICATION Spec
CONSTANTS
    a = a
    b = b
    p = p
    q = q
    s = s
    o = o
    n = n
    Accounts = {a, b}
    Projects = {p, q}
    NoAccount = NoAccount
    maxSelectedProjects = 1
    MaxPresses = 3
    Ports = {p1, p2}
    Hours = {h1}
    Instances = {i}
    Snapshots = {s, t}
    Namesakes = {o}
    Dirs = {home, sub}
    Names = {n}
    Climbing = {up}
    Home = home
    TheVm = TheVm
    Nothing = Nothing
INVARIANTS SelectionIsRestored RowsAreOfTheirAccount ShowsWhatWasAsked
PROPERTY EverySpinnerStops
\* At rest, with the presses used up, nothing is left to do.
CHECK_DEADLOCK FALSE
