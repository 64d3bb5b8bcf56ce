SPECIFICATION Spec
CONSTANTS
    Accounts = {a, b}
    Callers = {c1}
    Reads = {r1, r2}
    NoAccount = NoAccount
    NoCaller = NoCaller
    NoRead = NoRead
    MaxFaults = 1
SYMMETRY Symmetry

PROPERTY LogOutEmpties
