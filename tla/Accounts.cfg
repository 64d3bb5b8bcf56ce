SPECIFICATION Spec
CONSTANTS
    Accounts = {a, b}
    Callers = {c1, c2}
    Reads = {r1, r2}
    NoAccount = NoAccount
    NoCaller = NoCaller
    NoRead = NoRead
    MaxFaults = 2
SYMMETRY Symmetry
INVARIANTS NothingUnlisted ServedIsActive ChecksShareOneRead
