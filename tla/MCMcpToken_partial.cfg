CONSTANTS
    r1 = r1
    r2 = r2
    Absent = Absent
    Empty = Empty
    Garbage = Garbage
    Ragged = FALSE
    Rotators = {r1, r2}
    Checks = {}
    Tokens = {t0, t1, t2}
    First = t0
    Grace = 1
    MaxTime = 1
SPECIFICATION MCSpec
INVARIANTS LiveUsable
