CONSTANTS
    r1 = r1
    r2 = r2
    Absent = Absent
    Empty = Empty
    Garbage = Garbage
    Ragged = FALSE
    Rotators = {r1, r2}
    Checks = {c1}
    Tokens = {t0, t1, t2}
    First = t0
    Grace = 2
    MaxTime = 3
SPECIFICATION MCSpec
INVARIANTS LiveUsableAlone AcceptWithinGrace RevokedStaysDead
PROPERTIES ImplementsRegister NoSpuriousReject
