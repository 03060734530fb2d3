CONSTANTS
    Absent = Absent
    Empty = Empty
    Garbage = Garbage
    Ragged = FALSE
    Browsers = {b1, b2}
    Marks = {m1, m2, m3}
    MaxCount = 2
    MaxAttempts = 1
    Window = 1
    Mixes <- MCMixes
SPECIFICATION Spec
INVARIANTS TypeOK HandedOutHolds AttemptsCapped RevealsCounted PasswordHidden
