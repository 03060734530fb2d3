CONSTANTS
    Absent = Absent
    Empty = Empty
    Garbage = Garbage
    Ragged = FALSE
    Web = {w1}
    Cli = {c1}
    Passwords = {p0, p1}
    First = p0
    Tokens = {t1, t2, t3}
    Kinds <- Browser
SPECIFICATION MCSpec
INVARIANTS NoSilentDrift CacheIsHarmless
PROPERTIES Heals
\* Nothing can begin any more once .setup-complete was left torn.
CHECK_DEADLOCK FALSE
