CONSTANTS
    Requests = {r1, r2}
    Users = {alice, bot}
    Passwords = {p1, p2}
    Bot = bot
    BotPasswords = {b1, b2}
    Keys = {k1, k2}
    Absent = Absent
    Torn = Torn
    r1 = r1
    r2 = r2
SPECIFICATION MCSpec
INVARIANTS RetryPossible AccountsBehindSummary RecordedLogsIn
           RecoveryKeyUsable SetupInv
PROPERTIES ClaimAfterHandover ImplementsClaim SetupCompletes
