CONSTANTS
    Requests = {r1, r2}
    Users = {alice}
    Passwords = {p1}
    Bot = bot
    BotPasswords = {b1, b2}
    Keys = {k1, k2}
    Absent = Absent
    Torn = Torn
SPECIFICATION Spec
PROPERTIES ClaimedOnce
