CONSTANTS
    Requests = {r1}
    Users = {alice}
    Passwords = {p1}
    Bot = bot
    BotPasswords = {b1, b2}
    Keys = {k1}
    Absent = Absent
    Torn = Torn
SPECIFICATION Spec
INVARIANTS BotCanLogIn
