CONSTANTS
    Absent = Absent
    Empty = Empty
    Operators = {o1, o2}
    Names = {"alice", "bot", "carol"}
    Admin = "alice"
    Bot = "bot"
    p1 = p1
    p2 = p2
    p3 = p3
    r1 = r1
    r2 = r2
    Passwords = {p1, p2, p3}
    Rooms = {r1, r2}
    Inviters = {local, peer, friend}
    Local = {local}
    Allowlist = {friend}
    Calls = {c1}
    MaxJoins = 2
    Scenes <- MCScenes
SPECIFICATION FairSpec
INVARIANTS TypeOK ProtectedStay SharedPasswordWorks OnlyWhereInvited SessionOnFile
PROPERTIES BotComesUp InvitationsTaken
