SPECIFICATION Spec
CONSTANTS
    r1 = r1
    r2 = r2
    r3 = r3
    l1 = l1
    v1 = v1
    p1 = p1
    s1 = s1
    Registrations = {r1, r2, r3}
    Logins = {l1}
    Verifications = {v1}
    Resets = {p1}
    Switches = {s1}
    AccountOf <- MCAccountOf
    EmailOf <- MCEmailOf
    PhoneOf <- MCPhoneOf
    PasswordOf <- MCPasswordOf
    AccountEnv = {"dbError", "dbAckLost", "queueError", "crash"}
CHECK_DEADLOCK FALSE
INVARIANTS TypeOK OneAccountPerAddress RegisteredPasswordWorks AnsweredSavesKept
