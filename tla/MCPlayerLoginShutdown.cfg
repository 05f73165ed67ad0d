CONSTANTS
    c1 = c1
    c2 = c2
    s1 = s1
    s2 = s2
    Chars = {c1}
    Slots = {s1, s2}
    None = None
    LogoutTicks = 1
    MaxChanges = 1
    MaxLogins = 2
    MaxPending = 1
SPECIFICATION Spec
INVARIANT ShutdownSaves
