\* Registration, profile changes, removal and login by two requests at a time, with crashes and failed calls.
SPECIFICATION Spec
CONSTANTS
    u1 = u1 u2 = u2 u3 = u3 c1 = c1 c2 = c2 e1 = e1 e2 = e2 w1 = w1 w2 = w2
    Null = Null
    UserIds = {u1, u2, u3}
    Emails = {e1, e2}
    Passwords = {w1, w2}
    Clients = {c1, c2}
    Changes <- MCChanges
SYMMETRY Symmetry
INVARIANTS TypeOK FewShareAddress WritesStay
CHECK_DEADLOCK FALSE
