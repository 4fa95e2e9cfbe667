SPECIFICATION Spec
CONSTANTS
    Clients = {c1, c2}
    Keys = {k1}
    Params = {p1, p2}
    DefaultAttempts = 2
    MaxAttempts = 3
    MaxIds = 2
INVARIANTS ConflictIsReal OneCreator
