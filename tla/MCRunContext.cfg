SPECIFICATION ContextSpec
CONSTANTS
    None = None
    Consumers = {c1, c2}
    Runs = {r1, r2, r3}
    Users = {u}
    Conversations = {v}
INVARIANTS
    ContextTypeOK
    LinesAreOwn
    OnlyDroppedLeak
