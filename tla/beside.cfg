CONSTANTS
    Mac = {m1}
    Self = m1
    Link <- MCLink
    AddrOf <- MCAddrOf
    MaxPoll = 0
    Request = {r1, r2}
    Press = {p1, p2, p3}
SPECIFICATION BesideSpec
INVARIANTS
    LostFileHasReason
    
PROPERTIES
    ResetRestarts
    RepliesKeepContract
    ModifyIsAnswered
