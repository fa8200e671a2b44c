CONSTANTS
    Mac = {m1, m2}
    Self = m1
    Link <- MCLink
    AddrOf <- MCAddrOf
    MaxPoll = 2
    Request = {r1}
    Press = {p1, p2}
SPECIFICATION FairSpec
INVARIANTS
    TypeOK
    AddressIsKnown
    LocalNodeIsSelf
    UsableIsFindable
    LostFileMeansSilence
PROPERTY
    StartEnds
