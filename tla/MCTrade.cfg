\* Three items among three players whose bags hold two.
SPECIFICATION Spec
SYMMETRY Perms
CONSTANTS
    Players = {p1, p2, p3}
    Items = {i1, i2, i3}
    Slots = {s1, s2}
    NoItem = NoItem
    NoTrade = NoTrade
    Amounts = {0, 1}
    StartGold = 1
    Capacity = 2
    MaxMoney = 2
INVARIANTS TypeOK Paired AcceptedAsSeen
PROPERTY ExchangeIsWhole
