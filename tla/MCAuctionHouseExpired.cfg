\* Auctions run out while the server is down.
SPECIFICATION ExpiringSpec
SYMMETRY Perms
CONSTANTS
    Players = {p1, p2, p3}
    Units = {u1}
    House = House
    NoOne = NoOne
    StartGold = 2
    Deposit = 1
    Postage = 2
    CutPercent = 50
    Prices = {1, 2}
    StartPrices = {1}
    Buyouts = {0, 2}
    MailMoney = {0}
    CodPrices = {0, 1}
    Word = 16
    MaxAuctions = 1
    MaxCrashes = 1
    MaxQueue = 2
    WorkerThreads = 2
INVARIANT UnitsKept
