----------------------------- MODULE AuctionHouse -----------------------------
(***************************************************************************)
(* The auction house and the mail it pays with. All handlers run in the    *)
(* world thread, one after the other; each changes what is in memory and   *)
(* queues transactions. Players log in and out, and the process may end at *)
(* any time and start again from the database.                             *)
(*                                                                         *)
(* The workers of the database need not take turns. The properties are     *)
(* about the time before an operation overtakes another on the same rows   *)
(* (overtaken). One worker never does; with more nothing in the code       *)
(* prevents it, and of what follows nothing is claimed.                    *)
(*                                                                         *)
(* Items are units; those sold together form the item of an auction. Mails *)
(* are letters in a bag: two with the same contents differ in nothing but  *)
(* their number. A mail that has nothing in it is left out. Time is left   *)
(* out: an auction may have run out and a mail be delivered at any moment. *)
(***************************************************************************)
EXTENDS CharacterDatabase, Bags, Functions, FiniteSetsExt

CONSTANTS
    Players,
    Units,
    House,                  \* the sender of auction mails (MAIL_AUCTION)
    NoOne,                  \* bidder 0
    StartGold,              \* what each player has
    Deposit,                \* GetAuctionDeposit
    Postage,                \* 30 copper for an attachment
    CutPercent,             \* auctionHouseEntry->cutPercent
    Prices,                 \* what players bid
    StartPrices,            \* what they ask for at first,
    Buyouts,                \* to sell at once, or 0
    MailMoney,              \* what they send, or 0
    CodPrices,              \* what they ask for on delivery, or 0
    Word,                   \* 2^32: profits are computed in 32 bits
    MaxAuctions,            \* bound: auctions created
    MaxCrashes              \* bound: ends of the process

ASSUME AuctionAssumption ==
    /\ IsFiniteSet(Players) /\ IsFiniteSet(Units)
    /\ NoOne \notin Players /\ House \notin Players
    /\ Prices \subseteq Nat \ {0} /\ StartPrices \subseteq Nat \ {0}
    /\ Buyouts \subseteq Nat /\ MailMoney \subseteq Nat /\ CodPrices \subseteq Nat
    /\ {StartGold, Deposit, Postage, CutPercent} \subseteq Nat /\ Word \in Nat \ {0}
    /\ {MaxAuctions, MaxCrashes, MaxQueue} \subseteq Nat

VARIABLES
    world,          \* "running" or "down"
    auctions,       \* AuctionsMap of the three houses: id -> auction
    aItems,         \* mAitems: the items of auctions
    session,        \* player -> "offline", "loading" or "online"
    purse,          \* m_money of online players
    bag,            \* the inventory of online players
    loaded,         \* the online players with m_mailsLoaded
    box,            \* m_mail of these: a bag of letters
    nextAuction,    \* GenerateAuctionID
    crashes         \* ends of the process so far

dbVars == <<disk, queue, overtaken>>
mailVars == <<loaded, box>>
playerVars == <<session, purse, bag, mailVars>>
vars == <<dbVars, world, auctions, aItems, playerVars, nextAuction, crashes>>

Auction == [units : (SUBSET Units) \ {{}}, owner : Players, start : StartPrices,
            buyout : Buyouts, bidder : Players \cup {NoOne},
            bid : Prices \cup Buyouts \cup {0}, deposit : {Deposit}]

Letter == [to : Players, from : Players \cup {House}, money : Nat,
           units : SUBSET Units, cod : CodPrices \cup {0}]

\* The tables. Two ghosts keep the balance: the gold that has gone to the house
\* and the post, and units taken out of their stacks by the first transactions
\* of a sale whose last one has not been submitted.
WellFormed(d) ==
    /\ d.gold \in [Players -> Nat]
    /\ d.bag \in [Players -> SUBSET Units]
    /\ DOMAIN d.auctions \subseteq 1..MaxAuctions
    /\ Range(d.auctions) \subseteq Auction
    /\ IsABag(d.mails) /\ BagToSet(d.mails) \subseteq Letter
    /\ d.fees \in Int
    /\ d.moving \subseteq Units

TypeOK ==
    /\ WellFormed(disk)
    /\ Len(queue) <= MaxQueue
    /\ \A i \in 1..Len(queue) :
          CASE queue[i].kind = "commit" -> WellFormed(queue[i].contents)
            [] queue[i].kind = "load" -> session[queue[i].for] = "loading"
    /\ overtaken \in BOOLEAN
    /\ world \in {"running", "down"}
    /\ DOMAIN auctions \subseteq 1..MaxAuctions /\ Range(auctions) \subseteq Auction
    /\ aItems \subseteq SUBSET Units
    /\ session \in [Players -> {"offline", "loading", "online"}]
    /\ purse \in [Players -> Nat]
    /\ bag \in [Players -> SUBSET Units]
    /\ loaded \subseteq {p \in Players : session[p] = "online"}
    /\ \A p \in Players : IsABag(box[p]) /\ BagToSet(box[p]) \subseteq Letter
    /\ nextAuction \in 1..(MaxAuctions + 1)
    /\ crashes \in 0..MaxCrashes

NoAuctions == [id \in {} |-> id]
Offline ==
    /\ session' = [p \in Players |-> "offline"]
    /\ purse' = [p \in Players |-> 0]
    /\ bag' = [p \in Players |-> {}]
    /\ loaded' = {}
    /\ box' = [p \in Players |-> EmptyBag]

\* The server runs, nobody is online; the units are with one player.
Init ==
    /\ \E p \in Players :
          disk = [gold |-> [q \in Players |-> StartGold],
                  bag |-> [q \in Players |-> IF q = p THEN Units ELSE {}],
                  auctions |-> NoAuctions, mails |-> EmptyBag,
                  fees |-> 0, moving |-> {}]
    /\ queue = << >>
    /\ overtaken = FALSE
    /\ world = "running"
    /\ auctions = NoAuctions
    /\ aItems = {}
    /\ session = [p \in Players |-> "offline"]
    /\ purse = [p \in Players |-> 0]
    /\ bag = [p \in Players |-> {}]
    /\ loaded = {}
    /\ box = [p \in Players |-> EmptyBag]
    /\ nextAuction = 1
    /\ crashes = 0

-----------------------------------------------------------------------------
(* Money and mails.                                                        *)

Percent(n, pct) == (n * pct) \div 100

\* GetAuctionCut and GetAuctionOutBid
AuctionCut(bid) == Percent(bid, CutPercent)
AuctionOutBid(bid) == IF Percent(bid, 5) = 0 THEN 1 ELSE Percent(bid, 5)

Mail(to, from, money, units, cod) ==
    [to |-> to, from |-> from, money |-> money, units |-> units, cod |-> cod]

\* SendMailTo: the rows of the tables, and the mailbox of a receiver who has
\* opened it.
Sent(letters) == SetToBag({l \in letters : l.money > 0 \/ l.units # {}})
Delivered(boxes, letters) ==
    [p \in Players |-> IF p \in loaded THEN boxes[p] (+) Sent({l \in letters : l.to = p})
                       ELSE boxes[p]]

\* Mutant: the gold is not saved with the inventory.
SavedInventoryAndGold_NoGold(d, p, gold, units) == [d EXCEPT !.bag[p] = units]

\* SaveInventoryAndGoldToDB
SavedInventoryAndGold(d, p, gold, units) ==
    [d EXCEPT !.gold[p] = gold, !.bag[p] = units]

\* The player in memory and what he has left.
Becomes(p, gold, units) ==
    /\ purse' = [purse EXCEPT ![p] = gold]
    /\ bag' = [bag EXCEPT ![p] = units]

Online(p) == world = "running" /\ session[p] = "online"

\* SendAuctionSuccessfulMail: to the owner, in 32 bits.
SuccessfulMail(a) ==
    {Mail(a.owner, House, (a.bid + a.deposit - AuctionCut(a.bid)) % Word, {}, 0)}

\* What sales are for: no cut is greater than the bid with the deposit (of which
\* it is a part as long as CutPercent is at most 100), and what is left fits.
ProfitsFit ==
    \A bid \in (Prices \cup Buyouts) \ {0} :
        bid + Deposit - AuctionCut(bid) \in 0..(Word - 1)
SalesPay == \A bid \in (Prices \cup Buyouts) \ {0} : AuctionCut(bid) < bid + Deposit

\* SendAuctionWonMail and SendAuctionExpiredMail: only if GetAItem finds the item.
WonMail(a) == IF a.units \in aItems THEN {Mail(a.bidder, House, 0, a.units, 0)} ELSE {}
ExpiredMail(a) == IF a.units \in aItems THEN {Mail(a.owner, House, 0, a.units, 0)} ELSE {}

\* SendAuctionOutbiddedMail and SendAuctionCancelledToBidderMail
BidderMail(a) == {Mail(a.bidder, House, a.bid, {}, 0)}

\* Mutant: the bidder before gets nothing back when he is outbid.
Refund_None(a, p) == {}

\* What a bidder before p gets back when p bids.
Refund(a, p) == IF a.bidder \in {NoOne, p} THEN {} ELSE BidderMail(a)

\* Update and DeleteExpiredAuctionsAtStartup: what is sent when an auction ends,
\* and what the house keeps.
Settlement(a) == IF a.bidder = NoOne THEN ExpiredMail(a) ELSE SuccessfulMail(a) \cup WonMail(a)
Kept(a) == IF a.bidder = NoOne THEN a.deposit ELSE AuctionCut(a.bid)

\* DeleteFromDB with the mails of the same transaction.
Ended(d, id, letters, fee) ==
    [d EXCEPT !.auctions = Restrict(@, DOMAIN @ \ {id}),
              !.mails = @ (+) Sent(letters), !.fees = @ + fee]

\* AddAuction, and SaveToDB.
AddAuction(as, id, a) == [i \in DOMAIN as \cup {id} |-> IF i = id THEN a ELSE as[i]]

\* RemoveAItem and RemoveAuction
RemoveAuction(id) ==
    /\ auctions' = Restrict(auctions, DOMAIN auctions \ {id})
    /\ aItems' = aItems \ {auctions[id].units}

-----------------------------------------------------------------------------
(* Auctions.                                                               *)

\* HandleAuctionSellItem. One stack is moved as it is, in one transaction. To
\* sell several stacks or part of one the item is cloned: transactions of their
\* own first take the units out of their stacks (here as one), and the last one
\* saves clone, auction and player.
HandleAuctionSellItem(p, units, whole, start, buyout) ==
    LET auction == [units |-> units, owner |-> p, start |-> start, buyout |-> buyout,
                    bidder |-> NoOne, bid |-> 0, deposit |-> Deposit]
        taken == [Planned EXCEPT !.bag[p] = @ \ units, !.moving = @ \cup units]
        saved == [SavedInventoryAndGold(Planned, p, purse[p] - Deposit, bag[p] \ units)
                    EXCEPT !.auctions = AddAuction(@, nextAuction, auction)]
    IN
    /\ Online(p)
    /\ nextAuction <= MaxAuctions
    /\ units # {} /\ units \subseteq bag[p] /\ units \notin aItems
    /\ purse[p] >= Deposit
    /\ Becomes(p, purse[p] - Deposit, bag[p] \ units)
    /\ auctions' = AddAuction(auctions, nextAuction, auction)
    /\ aItems' = aItems \cup {units}
    /\ nextAuction' = nextAuction + 1
    /\ Commit({p}, IF whole THEN <<saved>> ELSE <<taken, saved>>)
    /\ UNCHANGED <<world, session, mailVars, crashes>>

\* A bid that reaches the price for selling at once pays that price.
IsBuyout(a, price) == a.buyout # 0 /\ price >= a.buyout

\* Mutant: the price is checked against the purse for a buyout only.
MayBid_Poor(p, a, price) ==
    /\ a.owner # p
    /\ price > a.bid /\ price >= a.start
    /\ IsBuyout(a, price) \/ price >= a.bid + AuctionOutBid(a.bid)
    /\ IsBuyout(a, price) => purse[p] >= price

MayBid(p, a, price) ==
    /\ a.owner # p
    /\ price > a.bid /\ price >= a.start
    /\ IsBuyout(a, price) \/ price >= a.bid + AuctionOutBid(a.bid)
    /\ purse[p] >= price

\* Mutant: who raises his own bid pays all of it again.
Cost_Again(p, a, paid) == paid

\* Who raises his own bid pays the difference.
Cost(p, a, paid) == IF a.bidder = p THEN paid - a.bid ELSE paid

\* HandleAuctionPlaceBid
HandleAuctionPlaceBid(p, id, price) ==
    LET a == auctions[id]
        paid == IF IsBuyout(a, price) THEN a.buyout ELSE price
        bidden == [a EXCEPT !.bidder = p, !.bid = paid]
        letters == Refund(a, p) \cup (IF IsBuyout(a, price) THEN Settlement(bidden) ELSE {})
        left == purse[p] - Cost(p, a, paid)
        saved == SavedInventoryAndGold(Planned, p, left, bag[p])
    IN
    /\ Online(p)
    /\ MayBid(p, a, price)
    /\ Becomes(p, left, bag[p])
    /\ box' = Delivered(box, letters)
    /\ IF IsBuyout(a, price)
       THEN /\ RemoveAuction(id)
            /\ Commit({p}, <<Ended(saved, id, letters, Kept(bidden))>>)
       ELSE /\ auctions' = [auctions EXCEPT ![id] = bidden]
            /\ Commit({p}, <<[saved EXCEPT !.auctions[id] = bidden,
                                       !.mails = @ (+) Sent(letters)]>>)
            /\ UNCHANGED aItems
    /\ UNCHANGED <<world, session, loaded, nextAuction, crashes>>

\* HandleAuctionRemoveItem: the owner pays the cut of a bid he turns down.
HandleAuctionRemoveItem(p, id) ==
    LET a == auctions[id]
        bidden == a.bidder # NoOne
        cut == IF bidden THEN AuctionCut(a.bid) ELSE 0
        letters == {Mail(p, House, 0, a.units, 0)} \cup (IF bidden THEN BidderMail(a) ELSE {})
        saved == SavedInventoryAndGold(Planned, p, purse[p] - cut, bag[p])
    IN
    /\ Online(p)
    /\ a.owner = p
    /\ a.units \in aItems
    /\ purse[p] >= cut
    /\ Becomes(p, purse[p] - cut, bag[p])
    /\ box' = Delivered(box, letters)
    /\ RemoveAuction(id)
    /\ Commit({p}, <<Ended(saved, id, letters, a.deposit + cut)>>)
    /\ UNCHANGED <<world, session, loaded, nextAuction, crashes>>

\* AuctionHouseObject::Update, for one auction that has run out. Which have is
\* read from the database, which may be behind.
Update(id) ==
    LET a == auctions[id] IN
    /\ world = "running"
    /\ id \in DOMAIN disk.auctions
    /\ box' = Delivered(box, Settlement(a))
    /\ RemoveAuction(id)
    /\ Commit({}, <<Ended(Planned, id, Settlement(a), Kept(a))>>)
    /\ UNCHANGED <<world, session, purse, bag, loaded, nextAuction, crashes>>

-----------------------------------------------------------------------------
(* Mail.                                                                   *)

\* HandleSendMail: gold, items, items to be paid for on delivery.
HandleSendMail(p, to, money, units, cod) ==
    LET letters == {Mail(to, p, money, units, cod)}
        postage == Postage * Max({1, Cardinality(units)})
        left == purse[p] - (money + postage)
    IN
    /\ Online(p) /\ to # p
    /\ units \subseteq bag[p]
    /\ money > 0 \/ units # {}
    /\ cod > 0 => units # {}
    /\ purse[p] >= money + postage
    /\ Becomes(p, left, bag[p] \ units)
    /\ box' = Delivered(box, letters)
    /\ Commit({p}, <<[SavedInventoryAndGold(Planned, p, left, bag[p] \ units)
                         EXCEPT !.mails = @ (+) Sent(letters), !.fees = @ + postage]>>)
    /\ UNCHANGED <<world, auctions, aItems, session, loaded, nextAuction, crashes>>

LettersTo(p, mails) == {l \in BagToSet(mails) : l.to = p}

\* HandleGetMailList: _LoadMail reads the database at the first call, without
\* the letters that are still queued.
HandleGetMailList(p) ==
    /\ Online(p) /\ p \notin loaded
    /\ loaded' = loaded \cup {p}
    /\ box' = [box EXCEPT ![p] =
                  [l \in LettersTo(p, disk.mails) |-> disk.mails[l]]]
    /\ UNCHANGED <<dbVars, world, auctions, aItems, session, purse, bag, nextAuction, crashes>>

\* A letter changes or goes (now = {}): _SaveMail, and the mailbox.
Rewritten(letters, l, now) == (letters (-) SetToBag({l})) (+) Sent(now)

\* HandleMailTakeMoney
HandleMailTakeMoney(p, l) ==
    LET left == {[l EXCEPT !.money = 0]} IN
    /\ Online(p) /\ l.money > 0
    /\ Becomes(p, purse[p] + l.money, bag[p])
    /\ box' = [box EXCEPT ![p] = Rewritten(@, l, left)]
    /\ Commit({p}, <<[Planned EXCEPT !.gold[p] = purse[p] + l.money,
                                     !.mails = Rewritten(@, l, left)]>>)
    /\ UNCHANGED <<world, auctions, aItems, session, loaded, nextAuction, crashes>>

\* HandleMailTakeItem: the first item taken pays for the whole parcel.
HandleMailTakeItem(p, l, u) ==
    LET left == {[l EXCEPT !.units = @ \ {u}, !.cod = 0]}
        payment == IF l.cod > 0 THEN {Mail(l.from, p, l.cod, {}, 0)} ELSE {}
    IN
    /\ Online(p) /\ u \in l.units /\ purse[p] >= l.cod
    /\ Becomes(p, purse[p] - l.cod, bag[p] \cup {u})
    /\ box' = Delivered([box EXCEPT ![p] = Rewritten(@, l, left)], payment)
    /\ Commit({p}, <<[SavedInventoryAndGold(Planned, p, purse[p] - l.cod, bag[p] \cup {u})
                         EXCEPT !.mails = Rewritten(@, l, left) (+) Sent(payment)]>>)
    /\ UNCHANGED <<world, auctions, aItems, session, loaded, nextAuction, crashes>>

\* HandleMailReturnToSender, which clients offer for mails of players: the old
\* mail is deleted and a new one sent, without what was to be paid.
HandleMailReturnToSender(p, l) ==
    LET back == {Mail(l.from, p, l.money, l.units, 0)} IN
    /\ Online(p) /\ l.from # House
    /\ box' = Delivered([box EXCEPT ![p] = Rewritten(@, l, {})], back)
    /\ Commit({}, <<[Planned EXCEPT !.mails = Rewritten(@, l, {}) (+) Sent(back)]>>)
    /\ UNCHANGED <<world, auctions, aItems, session, purse, bag, loaded, nextAuction, crashes>>

-----------------------------------------------------------------------------
(* Players come and go.                                                    *)

\* HandlePlayerLogin: what the player had is read through the queue.
HandlePlayerLogin(p) ==
    /\ world = "running" /\ session[p] = "offline"
    /\ session' = [session EXCEPT ![p] = "loading"]
    /\ DelayQueryHolder(p)
    /\ UNCHANGED <<world, auctions, aItems, purse, bag, mailVars, nextAuction, crashes>>

\* The answer of LoginQueryHolder, and HandlePlayerLogin with it. Nothing but a
\* player's own handlers touches gold and bag, so nothing can come between.
LoginHolderAnswered(p) ==
    /\ ExecuteQueries(p)
    /\ session' = [session EXCEPT ![p] = "online"]
    /\ Becomes(p, disk.gold[p], disk.bag[p])
    /\ UNCHANGED <<world, auctions, aItems, mailVars, nextAuction, crashes>>

\* LogoutPlayer: SaveToDB, and the player goes.
LogoutPlayer(p) ==
    /\ Online(p)
    /\ session' = [session EXCEPT ![p] = "offline"]
    /\ Becomes(p, 0, {})
    /\ loaded' = loaded \ {p}
    /\ box' = [box EXCEPT ![p] = EmptyBag]
    /\ Commit({p}, <<SavedInventoryAndGold(Planned, p, purse[p], bag[p])>>)
    /\ UNCHANGED <<world, auctions, aItems, nextAuction, crashes>>

\* A worker has executed a transaction.
Save ==
    /\ ExecuteTransaction
    /\ UNCHANGED <<world, auctions, aItems, playerVars, nextAuction, crashes>>

-----------------------------------------------------------------------------
(* Workers are not equally fast.                                           *)

\* The rows in which two tables differ.
Differing(f, g) ==
    {x \in DOMAIN f \cup DOMAIN g : ~(x \in DOMAIN f \cap DOMAIN g /\ f[x] = g[x])}

\* The letters of which the i-th operation that waits takes some away.
GoneBy(i) == DOMAIN (After(i - 1).mails (-) After(i).mails)

\* The players whose rows it writes or, for a login, reads.
PlayersOf(i) ==
    IF queue[i].kind = "load" THEN {queue[i].for}
    ELSE queue[i].by \cup {l.to : l \in GoneBy(i)}
         \cup Differing(After(i - 1).gold, After(i).gold)
         \cup Differing(After(i - 1).bag, After(i).bag)

\* Units it takes out of stacks or puts where they belong.
MovedBy(i) ==
    (After(i - 1).moving \ After(i).moving) \cup (After(i).moving \ After(i - 1).moving)

\* Two operations in a row have rows in common. (Letters with the same contents
\* count as one row.)
Conflict(i) ==
    \/ PlayersOf(i) \cap PlayersOf(i + 1) # {}
    \/ Differing(After(i - 1).auctions, After(i).auctions)
         \cap Differing(After(i).auctions, After(i + 1).auctions) # {}
    \/ Differing(After(i - 1).mails, After(i).mails)
         \cap Differing(After(i).mails, After(i + 1).mails) # {}
    \/ MovedBy(i) \cap MovedBy(i + 1) # {}

\* The rows that change from g to h as they are in h, the others as in f.
Changed(f, g, h) ==
    LET new == Differing(g, h) IN
    [x \in (DOMAIN f \ new) \cup (DOMAIN h \cap new) |-> IF x \in new THEN h[x] ELSE f[x]]

\* What the tables hold when the second of two operations has taken effect and
\* the first has not.
Between(i) ==
    LET a == After(i - 1)
        b == After(i)
        c == After(i + 1)
    IN
    [gold |-> Changed(a.gold, b.gold, c.gold),
     bag |-> Changed(a.bag, b.bag, c.bag),
     auctions |-> Changed(a.auctions, b.auctions, c.auctions),
     mails |-> Changed(a.mails, b.mails, c.mails),
     fees |-> a.fees + (c.fees - b.fees),
     moving |-> (a.moving \ (b.moving \ c.moving)) \cup (c.moving \ b.moving)]

\* The worker that has taken the later of two operations is faster.
Faster(i) ==
    /\ IF Conflict(i) THEN OvertakeInConflict(i) ELSE Overtake(i, Between(i))
    /\ UNCHANGED <<world, auctions, aItems, playerVars, nextAuction, crashes>>

-----------------------------------------------------------------------------
(* The process ends and starts.                                            *)

\* The process ends: memory and queue are lost.
Crash ==
    /\ world = "running" /\ crashes < MaxCrashes
    /\ world' = "down"
    /\ crashes' = crashes + 1
    /\ QueueLost
    /\ auctions' = NoAuctions /\ aItems' = {}
    /\ Offline
    /\ UNCHANGED nextAuction

\* DeleteExpiredAuctionsAtStartup, for one of the auctions it has found. It runs
\* before LoadAuctionItems: GetAItem finds nothing.
DeleteExpiredAuctionsAtStartup(id) ==
    LET a == disk.auctions[id] IN
    /\ world = "down"
    /\ id \in DOMAIN Planned.auctions
    /\ Commit({}, <<Ended(Planned, id, Settlement(a), Kept(a))>>)
    /\ UNCHANGED <<world, auctions, aItems, playerVars, nextAuction, crashes>>

\* LoadAuctionItems and LoadAuctions read the database past the queue; then the
\* world runs.
LoadAuctions ==
    /\ world = "down"
    /\ world' = "running"
    /\ auctions' = disk.auctions
    /\ aItems' = {a.units : a \in Range(disk.auctions)}
    /\ UNCHANGED <<dbVars, playerVars, nextAuction, crashes>>

Handlers ==
    \E p \in Players :
        \/ \E units \in SUBSET bag[p], whole \in BOOLEAN,
              start \in StartPrices, buyout \in Buyouts :
              HandleAuctionSellItem(p, units, whole, start, buyout)
        \/ \E id \in DOMAIN auctions :
              \/ \E price \in Prices : HandleAuctionPlaceBid(p, id, price)
              \/ HandleAuctionRemoveItem(p, id)
        \/ \E to \in Players, units \in SUBSET bag[p],
              money \in MailMoney, cod \in CodPrices :
              HandleSendMail(p, to, money, units, cod)
        \/ HandleGetMailList(p)
        \/ \E l \in BagToSet(box[p]) :
              \/ HandleMailTakeMoney(p, l)
              \/ \E u \in l.units : HandleMailTakeItem(p, l, u)
              \/ HandleMailReturnToSender(p, l)
        \/ HandlePlayerLogin(p)
        \/ LogoutPlayer(p)

Workers ==
    \/ Save
    \/ \E p \in Players : LoginHolderAnswered(p)
    \/ \E i \in 1..(Len(queue) - 1) : Faster(i)

\* After an overtaking in conflict nothing is followed any further.
Lost == overtaken /\ UNCHANGED vars

Next ==
    \/ /\ ~overtaken
       /\ \/ Handlers
          \/ \E id \in DOMAIN auctions : Update(id)
          \/ Workers
          \/ Crash
          \/ LoadAuctions
    \/ Lost

\* No auction runs out while the server is down.
Spec == Init /\ [][Next]_vars

\* Any may.
Expire ==
    ~overtaken /\ \E id \in DOMAIN disk.auctions : DeleteExpiredAuctionsAtStartup(id)
ExpiringSpec == Init /\ [][Next \/ Expire]_vars

-----------------------------------------------------------------------------
(* Properties.                                                             *)

GoldIn(mails, To) ==
    SumFunction([l \in {m \in BagToSet(mails) : m.to \in To} |-> l.money * mails[l]])
BidsBy(as, By) ==
    SumFunction([id \in {i \in DOMAIN as : as[i].bidder \in By} |-> as[id].bid])

Among(u, units) == IF u \in units THEN 1 ELSE 0

\* Every unit is in one inventory, auction or letter, whoever trades with whom.
\* Only a crash between the transactions of one sale leaves units nowhere.
UnitsKept ==
    LET d == Planned IN
    ~overtaken =>
    /\ \A u \in Units :
          SumFunction([p \in Players |-> Among(u, d.bag[p])])
          + SumFunction([id \in DOMAIN d.auctions |-> Among(u, d.auctions[id].units)])
          + SumFunction([l \in BagToSet(d.mails) |-> Among(u, l.units) * d.mails[l]])
          + Among(u, d.moving)
          = 1
    /\ crashes = 0 => d.moving = {}

\* No gold and no unit appears or disappears: what players, letters and auctions
\* hold and what has been paid in fees is the gold there was.
Conservation ==
    LET d == Planned IN
    ~overtaken =>
    /\ SumFunction(d.gold) + GoldIn(d.mails, Players) + d.fees
         + SumFunction([id \in DOMAIN d.auctions |->
                            d.auctions[id].bid + d.auctions[id].deposit])
       = StartGold * Cardinality(Players)
    /\ UnitsKept

\* What is in memory is what the database will hold: the gold and the inventory
\* of players online, the auctions and their items; and no mailbox shows a
\* letter that has been taken, returned or changed.
InMemory ==
    world = "running" =>
        /\ auctions = Planned.auctions
        /\ aItems = {a.units : a \in Range(auctions)}
        /\ \A p \in Players : session[p] = "online" =>
              /\ purse[p] = Planned.gold[p]
              /\ bag[p] = Planned.bag[p]
              /\ p \in loaded => box[p] \sqsubseteq Planned.mails
MemoryIsSaved == ~overtaken => InMemory

\* What a player has in units, and in gold of his own, wherever it is. A parcel
\* that is to be paid for is its sender's.
Goods(p) ==
    UNION ({Planned.bag[p]}
           \cup {l.units : l \in {m \in BagToSet(Planned.mails) :
                                  IF m.cod > 0 THEN m.from = p ELSE m.to = p}}
           \cup {a.units : a \in {b \in Range(Planned.auctions) : b.owner = p}})
Worth(p) == Planned.gold[p] + GoldIn(Planned.mails, {p}) + BidsBy(Planned.auctions, {p})

\* p sends a letter: what is in it is his own to give.
Gives(p) ==
    \E l \in BagToSet(Planned'.mails) :
        l.from = p /\ (l \in BagToSet(Planned.mails) => Planned.mails[l] < Planned'.mails[l])

\* The deposit of a sale and the cut of a bid that is turned down.
PaysFee(p) ==
    \/ \E id \in DOMAIN auctions' \ DOMAIN auctions :
          auctions'[id].owner = p /\ Worth(p) - Worth(p)' = Deposit
    \/ \E id \in DOMAIN auctions \ DOMAIN auctions' :
          auctions[id].owner = p /\ Worth(p) - Worth(p)' = AuctionCut(auctions[id].bid)

\* Trade by auction and on delivery is fair: no step takes units from a player
\* without giving him gold, nor gold without giving him units, but for what he
\* sends away himself and the fees of his own auctions.
FairExchange ==
    [][ ~overtaken' /\ world = "running" /\ world' = "running" /\ Planned' # Planned =>
          \A p \in Players :
            /\ Goods(p) \subseteq Goods(p)' \/ Worth(p)' > Worth(p) \/ Gives(p)
            /\ \/ Worth(p)' >= Worth(p)
               \/ Goods(p)' \ Goods(p) # {}
               \/ Gives(p)
               \/ PaysFee(p)
      ]_vars
=============================================================================
