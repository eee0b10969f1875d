-------------------------------- MODULE Trade --------------------------------
(***************************************************************************)
(* Trades between players. Each of the two has a TradeData that points to  *)
(* the other player; the exchange takes place when both accept. All        *)
(* handlers run in the world thread, in whatever order packets arrive.     *)
(*                                                                         *)
(* Offers name items by guid: an item can leave the inventory while it is  *)
(* on offer (it is used up, mailed, sold) and counts only while it is      *)
(* there. The slot that is not traded, with the spells cast on it, is left *)
(* out, and so is what makes stacks of items merge.                        *)
(***************************************************************************)
EXTENDS Integers, FiniteSets, FiniteSetsExt, Functions

CONSTANTS
    Players, Items,
    Slots,          \* the slots of an offer: TRADE_SLOT_TRADED_COUNT
    NoItem,         \* an empty slot
    NoTrade,        \* m_trade is NULL
    Amounts,        \* sums of gold players offer
    StartGold,      \* what they have at first
    Capacity,       \* room in an inventory
    MaxMoney        \* MAX_MONEY_AMOUNT

ASSUME TradeAssumption ==
    /\ NoItem \notin Items
    /\ Amounts \subseteq Nat /\ 0 \in Amounts
    /\ StartGold \in Nat /\ MaxMoney \in Nat /\ StartGold <= MaxMoney
    /\ Capacity \in Nat
    /\ IsFiniteSet(Items)

VARIABLES
    trade,      \* m_trade of each player
    purse,      \* money
    bag,        \* inventories
    elsewhere,  \* items that are with nobody who trades: used, mailed, sold
    seen        \* history: both offers as they were when p accepted them

vars == <<trade, purse, bag, elsewhere, seen>>

Offer == [money : Amounts, items : [Slots -> Items \cup {NoItem}]]

TradeData == [trader : Players, accepted : BOOLEAN, offer : Offer]

ASSUME NoTradeAssumption == NoTrade \notin TradeData

TypeOK ==
    /\ trade \in [Players -> TradeData \cup {NoTrade}]
    /\ purse \in [Players -> 0..MaxMoney]
    /\ bag \in [Players -> SUBSET Items]
    /\ elsewhere \subseteq Items
    /\ seen \in [Players -> (Offer \X Offer) \cup {NoTrade}]

Init ==
    /\ trade = [p \in Players |-> NoTrade]
    /\ purse = [p \in Players |-> StartGold]
    /\ bag \in [Players -> SUBSET Items]
    /\ \A p, q \in Players : p # q => bag[p] \cap bag[q] = {}
    /\ \A p \in Players : Cardinality(bag[p]) <= Capacity
    /\ elsewhere = Items \ UNION Range(bag)
    /\ seen = [p \in Players |-> NoTrade]

-----------------------------------------------------------------------------
Trades(p) == trade[p] # NoTrade
Trader(p) == trade[p].trader
Both(p) == {p, Trader(p)}

\* GetItem, for all slots: the items on offer that are still there.
Offered(p) == Range(trade[p].offer.items) \cap bag[p]

\* The history: what is remembered of an acceptance while it stands.
Remembered(accepting) ==
    seen' = [p \in Players |->
               IF trade'[p] = NoTrade \/ ~trade'[p].accepted THEN NoTrade
               ELSE IF p \in accepting THEN <<trade[p].offer, trade[Trader(p)].offer>>
               ELSE seen[p]]

EmptyOffer == [money |-> 0, items |-> [s \in Slots |-> NoItem]]

\* Mutant: whether the other trades already is not asked.
HandleInitiateTrade_OneAsked(p, q) ==
    /\ p # q /\ ~Trades(p)
    /\ trade' = [trade EXCEPT
                   ![p] = [trader |-> q, accepted |-> FALSE, offer |-> EmptyOffer],
                   ![q] = [trader |-> p, accepted |-> FALSE, offer |-> EmptyOffer]]
    /\ Remembered({})
    /\ UNCHANGED <<purse, bag, elsewhere>>

\* HandleInitiateTradeOpcode
HandleInitiateTrade(p, q) ==
    /\ p # q /\ ~Trades(p) /\ ~Trades(q)
    /\ trade' = [trade EXCEPT
                   ![p] = [trader |-> q, accepted |-> FALSE, offer |-> EmptyOffer],
                   ![q] = [trader |-> p, accepted |-> FALSE, offer |-> EmptyOffer]]
    /\ Remembered({})
    /\ UNCHANGED <<purse, bag, elsewhere>>

\* Mutant: the one who changes his offer withdraws his own acceptance only.
Changed_OwnOnly(p, offer) ==
    trade' = [trade EXCEPT ![p].offer = offer, ![p].accepted = FALSE]

\* SetItem and SetMoney: a change of an offer withdraws both acceptances.
Changed(p, offer) ==
    trade' = [q \in Players |->
                IF q \notin Both(p) THEN trade[q]
                ELSE [trade[q] EXCEPT !.accepted = FALSE,
                                      !.offer = IF q = p THEN offer ELSE @]]

SetOffer(p, offer) ==
    /\ Trades(p)
    /\ offer # trade[p].offer
    /\ Changed(p, offer)
    /\ Remembered({})
    /\ UNCHANGED <<purse, bag, elsewhere>>

\* HandleSetTradeGoldOpcode: whether he has it is asked when he accepts.
HandleSetTradeGold(p, gold) == SetOffer(p, [trade[p].offer EXCEPT !.money = gold])

\* HandleSetTradeItemOpcode and HandleClearTradeItemOpcode
HandleSetTradeItem(p, slot, item) ==
    /\ item \in bag[p]
    /\ item \notin Range(trade[p].offer.items)
    /\ SetOffer(p, [trade[p].offer EXCEPT !.items[slot] = item])

HandleClearTradeItem(p, slot) == SetOffer(p, [trade[p].offer EXCEPT !.items[slot] = NoItem])

\* HandleUnacceptTradeOpcode
HandleUnacceptTrade(p) ==
    /\ Trades(p)
    /\ trade' = [trade EXCEPT ![p].accepted = FALSE]
    /\ Remembered({})
    /\ UNCHANGED <<purse, bag, elsewhere>>

\* TradeCancel: either cancels, logs out, takes a flight.
TradeCancel(p) ==
    /\ Trades(p)
    /\ trade' = [q \in Players |-> IF q \in Both(p) THEN NoTrade ELSE trade[q]]
    /\ Remembered({})
    /\ UNCHANGED <<purse, bag, elsewhere>>

-----------------------------------------------------------------------------
(* HandleAcceptTradeOpcode.                                                *)

\* SetAccepted on both sides.
Accepted(p, mine, his) ==
    /\ trade' = [trade EXCEPT ![p].accepted = mine, ![Trader(p)].accepted = his]
    /\ Remembered({p})

HasMoney(p) == purse[p] >= trade[p].offer.money

\* CanStoreItems: what p gives makes room for what he gets.
Fits(p) == Cardinality(bag[p] \ Offered(p)) + Cardinality(Offered(Trader(p))) <= Capacity

\* Mutant: only the one who accepts last is asked for room.
CanComplete_Mine(p) == Fits(p)

\* myCanCompleteTrade and hisCanCompleteTrade
CanComplete(p) == Fits(p) /\ Fits(Trader(p))

\* Mutant: the limit is not looked at.
Modified_Unlimited(p) == purse[p] - trade[p].offer.money + trade[Trader(p)].offer.money

\* ModifyMoney, twice: what p gives goes first, then what he gets comes.
Modified(p) ==
    Min({MaxMoney, Max({0, purse[p] - trade[p].offer.money}) + trade[Trader(p)].offer.money})

\* Everything changes hands and both TradeData go.
Exchange(p) ==
    /\ trade' = [q \in Players |-> IF q \in Both(p) THEN NoTrade ELSE trade[q]]
    /\ purse' = [q \in Players |-> IF q \in Both(p) THEN Modified(q) ELSE purse[q]]
    /\ bag' = [q \in Players |-> IF q \in Both(p)
                                 THEN (bag[q] \ Offered(q)) \cup Offered(Trader(q))
                                 ELSE bag[q]]
    /\ Remembered({})
    /\ UNCHANGED elsewhere

\* tradable: no item of theirs is bound or cannot be traded for another reason.
\* If one is, nothing happens, and the acceptance of p stands.
HandleAcceptTrade(p, tradable) ==
    LET q == Trader(p)
        stays == UNCHANGED <<purse, bag, elsewhere>>
    IN
    /\ Trades(p) /\ Trades(q)
    /\ IF ~HasMoney(p) THEN Accepted(p, FALSE, trade[q].accepted) /\ stays
       ELSE IF ~HasMoney(q) THEN Accepted(p, TRUE, FALSE) /\ stays
       ELSE IF ~tradable \/ ~trade[q].accepted
       THEN Accepted(p, TRUE, trade[q].accepted) /\ stays
       ELSE IF CanComplete(p) THEN Exchange(p)
       ELSE Accepted(p, FALSE, FALSE) /\ stays

\* Outside the trade: an item is used up, mailed or sold; one is found or comes
\* by mail; gold is spent.
LoseItem(p, item) ==
    /\ item \in bag[p]
    /\ bag' = [bag EXCEPT ![p] = @ \ {item}]
    /\ elsewhere' = elsewhere \cup {item}
    /\ UNCHANGED <<trade, purse, seen>>

FindItem(p, item) ==
    /\ item \in elsewhere /\ Cardinality(bag[p]) < Capacity
    /\ bag' = [bag EXCEPT ![p] = @ \cup {item}]
    /\ elsewhere' = elsewhere \ {item}
    /\ UNCHANGED <<trade, purse, seen>>

SpendGold(p) ==
    /\ purse[p] > 0
    /\ purse' = [purse EXCEPT ![p] = @ - 1]
    /\ UNCHANGED <<trade, bag, elsewhere, seen>>

Outside(p) ==
    \/ \E item \in Items : LoseItem(p, item) \/ FindItem(p, item)
    \/ SpendGold(p)

Next ==
    \E p \in Players :
        \/ \E q \in Players : HandleInitiateTrade(p, q)
        \/ \E gold \in Amounts : Trades(p) /\ HandleSetTradeGold(p, gold)
        \/ \E slot \in Slots :
              \/ \E item \in Items : Trades(p) /\ HandleSetTradeItem(p, slot, item)
              \/ Trades(p) /\ HandleClearTradeItem(p, slot)
        \/ \E tradable \in BOOLEAN : Trades(p) /\ HandleAcceptTrade(p, tradable)
        \/ HandleUnacceptTrade(p)
        \/ TradeCancel(p)
        \/ Outside(p)

Spec == Init /\ [][Next]_vars

-----------------------------------------------------------------------------
(* Properties.                                                             *)

\* Trades are between two: whom a TradeData points to has one that points back.
\* The handlers and TradeCancel follow that pointer, and delete what it finds,
\* without asking.
Paired ==
    \A p \in Players : Trades(p) =>
        Trader(p) # p /\ Trades(Trader(p)) /\ Trader(Trader(p)) = p

\* An acceptance that stands is for the offers as they are, his own and the
\* other's: since he accepted, neither has changed the gold or named other items.
\* It is no promise that the items named are still there. One that has left its
\* owner's inventory, like one used from a stack, withdraws no acceptance, and
\* who accepted pays the whole price for what is left (ExchangeIsWhole).
AcceptedAsSeen ==
    \A p \in Players : Trades(p) /\ trade[p].accepted =>
        seen[p] = <<trade[p].offer, trade[Trader(p)].offer>>

\* A trade that is carried out moves the gold that was offered and the items on
\* offer that are still there, both ways or not at all, into inventories that
\* have room for them ("A roll back is not possible after we stored it"). Gold
\* is lost only by one who reaches the limit.
ExchangeIsWhole ==
    [][ \A p \in Players : Trades(p) /\ trade'[p] = NoTrade /\ <<purse, bag>>' # <<purse, bag>> =>
          LET q == Trader(p) IN
          /\ trade'[q] = NoTrade
          /\ bag'[p] = (bag[p] \ Offered(p)) \cup Offered(q)
          /\ Cardinality(bag'[p]) <= Capacity
          /\ \/ purse'[p] - purse[p] = trade[q].offer.money - trade[p].offer.money
             \/ /\ purse'[p] = MaxMoney
                /\ purse[p] - trade[p].offer.money + trade[q].offer.money > MaxMoney
      ]_vars
=============================================================================
