---------------------------- MODULE TradeProofs ----------------------------
(***************************************************************************)
(* Theorems about trades, for any players, items, slots and sums of gold.  *)
(*                                                                         *)
(* A step changes the trade of two players, or of one who starts one with  *)
(* a second; OthersStay says once that nobody else is concerned.           *)
(***************************************************************************)
EXTENDS Trade, FiniteSetTheorems, TLAPS

TradeType == trade \in [Players -> TradeData \cup {NoTrade}]

TradeInv == TradeType /\ Paired /\ AcceptedAsSeen

LEMMA InitInv == Init => TradeInv
BY DEF Init, TradeInv, TradeType, Paired, AcceptedAsSeen, Trades

\* What it is to be right for one player, after a step.
PairedWith(p) ==
    Trades(p) => Trader(p) # p /\ Trader(p) \in Players
                 /\ Trades(Trader(p)) /\ Trader(Trader(p)) = p
SeenBy(p) ==
    Trades(p) /\ trade[p].accepted => seen[p] = <<trade[p].offer, trade[Trader(p)].offer>>

\* A step that concerns players who trade with one another only, or not yet,
\* leaves the trades of all others right.
LEMMA OthersStay ==
    ASSUME TradeInv, TradeType',
           NEW S \in SUBSET Players, NEW accepting \in SUBSET S,
           \A r \in S : Trades(r) => Trader(r) \in S,
           \A r \in Players \ S : trade'[r] = trade[r],
           Remembered(accepting),
           \A r \in S : PairedWith(r)' /\ SeenBy(r)'
    PROVE  TradeInv'
<1>1. ASSUME NEW r \in Players \ S, trade[r] # NoTrade
      PROVE  /\ trade[r].trader # r
             /\ trade[r].trader \in Players \ S
             /\ trade[trade[r].trader] # NoTrade
             /\ trade[trade[r].trader].trader = r
  <2>1. trade[r].trader # r /\ Trades(trade[r].trader) /\ Trader(trade[r].trader) = r
    BY <1>1 DEF TradeInv, Paired, Trades, Trader
  <2>2. trade[r].trader \in Players
    BY <1>1 DEF TradeInv, TradeType, TradeData
  <2> QED
    BY <2>1, <2>2, <1>1 DEF Trades, Trader
<1>2. Paired'
  <2> SUFFICES ASSUME NEW r \in Players PROVE PairedWith(r)'
    BY DEF Paired, PairedWith
  <2>1. CASE r \in S
    BY <2>1
  <2>2. CASE r \notin S
    BY <2>2, <1>1 DEF PairedWith, Trades, Trader
  <2> QED
    BY <2>1, <2>2
<1>3. AcceptedAsSeen'
  <2> SUFFICES ASSUME NEW r \in Players PROVE SeenBy(r)'
    BY DEF AcceptedAsSeen, SeenBy
  <2>1. CASE r \in S
    BY <2>1
  <2>2. CASE r \notin S
    <3> SUFFICES ASSUME trade[r] # NoTrade, trade[r].accepted
                 PROVE  seen'[r] = <<trade'[r].offer, trade'[trade'[r].trader].offer>>
      BY <2>2 DEF SeenBy, Trades, Trader
    <3>1. seen'[r] = seen[r]
      BY <2>2 DEF Remembered
    <3>2. seen[r] = <<trade[r].offer, trade[trade[r].trader].offer>>
      BY DEF TradeInv, AcceptedAsSeen, Trades, Trader
    <3> QED
      BY <3>1, <3>2, <2>2, <1>1
  <2> QED
    BY <2>1, <2>2
<1> QED
  BY <1>2, <1>3 DEF TradeInv

\* Who trades, and with whom.
LEMMA PartnerFacts ==
    ASSUME TradeInv, NEW p \in Players, Trades(p)
    PROVE  /\ Trader(p) \in Players /\ Trader(p) # p
           /\ Trades(Trader(p)) /\ Trader(Trader(p)) = p
           /\ trade[p] \in TradeData /\ trade[Trader(p)] \in TradeData
           /\ Both(p) \in SUBSET Players
           /\ \A r \in Both(p) : Trades(r) => Trader(r) \in Both(p)
<1>1. Trader(p) # p /\ Trades(Trader(p)) /\ Trader(Trader(p)) = p
  BY DEF TradeInv, Paired
<1>2. trade[p] \in TradeData
  BY DEF TradeInv, TradeType, Trades
<1>3. Trader(p) \in Players
  BY <1>2 DEF TradeData, Trader
<1>4. trade[Trader(p)] \in TradeData
  BY <1>1, <1>3 DEF TradeInv, TradeType, Trades
<1> QED
  BY <1>1, <1>2, <1>3, <1>4 DEF Both

LEMMA InitiateStep ==
    ASSUME TradeInv, NEW p \in Players, NEW q \in Players, HandleInitiateTrade(p, q)
    PROVE  TradeInv'
<1> DEFINE fresh(r) == [trader |-> r, accepted |-> FALSE, offer |-> EmptyOffer]
<1>1. p # q /\ ~Trades(p) /\ ~Trades(q) /\ Remembered({})
  BY DEF HandleInitiateTrade
<1>2. /\ trade' = [trade EXCEPT ![p] = fresh(q), ![q] = fresh(p)]
      /\ trade \in [Players -> TradeData \cup {NoTrade}]
  BY DEF HandleInitiateTrade, TradeInv, TradeType
<1>3. trade'[p] = fresh(q) /\ trade'[q] = fresh(p)
      /\ \A r \in Players \ {p, q} : trade'[r] = trade[r]
  BY <1>1, <1>2
<1>4. EmptyOffer \in Offer
  BY TradeAssumption DEF EmptyOffer, Offer
<1>5. fresh(p) \in TradeData /\ fresh(q) \in TradeData
  BY <1>4 DEF TradeData
<1>6. TradeType'
  BY <1>2, <1>5 DEF TradeType
<1>7. \A r \in {p, q} : PairedWith(r)' /\ SeenBy(r)'
  BY <1>1, <1>3, <1>5, NoTradeAssumption DEF PairedWith, SeenBy, Trades, Trader
<1>8. \A r \in {p, q} : Trades(r) => Trader(r) \in {p, q}
  BY <1>1
<1>9. {p, q} \in SUBSET Players /\ {} \in SUBSET {p, q}
  OBVIOUS
<1> QED
  BY <1>1, <1>3, <1>6, <1>7, <1>8, <1>9, OthersStay

LEMMA OfferStep ==
    ASSUME TradeInv, NEW p \in Players, NEW offer \in Offer, SetOffer(p, offer)
    PROVE  TradeInv'
<1>1. Trades(p) /\ Remembered({}) /\ Changed(p, offer)
  BY DEF SetOffer
<1> DEFINE q == Trader(p)
<1>2. /\ q \in Players /\ q # p /\ Trades(q) /\ Trader(q) = p
      /\ trade[p] \in TradeData /\ trade[q] \in TradeData
      /\ Both(p) \in SUBSET Players
      /\ \A r \in Both(p) : Trades(r) => Trader(r) \in Both(p)
  BY <1>1, PartnerFacts
<1>3. /\ trade'[p] = [trade[p] EXCEPT !.accepted = FALSE, !.offer = offer]
      /\ trade'[q] = [trade[q] EXCEPT !.accepted = FALSE, !.offer = @]
      /\ \A r \in Players \ Both(p) : trade'[r] = trade[r]
  BY <1>1, <1>2 DEF Changed, Both
<1>4. trade'[p] \in TradeData /\ trade'[q] \in TradeData
  BY <1>2, <1>3 DEF TradeData
<1>5. TradeType'
  <2>1. \A r \in Players : trade'[r] \in TradeData \cup {NoTrade}
    BY <1>3, <1>4 DEF Both, TradeInv, TradeType
  <2> QED
    BY <1>1, <2>1 DEF Changed, TradeType
<1>6. trade'[p].trader = q /\ trade'[q].trader = p /\ ~trade'[p].accepted /\ ~trade'[q].accepted
  BY <1>2, <1>3 DEF TradeData, Trader
<1>7. \A r \in Both(p) : PairedWith(r)' /\ SeenBy(r)'
  BY <1>2, <1>4, <1>6, NoTradeAssumption DEF PairedWith, SeenBy, Trades, Trader, Both
<1> QED
  BY <1>1, <1>2, <1>3, <1>5, <1>7, OthersStay

\* Both acceptances change, the one of p to what he sees.
LEMMA AcceptedStep ==
    ASSUME TradeInv, NEW p \in Players, Trades(p),
           NEW mine \in BOOLEAN, NEW his \in BOOLEAN, Accepted(p, mine, his),
           his => trade[Trader(p)].accepted
    PROVE  TradeInv'
<1>1. PICK q \in Players : q = Trader(p)
  BY PartnerFacts
<1>2. /\ q \in Players /\ q # p /\ Trades(q) /\ Trader(q) = p
      /\ trade[p] \in TradeData /\ trade[q] \in TradeData
      /\ Both(p) \in SUBSET Players
      /\ \A r \in Both(p) : Trades(r) => Trader(r) \in Both(p)
  BY <1>1, PartnerFacts
<1>3. /\ trade'[p] = [trade[p] EXCEPT !.accepted = mine]
      /\ trade'[q] = [trade[q] EXCEPT !.accepted = his]
      /\ \A r \in Players \ Both(p) : trade'[r] = trade[r]
      /\ Remembered({p})
  BY <1>1, <1>2 DEF Accepted, Both, TradeInv, TradeType
<1>4. trade'[p] \in TradeData /\ trade'[q] \in TradeData
  BY <1>2, <1>3 DEF TradeData
<1>5. TradeType'
  <2>1. \A r \in Players : trade'[r] \in TradeData \cup {NoTrade}
    BY <1>1, <1>3, <1>4 DEF Both, TradeInv, TradeType
  <2>2. trade' = [trade EXCEPT ![p].accepted = mine, ![q].accepted = his]
        /\ trade \in [Players -> TradeData \cup {NoTrade}]
    BY <1>1 DEF Accepted, TradeInv, TradeType
  <2> QED
    BY <2>1, <2>2 DEF TradeType
<1>6. /\ trade'[p].trader = q /\ trade'[q].trader = p
      /\ trade'[p].offer = trade[p].offer /\ trade'[q].offer = trade[q].offer
      /\ trade'[p].accepted = mine /\ trade'[q].accepted = his
  BY <1>1, <1>2, <1>3 DEF TradeData, Trader
<1>7. PairedWith(p)' /\ PairedWith(q)'
  BY <1>2, <1>4, <1>6, NoTradeAssumption DEF PairedWith, Trades, Trader
<1>8. SeenBy(p)'
  <2> SUFFICES ASSUME trade'[p] # NoTrade, trade'[p].accepted
               PROVE  seen'[p] = <<trade'[p].offer, trade'[trade'[p].trader].offer>>
    BY DEF SeenBy, Trades, Trader
  <2> QED
    BY <1>1, <1>3, <1>6 DEF Remembered
<1>9. SeenBy(q)'
  <2> SUFFICES ASSUME trade'[q] # NoTrade, trade'[q].accepted
               PROVE  seen'[q] = <<trade'[q].offer, trade'[trade'[q].trader].offer>>
    BY DEF SeenBy, Trades, Trader
  <2>1. seen'[q] = seen[q]
    BY <1>2, <1>3 DEF Remembered
  <2>2. seen[q] = <<trade[q].offer, trade[p].offer>>
    BY <1>1, <1>2, <1>6 DEF TradeInv, AcceptedAsSeen
  <2> QED
    BY <2>1, <2>2, <1>6
<1> QED
  <2>1. \A r \in Both(p) : PairedWith(r)' /\ SeenBy(r)'
    BY <1>1, <1>7, <1>8, <1>9 DEF Both
  <2>2. {p} \in SUBSET Both(p)
    BY DEF Both
  <2> QED
    BY <1>2, <1>3, <1>5, <2>1, <2>2, OthersStay

\* The end of a trade, whether it is cancelled or carried out.
LEMMA EndStep ==
    ASSUME TradeInv, NEW p \in Players, Trades(p), Remembered({}),
           trade' = [q \in Players |-> IF q \in Both(p) THEN NoTrade ELSE trade[q]]
    PROVE  TradeInv'
<1>1. /\ Both(p) \in SUBSET Players
      /\ \A r \in Both(p) : Trades(r) => Trader(r) \in Both(p)
  BY PartnerFacts
<1>2. \A r \in Both(p) : PairedWith(r)' /\ SeenBy(r)'
  BY <1>1 DEF PairedWith, SeenBy, Trades
<1>3. TradeType'
  BY DEF TradeInv, TradeType
<1> QED
  BY <1>1, <1>2, <1>3, OthersStay

LEMMA NextInv == TradeInv /\ [Next]_vars => TradeInv'
<1> SUFFICES ASSUME TradeInv, [Next]_vars PROVE TradeInv'
  OBVIOUS
<1>1. ASSUME NEW p \in Players, NEW q \in Players, HandleInitiateTrade(p, q)
      PROVE  TradeInv'
  BY <1>1, InitiateStep
<1>2. ASSUME NEW p \in Players, Trades(p), NEW gold \in Amounts, HandleSetTradeGold(p, gold)
      PROVE  TradeInv'
  <2>1. [trade[p].offer EXCEPT !.money = gold] \in Offer
    BY <1>2 DEF TradeInv, TradeType, TradeData, Trades, Offer
  <2> QED
    BY <1>2, <2>1, OfferStep DEF HandleSetTradeGold
<1>3. ASSUME NEW p \in Players, Trades(p), NEW slot \in Slots, NEW item \in Items,
             HandleSetTradeItem(p, slot, item)
      PROVE  TradeInv'
  <2>1. [trade[p].offer EXCEPT !.items[slot] = item] \in Offer
    BY <1>3 DEF TradeInv, TradeType, TradeData, Trades, Offer
  <2> QED
    BY <1>3, <2>1, OfferStep DEF HandleSetTradeItem
<1>4. ASSUME NEW p \in Players, Trades(p), NEW slot \in Slots, HandleClearTradeItem(p, slot)
      PROVE  TradeInv'
  <2>1. [trade[p].offer EXCEPT !.items[slot] = NoItem] \in Offer
    BY <1>4 DEF TradeInv, TradeType, TradeData, Trades, Offer
  <2> QED
    BY <1>4, <2>1, OfferStep DEF HandleClearTradeItem
<1>5. ASSUME NEW p \in Players, Trades(p), NEW tradable \in BOOLEAN,
             HandleAcceptTrade(p, tradable)
      PROVE  TradeInv'
  <2>1. trade[Trader(p)].accepted \in BOOLEAN
    BY <1>5, PartnerFacts DEF TradeData
  <2>2. \/ \E mine \in BOOLEAN, his \in BOOLEAN :
              Accepted(p, mine, his) /\ (his => trade[Trader(p)].accepted)
        \/ Exchange(p)
    BY <1>5, <2>1 DEF HandleAcceptTrade
  <2>3. ASSUME NEW mine \in BOOLEAN, NEW his \in BOOLEAN,
               Accepted(p, mine, his), his => trade[Trader(p)].accepted
        PROVE  TradeInv'
    BY <1>5, <2>3, AcceptedStep
  <2>4. CASE Exchange(p)
    BY <1>5, <2>4, EndStep DEF Exchange
  <2> QED
    BY <2>2, <2>3, <2>4
<1>6. ASSUME NEW p \in Players, HandleUnacceptTrade(p)
      PROVE  TradeInv'
  <2>1. Trades(p) /\ Remembered({})
        /\ trade' = [trade EXCEPT ![p].accepted = FALSE]
    BY <1>6 DEF HandleUnacceptTrade
  <2>2. /\ Trader(p) \in Players /\ Trader(p) # p /\ Trades(Trader(p)) /\ Trader(Trader(p)) = p
        /\ trade[p] \in TradeData /\ trade[Trader(p)] \in TradeData
        /\ trade[Trader(p)].accepted \in BOOLEAN
    BY <2>1, PartnerFacts DEF TradeData
  <2>3. trade' = [trade EXCEPT ![p].accepted = FALSE,
                               ![Trader(p)].accepted = trade[Trader(p)].accepted]
    <3>1. [trade[Trader(p)] EXCEPT !.accepted = trade[Trader(p)].accepted] = trade[Trader(p)]
      BY <2>2 DEF TradeData
    <3> QED
      BY <2>1, <2>2, <3>1 DEF TradeInv, TradeType
  <2>4. Remembered({p})
    <3>1. ~trade'[p].accepted
      BY <2>1, <2>2 DEF TradeInv, TradeType, TradeData
    <3> QED
      BY <2>1, <3>1 DEF Remembered
  <2>5. Accepted(p, FALSE, trade[Trader(p)].accepted)
    BY <2>3, <2>4 DEF Accepted
  <2> QED
    BY <2>1, <2>2, <2>5, AcceptedStep
<1>7. ASSUME NEW p \in Players, TradeCancel(p)
      PROVE  TradeInv'
  BY <1>7, EndStep DEF TradeCancel
<1>8. CASE UNCHANGED <<trade, seen>>
  BY <1>8 DEF TradeInv, TradeType, Paired, AcceptedAsSeen, Trades, Trader
<1>9. ASSUME NEW p \in Players, Outside(p)
      PROVE  TradeInv'
  BY <1>8, <1>9 DEF Outside, LoseItem, FindItem, SpendGold
<1>10. CASE UNCHANGED vars
  BY <1>8, <1>10 DEF vars
<1> QED
  BY <1>1, <1>2, <1>3, <1>4, <1>5, <1>6, <1>7, <1>9, <1>10 DEF Next

\* Trades are between two, whoever starts and ends them in whatever order.
THEOREM TradesArePaired == Spec => []Paired
<1>1. TradeInv => Paired
  BY DEF TradeInv
<1> QED
  BY <1>1, InitInv, NextInv, PTL DEF Spec

\* Nobody's acceptance stands for an offer other than the one he accepted, his
\* own or the other's: the sum and the items named, which may have left since.
THEOREM AcceptancesAreForWhatWasSeen == Spec => []AcceptedAsSeen
<1>1. TradeInv => AcceptedAsSeen
  BY DEF TradeInv
<1> QED
  BY <1>1, InitInv, NextInv, PTL DEF Spec
-----------------------------------------------------------------------------
\* The least and the greatest of two numbers.
LEMMA MinOfTwo == \A a, b \in Int : Min({a, b}) = IF a <= b THEN a ELSE b
<1> SUFFICES ASSUME NEW a \in Int, NEW b \in Int
             PROVE  Min({a, b}) = IF a <= b THEN a ELSE b
  OBVIOUS
<1> DEFINE least == IF a <= b THEN a ELSE b
<1>1. least \in {a, b} /\ \A y \in {a, b} : least <= y
  OBVIOUS
<1>2. \A x \in {a, b} : (\A y \in {a, b} : x <= y) => x = least
  OBVIOUS
<1> HIDE DEF least
<1>3. (CHOOSE x \in {a, b} : \A y \in {a, b} : x <= y) = least
  BY <1>1, <1>2
<1> QED
  BY <1>3 DEF Min, least

LEMMA MaxOfTwo == \A a, b \in Int : Max({a, b}) = IF a >= b THEN a ELSE b
<1> SUFFICES ASSUME NEW a \in Int, NEW b \in Int
             PROVE  Max({a, b}) = IF a >= b THEN a ELSE b
  OBVIOUS
<1> DEFINE greatest == IF a >= b THEN a ELSE b
<1>1. greatest \in {a, b} /\ \A y \in {a, b} : greatest >= y
  OBVIOUS
<1>2. \A x \in {a, b} : (\A y \in {a, b} : x >= y) => x = greatest
  OBVIOUS
<1> HIDE DEF greatest
<1>3. (CHOOSE x \in {a, b} : \A y \in {a, b} : x >= y) = greatest
  BY <1>1, <1>2
<1> QED
  BY <1>3 DEF Max, greatest

\* What ModifyMoney leaves a player with: the balance, up to the limit, when he
\* has what he gives, and never more than the limit nor less than nothing.
LEMMA ModifiedFacts ==
    ASSUME TradeInv, purse \in [Players -> 0..MaxMoney], NEW p \in Players, Trades(p)
    PROVE  /\ Modified(p) \in 0..MaxMoney
           /\ HasMoney(p) =>
                LET balance == purse[p] - trade[p].offer.money + trade[Trader(p)].offer.money
                IN  Modified(p) = IF MaxMoney <= balance THEN MaxMoney ELSE balance
<1>1. trade[p].offer.money \in Nat /\ trade[Trader(p)].offer.money \in Nat
  BY PartnerFacts, TradeAssumption DEF TradeData, Offer
<1>2. purse[p] \in Nat /\ MaxMoney \in Nat
  BY TradeAssumption
<1> DEFINE rest == purse[p] - trade[p].offer.money
           kept == IF 0 >= rest THEN 0 ELSE rest
           got  == trade[Trader(p)].offer.money
<1>3. Max({0, rest}) = kept
  BY <1>1, <1>2, MaxOfTwo
<1>4. Modified(p) = IF MaxMoney <= kept + got THEN MaxMoney ELSE kept + got
  <2>1. kept + got \in Int
    BY <1>1, <1>2
  <2> HIDE DEF kept
  <2>2. Modified(p) = Min({MaxMoney, kept + got})
    BY <1>3 DEF Modified
  <2> HIDE DEF got
  <2> QED
    BY <1>2, <2>1, <2>2, MinOfTwo
<1> QED
  BY <1>1, <1>2, <1>4 DEF HasMoney

\* What remains when acceptances are remembered is of the offers there are.
LEMMA RememberedType ==
    ASSUME TypeOK, TradeInv, NEW accepting, Remembered(accepting),
           \A p \in Players : trade'[p] # NoTrade /\ p \in accepting => Trades(p)
    PROVE  seen' \in [Players -> (Offer \X Offer) \cup {NoTrade}]
<1>1. ASSUME NEW p \in Players, trade'[p] # NoTrade, p \in accepting
      PROVE  <<trade[p].offer, trade[Trader(p)].offer>> \in Offer \X Offer
  BY <1>1, PartnerFacts DEF TradeData
<1> QED
  BY <1>1 DEF Remembered, TypeOK

LEMMA TypeStep == TypeOK /\ TradeInv /\ [Next]_vars => TypeOK'
<1> SUFFICES ASSUME TypeOK, TradeInv, [Next]_vars PROVE TypeOK'
  OBVIOUS
<1>1. trade' \in [Players -> TradeData \cup {NoTrade}]
  BY NextInv DEF TradeInv, TradeType
<1> DEFINE ThingsTyped == /\ purse' \in [Players -> 0..MaxMoney]
                          /\ bag' \in [Players -> SUBSET Items]
                          /\ elsewhere' \subseteq Items
           SeenTyped == seen' \in [Players -> (Offer \X Offer) \cup {NoTrade}]
<1>2. ASSUME UNCHANGED <<purse, bag, elsewhere>>
      PROVE  ThingsTyped
  BY <1>2 DEF TypeOK
<1>3. ASSUME NEW p \in Players, NEW q \in Players, HandleInitiateTrade(p, q)
      PROVE  ThingsTyped /\ SeenTyped
  BY <1>2, <1>3, RememberedType DEF HandleInitiateTrade
<1>4. ASSUME NEW p \in Players, NEW offer, SetOffer(p, offer)
      PROVE  ThingsTyped /\ SeenTyped
  BY <1>2, <1>4, RememberedType DEF SetOffer
<1>5. ASSUME NEW p \in Players, HandleUnacceptTrade(p) \/ TradeCancel(p)
      PROVE  ThingsTyped /\ SeenTyped
  BY <1>2, <1>5, RememberedType DEF HandleUnacceptTrade, TradeCancel
<1>6. ASSUME NEW p \in Players, Trades(p), NEW tradable \in BOOLEAN,
             HandleAcceptTrade(p, tradable)
      PROVE  ThingsTyped /\ SeenTyped
  <2>1. ASSUME NEW mine, NEW his, Accepted(p, mine, his), UNCHANGED <<purse, bag, elsewhere>>
        PROVE  ThingsTyped /\ SeenTyped
    BY <1>2, <1>6, <2>1, RememberedType DEF Accepted
  <2>2. CASE Exchange(p)
    <3>1. SeenTyped
      BY <2>2, RememberedType DEF Exchange
    <3>2. \A q \in Both(p) : q \in Players /\ Trades(q)
      BY <1>6, PartnerFacts DEF Both
    <3>3. \A q \in Both(p) : Modified(q) \in 0..MaxMoney
      BY <3>2, ModifiedFacts DEF TypeOK
    <3>4. \A q \in Both(p) : (bag[q] \ Offered(q)) \cup Offered(Trader(q)) \in SUBSET Items
      BY <3>2, PartnerFacts DEF TypeOK, Offered
    <3> QED
      BY <2>2, <3>1, <3>3, <3>4 DEF Exchange, TypeOK
  <2> QED
    BY <1>6, <2>1, <2>2 DEF HandleAcceptTrade
<1>7. ASSUME NEW p \in Players, Outside(p)
      PROVE  ThingsTyped /\ SeenTyped
  <2>1. ASSUME NEW item \in Items, LoseItem(p, item) \/ FindItem(p, item)
        PROVE  ThingsTyped /\ SeenTyped
    BY <2>1 DEF LoseItem, FindItem, TypeOK
  <2>2. CASE SpendGold(p)
    <3>1. purse[p] - 1 \in 0..MaxMoney
      BY <2>2, TradeAssumption DEF SpendGold, TypeOK
    <3> QED
      BY <2>2, <3>1 DEF SpendGold, TypeOK
  <2> QED
    BY <1>7, <2>1, <2>2 DEF Outside
<1>8. CASE UNCHANGED vars
  BY <1>8 DEF vars, TypeOK
<1> QED
  BY <1>1, <1>3, <1>4, <1>5, <1>6, <1>7, <1>8
  DEF Next, HandleSetTradeGold, HandleSetTradeItem, HandleClearTradeItem, TypeOK

LEMMA TypeInvariant == Spec => [](TypeOK /\ TradeInv)
<1>1. Init => TypeOK /\ TradeInv
  BY InitInv, TradeAssumption DEF Init, TypeOK
<1>2. TypeOK /\ TradeInv /\ [Next]_vars => (TypeOK /\ TradeInv)'
  BY TypeStep, NextInv
<1> QED
  BY <1>1, <1>2, PTL DEF Spec

\* Types, and with them that nobody's gold leaves 0..MAX_MONEY_AMOUNT.
THEOREM TradeTypeCorrect == Spec => []TypeOK
BY TypeInvariant, PTL

\* An exchange is the only step that ends a trade and moves anything, it moves
\* what was offered and is there, both ways, and both have room and money for it.
LEMMA ExchangeStep ==
    ASSUME TypeOK, TradeInv, NEW r \in Players, Trades(r), NEW tradable \in BOOLEAN,
           HandleAcceptTrade(r, tradable), NEW p \in Both(r), Exchange(r)
    PROVE  LET q == Trader(p) IN
           /\ trade'[q] = NoTrade
           /\ bag'[p] = (bag[p] \ Offered(p)) \cup Offered(q)
           /\ Cardinality(bag'[p]) <= Capacity
           /\ \/ purse'[p] - purse[p] = trade[q].offer.money - trade[p].offer.money
              \/ /\ purse'[p] = MaxMoney
                 /\ purse[p] - trade[p].offer.money + trade[q].offer.money > MaxMoney
<1>1. PICK q : q = Trader(p)
  OBVIOUS
<1>2. /\ p \in Players /\ q \in Players /\ Trades(p) /\ Trades(q)
      /\ p \in Both(r) /\ q \in Both(r)
      /\ trade[p] \in TradeData /\ trade[q] \in TradeData
  BY <1>1, PartnerFacts DEF Both
<1>3. trade'[q] = NoTrade /\ bag'[p] = (bag[p] \ Offered(p)) \cup Offered(q)
      /\ purse'[p] = Modified(p)
  BY <1>1, <1>2 DEF Exchange
<1>4. HasMoney(p) /\ Fits(p)
  <2>1. trade'[r] = NoTrade
    BY DEF Exchange, Both
  <2>2. ASSUME NEW mine \in BOOLEAN, NEW his \in BOOLEAN
        PROVE  ~Accepted(r, mine, his)
    <3>1. trade[r] \in TradeData /\ r # Trader(r)
      BY PartnerFacts
    <3>2. [trade[r] EXCEPT !.accepted = mine] # NoTrade
      BY <3>1, NoTradeAssumption DEF TradeData
    <3> QED
      BY <2>1, <3>1, <3>2 DEF Accepted, TypeOK
  <2>3. HasMoney(r) /\ HasMoney(Trader(r)) /\ CanComplete(r)
    <3>1. trade[Trader(r)].accepted \in BOOLEAN
      BY PartnerFacts DEF TradeData
    <3> QED
      BY <2>2, <3>1 DEF HandleAcceptTrade
  <2> QED
    BY <2>3 DEF Both, CanComplete
<1>5. Cardinality(bag'[p]) <= Capacity
  <2>1. IsFiniteSet(bag[p] \ Offered(p)) /\ IsFiniteSet(Offered(q))
    <3>1. bag[p] \ Offered(p) \in SUBSET Items /\ Offered(q) \in SUBSET Items
      BY <1>2 DEF TypeOK, Offered
    <3> QED
      BY <3>1, FS_Subset, TradeAssumption
  <2>2. IsFiniteSet((bag[p] \ Offered(p)) \cap Offered(q))
    BY <2>1, FS_Intersection
  <2>3. /\ Cardinality(bag[p] \ Offered(p)) \in Nat /\ Cardinality(Offered(q)) \in Nat
        /\ Cardinality((bag[p] \ Offered(p)) \cap Offered(q)) \in Nat
    BY <2>1, <2>2, FS_CardinalityType
  <2>4. Cardinality(bag'[p]) = Cardinality(bag[p] \ Offered(p)) + Cardinality(Offered(q))
                                 - Cardinality((bag[p] \ Offered(p)) \cap Offered(q))
    BY <1>3, <2>1, FS_Union
  <2> QED
    BY <1>1, <1>4, <2>3, <2>4, TradeAssumption DEF Fits
<1>6. \/ purse'[p] - purse[p] = trade[q].offer.money - trade[p].offer.money
      \/ /\ purse'[p] = MaxMoney
         /\ purse[p] - trade[p].offer.money + trade[q].offer.money > MaxMoney
  <2>1. /\ trade[p].offer.money \in Nat /\ trade[q].offer.money \in Nat
        /\ purse[p] \in Nat /\ MaxMoney \in Nat
    <3>1. trade[p].offer \in Offer /\ trade[q].offer \in Offer
      BY <1>2 DEF TradeData
    <3>2. purse[p] \in 0..MaxMoney /\ Amounts \subseteq Nat /\ MaxMoney \in Nat
      BY <1>2, TradeAssumption DEF TypeOK
    <3>3. trade[p].offer.money \in Amounts /\ trade[q].offer.money \in Amounts
      BY <3>1 DEF Offer
    <3>4. trade[p].offer.money \in Nat /\ trade[q].offer.money \in Nat
      BY <3>2, <3>3, Zenon
    <3>5. purse[p] \in Nat
      BY <3>2
    <3> QED
      BY <3>2, <3>4, <3>5
  <2>2. LET balance == purse[p] - trade[p].offer.money + trade[q].offer.money
        IN  purse'[p] = IF MaxMoney <= balance THEN MaxMoney ELSE balance
    BY <1>1, <1>2, <1>3, <1>4, ModifiedFacts DEF TypeOK
  <2> QED
    BY <2>1, <2>2
<1> QED
  BY <1>1, <1>3, <1>5, <1>6

\* Every exchange is whole, and fits both inventories.
THEOREM ExchangesAreWhole == Spec => ExchangeIsWhole
<1> DEFINE Whole(p) ==
      Trades(p) /\ trade'[p] = NoTrade /\ <<purse, bag>>' # <<purse, bag>> =>
          LET q == Trader(p) IN
          /\ trade'[q] = NoTrade
          /\ bag'[p] = (bag[p] \ Offered(p)) \cup Offered(q)
          /\ Cardinality(bag'[p]) <= Capacity
          /\ \/ purse'[p] - purse[p] = trade[q].offer.money - trade[p].offer.money
             \/ /\ purse'[p] = MaxMoney
                /\ purse[p] - trade[p].offer.money + trade[q].offer.money > MaxMoney
<1>1. TypeOK /\ TradeInv /\ [Next]_vars => [\A p \in Players : Whole(p)]_vars
  <2> SUFFICES ASSUME TypeOK, TradeInv, Next, NEW p \in Players,
                      Trades(p), trade'[p] = NoTrade, <<purse, bag>>' # <<purse, bag>>
               PROVE  Whole(p)
    OBVIOUS
  <2>1. PICK r \in Players, tradable \in BOOLEAN :
            Trades(r) /\ HandleAcceptTrade(r, tradable) /\ Exchange(r)
    BY DEF Next, HandleInitiateTrade, HandleSetTradeGold, HandleSetTradeItem,
           HandleClearTradeItem, SetOffer, HandleUnacceptTrade, TradeCancel, Outside,
           LoseItem, FindItem, SpendGold, Trades, HandleAcceptTrade
  <2>2. p \in Both(r)
    BY <2>1 DEF Exchange, Trades
  <2> QED
    BY <2>1, <2>2, ExchangeStep
<1> QED
  BY <1>1, TypeInvariant, PTL DEF Spec, ExchangeIsWhole
=============================================================================
