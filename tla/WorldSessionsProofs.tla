------------------------ MODULE WorldSessionsProofs ------------------------
(***************************************************************************)
(* Theorems about the sessions of the world and their waiting queue, for   *)
(* any accounts, limits and numbers of logins.                             *)
(***************************************************************************)
EXTENDS WorldSessions, FiniteSetTheorems, TLAPS

Distinct(q) == \A i, j \in 1..Len(q) : q[i] = q[j] => i = j

Waiting(l, s) == Contains(l.order, s)

\* A waiting queue that is right by itself: nobody stands in it twice, and
\* everybody in it is held back and knows his position.
LineType == [order : Seq(Session), flagged : SUBSET Session,
             told : [Session -> 0..Cardinality(Accounts)]]

LineOK(l) ==
    /\ l \in LineType
    /\ Distinct(l.order) /\ Len(l.order) <= Cardinality(Accounts)
    /\ \A i \in 1..Len(l.order) : l.order[i] \in l.flagged /\ l.told[l.order[i]] = i

-----------------------------------------------------------------------------
(* Sequences without repetition.                                           *)

LEMMA PositionFacts ==
    ASSUME NEW S, NEW q \in Seq(S), Distinct(q), NEW i \in 1..Len(q)
    PROVE  Position(q, q[i]) = i /\ Contains(q, q[i])
<1>1. \A j \in 1..Len(q) : q[j] = q[i] <=> j = i
  BY DEF Distinct
<1>2. (CHOOSE j \in 1..Len(q) : q[j] = q[i]) = i
  BY <1>1
<1> QED
  BY <1>2 DEF Position, Contains

LEMMA ConcatFacts ==
    ASSUME NEW S, NEW s \in Seq(S), NEW t \in Seq(S)
    PROVE  /\ s \o t \in Seq(S) /\ Len(s \o t) = Len(s) + Len(t)
           /\ \A i \in 1..(Len(s) + Len(t)) :
                 (s \o t)[i] = IF i <= Len(s) THEN s[i] ELSE t[i - Len(s)]
OBVIOUS

\* A sequence with the element at position p taken out.
LEMMA RemoveAtFacts ==
    ASSUME NEW S, NEW q \in Seq(S), NEW p \in 1..Len(q)
    PROVE  LET r == SubSeq(q, 1, p - 1) \o SubSeq(q, p + 1, Len(q))
           IN  /\ r \in Seq(S) /\ Len(r) = Len(q) - 1
               /\ \A i \in 1..(Len(q) - 1) : r[i] = IF i < p THEN q[i] ELSE q[i + 1]
<1> DEFINE f == SubSeq(q, 1, p - 1)
           b == SubSeq(q, p + 1, Len(q))
           n == Len(q)
<1>1. n \in Nat /\ p \in 1..n /\ \A i \in 1..n : q[i] \in S
  OBVIOUS
<1>2. f \in Seq(S) /\ Len(f) = p - 1 /\ \A i \in 1..(p - 1) : f[i] = q[i]
  BY <1>1
<1>3. b \in Seq(S) /\ Len(b) = n - p /\ \A i \in 1..(n - p) : b[i] = q[p + i]
  BY <1>1
<1> HIDE DEF f, b
<1>4. f \o b \in Seq(S) /\ Len(f \o b) = Len(f) + Len(b)
      /\ \A i \in 1..(Len(f) + Len(b)) : (f \o b)[i] = IF i <= Len(f) THEN f[i] ELSE b[i - Len(f)]
  BY <1>2, <1>3, ConcatFacts
<1> HIDE DEF n
<1>5. ASSUME NEW i \in 1..(n - 1)
      PROVE  (f \o b)[i] = IF i < p THEN q[i] ELSE q[i + 1]
  <2>1. i \in 1..(Len(f) + Len(b))
    BY <1>1, <1>2, <1>3
  <2>2. CASE i < p
    BY <1>1, <1>2, <1>4, <2>1, <2>2
  <2>3. CASE ~(i < p)
    <3>1. ~(i <= Len(f)) /\ i - Len(f) \in 1..(n - p) /\ p + (i - Len(f)) = i + 1
      BY <1>1, <1>2, <2>3
    <3> QED
      BY <1>3, <1>4, <2>1, <2>3, <3>1
  <2> QED
    BY <2>2, <2>3
<1>6. Len(f \o b) = n - 1
  BY <1>1, <1>2, <1>3, <1>4
<1> QED
  BY <1>4, <1>5, <1>6 DEF f, b, n

\* RemoveFirst takes out s, wherever it stands, or nothing.
LEMMA RemoveFirstFacts ==
    ASSUME NEW S, NEW q \in Seq(S), Distinct(q), NEW s
    PROVE  /\ ~Contains(q, s) => RemoveFirst(q, s) = q
           /\ Contains(q, s) =>
                /\ Position(q, s) \in 1..Len(q) /\ q[Position(q, s)] = s
                /\ RemoveFirst(q, s) = SubSeq(q, 1, Position(q, s) - 1)
                                       \o SubSeq(q, Position(q, s) + 1, Len(q))
<1>1. ASSUME ~Contains(q, s) PROVE RemoveFirst(q, s) = q
  BY <1>1 DEF Contains, RemoveFirst
<1>2. ASSUME Contains(q, s)
      PROVE  /\ Position(q, s) \in 1..Len(q) /\ q[Position(q, s)] = s
             /\ RemoveFirst(q, s) = SubSeq(q, 1, Position(q, s) - 1)
                                    \o SubSeq(q, Position(q, s) + 1, Len(q))
  <2>1. PICK p \in 1..Len(q) : q[p] = s
    BY <1>2 DEF Contains
  <2>2. Position(q, s) = p
    BY <2>1, PositionFacts
  <2>3. {i \in 1..Len(q) : q[i] = s} = {p}
    BY <2>1 DEF Distinct
  <2>4. Min({p}) = p
    <3>1. p <= p
      OBVIOUS
    <3>2. (CHOOSE x \in {p} : \A y \in {p} : x <= y) = p
      BY <3>1
    <3> QED
      BY <3>2 DEF Min
  <2>5. SelectInSeq(q, LAMBDA v : v = s) = p
    BY <2>3, <2>4 DEF SelectInSeq
  <2>6. RemoveFirst(q, s) = RemoveAt(q, p)
    BY <2>1, <2>5 DEF RemoveFirst
  <2> QED
    BY <2>1, <2>2, <2>6 DEF RemoveAt
<1> QED
  BY <1>1, <1>2

-----------------------------------------------------------------------------
(* What is left of a queue when s has been taken out.                      *)

RestOf(q, s, r) ==
    /\ r \in Seq(Session) /\ Distinct(r) /\ Len(r) <= Len(q)
    /\ \A i \in 1..Len(r) : r[i] # s /\ Contains(q, r[i])
    /\ \A i \in 1..Len(q) : q[i] # s => Contains(r, q[i])

LEMMA RestFacts ==
    ASSUME NEW q \in Seq(Session), Distinct(q), NEW s
    PROVE  /\ RestOf(q, s, RemoveFirst(q, s))
           /\ Contains(q, s) =>
                /\ Position(q, s) \in 1..Len(q)
                /\ Len(RemoveFirst(q, s)) = Len(q) - 1
                /\ \A i \in 1..(Len(q) - 1) :
                      RemoveFirst(q, s)[i] = IF i < Position(q, s) THEN q[i] ELSE q[i + 1]
           /\ ~Contains(q, s) => RemoveFirst(q, s) = q
<1>1. CASE ~Contains(q, s)
  <2>1. RemoveFirst(q, s) = q
    BY <1>1, RemoveFirstFacts
  <2>2. \A i \in 1..Len(q) : q[i] # s /\ Contains(q, q[i])
    BY <1>1 DEF Contains
  <2> QED
    BY <1>1, <2>1, <2>2 DEF RestOf
<1>2. CASE Contains(q, s)
  <2> DEFINE n == Len(q)
             p == Position(q, s)
             r == RemoveFirst(q, s)
  <2> HIDE DEF p, r
  <2>1. /\ p \in 1..n /\ q[p] = s /\ n \in Nat
        /\ r = SubSeq(q, 1, p - 1) \o SubSeq(q, p + 1, Len(q))
    <3>1. /\ p \in 1..Len(q) /\ q[p] = s
          /\ r = SubSeq(q, 1, p - 1) \o SubSeq(q, p + 1, Len(q))
      BY <1>2, RemoveFirstFacts DEF p, r
    <3> QED
      BY <3>1
  <2>2. /\ r \in Seq(Session) /\ Len(r) = n - 1
        /\ \A i \in 1..(n - 1) : r[i] = IF i < p THEN q[i] ELSE q[i + 1]
    BY <2>1, RemoveAtFacts
  <2> HIDE DEF n
  <2>3. ASSUME NEW i \in 1..(n - 1)
        PROVE  \E k \in 1..n : r[i] = q[k] /\ k # p /\ (i < p => k = i) /\ (~(i < p) => k = i + 1)
    <3>1. CASE i < p
      <4>1. i \in 1..n /\ i # p
        BY <2>1, <3>1
      <4> QED
        BY <2>2, <3>1, <4>1
    <3>2. CASE ~(i < p)
      <4>1. i + 1 \in 1..n /\ i + 1 # p
        BY <2>1, <3>2
      <4> QED
        BY <2>2, <3>2, <4>1
    <3> QED
      BY <3>1, <3>2
  <2>4. \A i, j \in 1..n : q[i] = q[j] => i = j
    BY DEF Distinct, n
  <2>5. \A i \in 1..(n - 1) : r[i] # s /\ Contains(q, r[i])
    <3>1. ASSUME NEW i \in 1..(n - 1) PROVE r[i] # s /\ Contains(q, r[i])
      <4>1. PICK k \in 1..n : r[i] = q[k] /\ k # p
        BY <2>3
      <4> QED
        BY <2>1, <2>4, <4>1 DEF Contains, n
    <3> QED
      BY <3>1
  <2>6. Distinct(r)
    <3>1. ASSUME NEW i \in 1..(n - 1), NEW j \in 1..(n - 1), r[i] = r[j]
          PROVE  i = j
      <4>1. PICK k \in 1..n : r[i] = q[k] /\ (i < p => k = i) /\ (~(i < p) => k = i + 1)
        BY <2>3
      <4>2. PICK l \in 1..n : r[j] = q[l] /\ (j < p => l = j) /\ (~(j < p) => l = j + 1)
        BY <2>3
      <4>3. k = l
        BY <2>4, <3>1, <4>1, <4>2
      <4> QED
        BY <2>1, <4>1, <4>2, <4>3
    <3> QED
      BY <2>2, <3>1 DEF Distinct
  <2>7. ASSUME NEW i \in 1..n, q[i] # s PROVE Contains(r, q[i])
    <3>1. i # p
      BY <2>1, <2>7
    <3>2. CASE i < p
      <4>1. i \in 1..(n - 1)
        BY <2>1, <3>2
      <4>2. r[i] = q[i]
        BY <2>2, <3>2, <4>1
      <4> QED
        BY <2>2, <4>1, <4>2 DEF Contains
    <3>3. CASE ~(i < p)
      <4>1. i - 1 \in 1..(n - 1) /\ ~(i - 1 < p) /\ (i - 1) + 1 = i
        BY <2>1, <3>1, <3>3
      <4>2. r[i - 1] = q[i]
        BY <2>2, <4>1
      <4> QED
        BY <2>2, <4>1, <4>2 DEF Contains
    <3> QED
      BY <3>2, <3>3
  <2>8. Len(r) <= n
    BY <2>1, <2>2
  <2>9. RestOf(q, s, r)
    BY <2>2, <2>5, <2>6, <2>7, <2>8 DEF RestOf, n
  <2> QED
    BY <1>2, <2>1, <2>2, <2>9 DEF n, p, r
<1> QED
  BY <1>1, <1>2

\* The first of r is let in.
LEMMA TailFacts ==
    ASSUME NEW r \in Seq(Session), Distinct(r), r # << >>
    PROVE  /\ Tail(r) \in Seq(Session) /\ Distinct(Tail(r)) /\ Len(Tail(r)) = Len(r) - 1
           /\ Len(r) \in Nat \ {0} /\ Head(r) \in Session /\ Contains(r, Head(r))
           /\ \A i \in 1..Len(Tail(r)) : Tail(r)[i] # Head(r) /\ Contains(r, Tail(r)[i])
           /\ \A i \in 1..Len(r) : r[i] # Head(r) => Contains(Tail(r), r[i])
<1> DEFINE n == Len(r)
           t == Tail(r)
           h == Head(r)
<1>1. /\ n \in Nat \ {0} /\ h = r[1] /\ h \in Session /\ t \in Seq(Session) /\ Len(t) = n - 1
      /\ \A i \in 1..(n - 1) : t[i] = r[i + 1]
  OBVIOUS
<1>2. \A i, j \in 1..n : r[i] = r[j] => i = j
  BY DEF Distinct
<1> HIDE DEF n, t, h
<1>3. \A i \in 1..(n - 1) : i + 1 \in 1..n /\ i + 1 # 1 /\ 1 \in 1..n
  BY <1>1
<1>4. \A i \in 1..(n - 1) : t[i] # h /\ Contains(r, t[i])
  BY <1>1, <1>2, <1>3 DEF Contains, n
<1>5. Distinct(t)
  <2>1. ASSUME NEW i \in 1..(n - 1), NEW j \in 1..(n - 1), t[i] = t[j] PROVE i = j
    <3>1. i + 1 = j + 1
      BY <1>1, <1>2, <1>3, <2>1
    <3> QED
      BY <3>1
  <2> QED
    BY <1>1, <2>1 DEF Distinct
<1>6. ASSUME NEW i \in 1..n, r[i] # h PROVE Contains(t, r[i])
  <2>1. i - 1 \in 1..(n - 1) /\ (i - 1) + 1 = i
    BY <1>1, <1>6
  <2>2. t[i - 1] = r[i]
    BY <1>1, <2>1
  <2> QED
    BY <1>1, <2>1, <2>2 DEF Contains
<1>7. Contains(r, h)
  BY <1>1 DEF Contains, n
<1> QED
  BY <1>1, <1>4, <1>5, <1>6, <1>7 DEF n, t, h

-----------------------------------------------------------------------------
(* The operations on the waiting queue.                                    *)

Places == 0..Cardinality(Accounts)

\* Those from position p on are told theirs.
LEMMA TellFacts ==
    ASSUME NEW told \in [Session -> Places], NEW order \in Seq(Session), Distinct(order),
           Len(order) <= Cardinality(Accounts), NEW p \in Nat \ {0}
    PROVE  /\ Tell(told, order, p) \in [Session -> Places]
           /\ \A i \in 1..Len(order) :
                 Tell(told, order, p)[order[i]] = IF p <= i THEN i ELSE told[order[i]]
<1> DEFINE n == Len(order)
           late == SubSeq(order, p, n)
<1>0. n \in Nat /\ Cardinality(Accounts) \in Nat /\ \A i \in 1..n : order[i] \in Session
  BY SessionsAssumption, FS_CardinalityType
<1>1. \A s : Contains(late, s) <=> \E i \in 1..n : p <= i /\ order[i] = s
  <2>1. CASE p <= n
    <3>1. Len(late) = n - p + 1 /\ \A i \in 1..(n - p + 1) : late[i] = order[p + i - 1]
      BY <2>1, <1>0
    <3> HIDE DEF late, n
    <3>2. ASSUME NEW s, NEW i \in 1..n, p <= i, order[i] = s PROVE Contains(late, s)
      <4>1. i - p + 1 \in 1..(n - p + 1) /\ p + (i - p + 1) - 1 = i
        BY <1>0, <3>2
      <4>2. late[i - p + 1] = s
        BY <3>1, <3>2, <4>1
      <4> QED
        BY <3>1, <4>1, <4>2 DEF Contains
    <3>3. ASSUME NEW s, Contains(late, s) PROVE \E i \in 1..n : p <= i /\ order[i] = s
      <4>1. PICK j \in 1..(n - p + 1) : late[j] = s
        BY <3>1, <3>3 DEF Contains
      <4>2. p + j - 1 \in 1..n /\ p <= p + j - 1
        BY <1>0
      <4> QED
        BY <3>1, <4>1, <4>2
    <3> QED
      BY <3>2, <3>3
  <2>2. CASE ~(p <= n)
    <3>1. Len(late) = 0
      BY <1>0, <2>2
    <3>2. \A i \in 1..n : ~(p <= i)
      BY <1>0, <2>2
    <3> HIDE DEF late, n
    <3>3. \A s : ~Contains(late, s)
      BY <3>1 DEF Contains
    <3> QED
      BY <3>2, <3>3
  <2> QED
    BY <2>1, <2>2
<1>2. Tell(told, order, p)
        = [s \in Session |-> IF Contains(late, s) THEN Position(order, s) ELSE told[s]]
  BY DEF Tell
<1> HIDE DEF late, n
<1>3. \A i \in 1..n : Position(order, order[i]) = i
  BY PositionFacts DEF n
<1>4. ASSUME NEW s \in Session, Contains(late, s) PROVE Position(order, s) \in Places
  <2>1. PICK i \in 1..n : order[i] = s
    BY <1>1, <1>4
  <2>2. i \in Places
    BY <1>0 DEF Places, n
  <2> QED
    BY <1>3, <2>1, <2>2
<1>5. Tell(told, order, p) \in [Session -> Places]
  BY <1>2, <1>4
<1>6. ASSUME NEW i \in 1..n
      PROVE  Tell(told, order, p)[order[i]] = IF p <= i THEN i ELSE told[order[i]]
  <2>1. order[i] \in Session
    BY <1>0
  <2>2. Contains(late, order[i]) <=> p <= i
    <3>1. \A j \in 1..n : order[j] = order[i] => j = i
      BY DEF Distinct, n
    <3> QED
      BY <1>1, <3>1
  <2> QED
    BY <1>2, <1>3, <2>1, <2>2
<1> QED
  BY <1>5, <1>6 DEF n

\* What RemoveQueuedPlayer(s) does to a queue: s is not in it any more, whoever
\* else is not is not held back either, and all know where they stand.
Shrinks(l, s, m) ==
    /\ LineOK(m)
    /\ \A f : Waiting(m, f) => Waiting(l, f) /\ f # s
    /\ m.flagged \subseteq l.flagged
    /\ \A f \in m.flagged : Waiting(l, f) => Waiting(m, f)

LEMMA LineParts ==
    ASSUME NEW l, LineOK(l)
    PROVE  /\ l.order \in Seq(Session) /\ l.flagged \subseteq Session /\ l.told \in [Session -> Places]
           /\ Distinct(l.order) /\ Len(l.order) <= Cardinality(Accounts)
           /\ \A i \in 1..Len(l.order) : l.order[i] \in l.flagged /\ l.told[l.order[i]] = i
BY DEF LineOK, LineType, Places

LEMMA MakeLine ==
    ASSUME NEW order \in Seq(Session), NEW flagged \in SUBSET Session, NEW told \in [Session -> Places],
           Distinct(order), Len(order) <= Cardinality(Accounts),
           \A i \in 1..Len(order) : order[i] \in flagged /\ told[order[i]] = i
    PROVE  LineOK([order |-> order, flagged |-> flagged, told |-> told])
BY DEF LineOK, LineType, Places

LEMMA RemovedFacts ==
    ASSUME NEW l, LineOK(l), NEW s \in Session, NEW count
    PROVE  Shrinks(l, s, RemoveQueuedPlayer(l, s, count))
<1> DEFINE q      == l.order
           found  == Contains(q, s)
           rest   == RemoveFirst(q, s)
           active == count - Len(q)
           others == IF found \/ active = 0 THEN active ELSE active - 1
           pops   == rest # << >> /\ (limit = 0 \/ others < limit)
           order  == IF pops THEN Tail(rest) ELSE rest
           first  == IF pops THEN 1 ELSE IF found THEN Position(q, s) ELSE Len(order) + 1
           out    == (IF found THEN {s} ELSE {}) \cup (IF pops THEN {Head(rest)} ELSE {})
           gone   == IF pops THEN Head(rest) ELSE s
           told   == [Tell(l.told, order, first) EXCEPT ![gone] = 0]
           m      == [order |-> order, flagged |-> l.flagged \ out, told |-> told]
<1>1. RemoveQueuedPlayer(l, s, count) = m
  BY DEF RemoveQueuedPlayer
<1> HIDE DEF active, others
<1> DEFINE room == limit = 0 \/ others < limit
<1>2. /\ q \in Seq(Session) /\ l.flagged \subseteq Session /\ l.told \in [Session -> Places]
      /\ Distinct(q) /\ Len(q) <= Cardinality(Accounts) /\ Len(q) \in Nat
      /\ \A i \in 1..Len(q) : q[i] \in l.flagged /\ l.told[q[i]] = i
      /\ Cardinality(Accounts) \in Nat
  BY LineParts, SessionsAssumption, FS_CardinalityType
<1> HIDE DEF q
<1>3. /\ rest \in Seq(Session) /\ Distinct(rest) /\ Len(rest) <= Len(q) /\ Len(rest) \in Nat
      /\ \A i \in 1..Len(rest) : rest[i] # s /\ Contains(q, rest[i])
      /\ \A i \in 1..Len(q) : q[i] # s => Contains(rest, q[i])
      /\ found => /\ Position(q, s) \in 1..Len(q)
                  /\ Len(rest) = Len(q) - 1
                  /\ \A i \in 1..(Len(q) - 1) :
                        rest[i] = IF i < Position(q, s) THEN q[i] ELSE q[i + 1]
      /\ ~found => rest = q
  BY <1>2, RestFacts DEF RestOf
<1>4. 0 \in Places
  BY <1>2 DEF Places
<1> HIDE DEF found, rest, room
<1> SUFFICES Shrinks(l, s, m)
  BY <1>1
<1>5. CASE pops
  <2> DEFINE t == Tail(rest)
             h == Head(rest)
  <2>1. /\ t \in Seq(Session) /\ Distinct(t) /\ Len(t) = Len(rest) - 1
        /\ h \in Session /\ Contains(rest, h)
        /\ \A i \in 1..Len(t) : t[i] # h /\ Contains(rest, t[i])
        /\ \A i \in 1..Len(rest) : rest[i] # h => Contains(t, rest[i])
    BY <1>3, <1>5, TailFacts
  <2>2. Len(t) <= Cardinality(Accounts) /\ 1 \in Nat \ {0}
    BY <1>2, <1>3, <2>1
  <2> HIDE DEF t, h
  <2>3. /\ Tell(l.told, t, 1) \in [Session -> Places]
        /\ \A i \in 1..Len(t) : Tell(l.told, t, 1)[t[i]] = IF 1 <= i THEN i ELSE l.told[t[i]]
    <3>1. PICK p \in Nat \ {0} : p = 1
      BY <2>2
    <3>2. t \in Seq(Session) /\ Distinct(t) /\ Len(t) <= Cardinality(Accounts)
      BY <2>1, <2>2
    <3>3. l.told \in [Session -> Places]
      BY <1>2
    <3>4. Tell(l.told, t, p) \in [Session -> Places]
      BY <3>2, <3>3, TellFacts
    <3>5. \A i \in 1..Len(t) : Tell(l.told, t, p)[t[i]] = IF p <= i THEN i ELSE l.told[t[i]]
      BY <3>2, <3>3, TellFacts
    <3> QED
      BY <3>1, <3>4, <3>5
  <2>4. order = t /\ told = [Tell(l.told, t, 1) EXCEPT ![h] = 0]
        /\ out = (IF found THEN {s} ELSE {}) \cup {h}
    BY <1>5 DEF t, h
  <2>5. told \in [Session -> Places] /\ \A i \in 1..Len(t) : told[t[i]] = i
    <3>1. \A i \in 1..Len(t) : 1 <= i /\ t[i] # h /\ t[i] \in Session
      BY <2>1
    <3> HIDE DEF told
    <3>2. told \in [Session -> Places]
      BY <1>4, <2>3, <2>4
    <3>3. \A x \in Session : x # h => told[x] = Tell(l.told, t, 1)[x]
      BY <2>3, <2>4
    <3> QED
      BY <2>3, <3>1, <3>2, <3>3
  <2> HIDE DEF told, out, order
  <2>6. \A i \in 1..Len(t) : t[i] # s /\ t[i] # h /\ Contains(q, t[i]) /\ t[i] \in l.flagged
    <3>1. ASSUME NEW i \in 1..Len(t) PROVE t[i] # s /\ t[i] # h /\ Contains(q, t[i]) /\ t[i] \in l.flagged
      <4>1. PICK j \in 1..Len(rest) : rest[j] = t[i]
        BY <2>1 DEF Contains
      <4>2. t[i] # s /\ Contains(q, t[i])
        BY <1>3, <4>1
      <4>3. t[i] \in l.flagged
        BY <1>2, <4>2 DEF Contains
      <4> QED
        BY <2>1, <4>2, <4>3
    <3> QED
      BY <3>1
  <2>7. \A i \in 1..Len(t) : t[i] \in l.flagged \ out
    BY <2>4, <2>6
  <2>8. LineOK(m)
    <3>1. l.flagged \ out \in SUBSET Session
      BY <1>2
    <3> QED
      BY <2>1, <2>2, <2>4, <2>5, <2>7, <3>1, MakeLine
  <2>9. \A f : Contains(t, f) => Contains(q, f) /\ f # s
    BY <2>6 DEF Contains
  <2>10. ASSUME NEW f \in l.flagged \ out, Contains(q, f) PROVE Contains(t, f)
    <3>1. f # h /\ (found => f # s)
      BY <2>4, <2>10
    <3>2. f # s
      BY <2>10, <3>1 DEF found
    <3>3. Contains(rest, f)
      BY <1>3, <2>10, <3>2 DEF Contains
    <3> QED
      BY <2>1, <3>1, <3>3 DEF Contains
  <2> QED
    BY <2>4, <2>8, <2>9, <2>10 DEF Shrinks, Waiting, q
<1>6. CASE ~pops
  <2>1. order = rest /\ out = (IF found THEN {s} ELSE {}) /\ gone = s
        /\ first = (IF found THEN Position(q, s) ELSE Len(rest) + 1)
    BY <1>6
  <2>2. first \in Nat \ {0} /\ Len(rest) <= Cardinality(Accounts)
    <3>1. CASE found
      BY <1>2, <1>3, <2>1, <3>1
    <3>2. CASE ~found
      BY <1>2, <1>3, <2>1, <3>2
    <3> QED
      BY <3>1, <3>2
  <2> HIDE DEF order, first, out, gone
  <2>3. /\ Tell(l.told, rest, first) \in [Session -> Places]
        /\ \A i \in 1..Len(rest) :
              Tell(l.told, rest, first)[rest[i]] = IF first <= i THEN i ELSE l.told[rest[i]]
    BY <1>2, <1>3, <2>2, TellFacts
  <2>4. ASSUME NEW i \in 1..Len(rest), ~(first <= i) PROVE l.told[rest[i]] = i
    <3>1. CASE found
      <4>1. i < Position(q, s) /\ i \in 1..(Len(q) - 1) /\ i \in 1..Len(q)
        BY <1>2, <1>3, <2>1, <2>4, <3>1
      <4>2. rest[i] = q[i]
        BY <1>3, <3>1, <4>1
      <4> QED
        BY <1>2, <4>1, <4>2
    <3>2. CASE ~found
      BY <1>2, <1>3, <3>2
    <3> QED
      BY <3>1, <3>2
  <2>5. told = [Tell(l.told, rest, first) EXCEPT ![s] = 0]
    BY <2>1
  <2> HIDE DEF told
  <2>6. told \in [Session -> Places]
    BY <1>4, <2>3, <2>5
  <2>7. \A i \in 1..Len(rest) : told[rest[i]] = i
    <3>1. ASSUME NEW i \in 1..Len(rest) PROVE told[rest[i]] = i
      <4>1. rest[i] # s /\ rest[i] \in Session
        BY <1>3
      <4>2. told[rest[i]] = Tell(l.told, rest, first)[rest[i]]
        BY <2>3, <2>5, <4>1
      <4>3. CASE first <= i
        BY <2>3, <4>2, <4>3
      <4>4. CASE ~(first <= i)
        BY <2>3, <2>4, <4>2, <4>4
      <4> QED
        BY <4>3, <4>4
    <3> QED
      BY <3>1
  <2>8. \A i \in 1..Len(rest) : rest[i] \in l.flagged \ out /\ rest[i] # s /\ Contains(q, rest[i])
    BY <1>2, <1>3, <2>1 DEF Contains
  <2>9. LineOK(m)
    <3>1. l.flagged \ out \in SUBSET Session
      BY <1>2
    <3> QED
      BY <1>3, <2>1, <2>2, <2>6, <2>7, <2>8, <3>1, MakeLine
  <2>10. \A f : Contains(rest, f) => Contains(q, f) /\ f # s
    BY <2>8 DEF Contains
  <2>11. ASSUME NEW f \in l.flagged \ out, Contains(q, f) PROVE Contains(rest, f)
    <3>1. f # s
      BY <2>1, <2>11 DEF found
    <3> QED
      BY <1>3, <2>11, <3>1 DEF Contains
  <2> QED
    BY <2>1, <2>9, <2>10, <2>11 DEF Shrinks, Waiting, q
<1> QED
  BY <1>5, <1>6

\* Removing twice, as UpdateSessions does, is removing.
LEMMA ShrinksTwice ==
    ASSUME NEW l, NEW m, NEW k, NEW s, Shrinks(l, s, m), Shrinks(m, s, k)
    PROVE  Shrinks(l, s, k)
BY DEF Shrinks

\* When s, which waits no more, is deleted as well, nothing but it is lost.
Leaves(l, s, m) ==
    /\ LineOK(m)
    /\ \A f : Waiting(m, f) => Waiting(l, f)
    /\ m.flagged \subseteq l.flagged \ {s}
    /\ \A f \in m.flagged : Waiting(l, f) => Waiting(m, f)

LEMMA ForgetFacts ==
    ASSUME NEW l, NEW s \in Session, NEW m, Shrinks(l, s, m)
    PROVE  /\ Leaves(l, s, Forget(m, {s}))
           /\ Forget(m, {s}).order = m.order /\ Forget(m, {s}).flagged = m.flagged \ {s}
<1> DEFINE told == [t \in Session |-> IF t \in {s} THEN 0 ELSE m.told[t]]
           k    == [order |-> m.order, flagged |-> m.flagged \ {s}, told |-> told]
<1>0. /\ m.order \in Seq(Session) /\ m.flagged \subseteq Session /\ m.told \in [Session -> Places]
      /\ Distinct(m.order) /\ Len(m.order) <= Cardinality(Accounts)
      /\ \A i \in 1..Len(m.order) : m.order[i] \in m.flagged /\ m.told[m.order[i]] = i
  BY LineParts DEF Shrinks
<1>1. Forget(m, {s}) = k
  <2>1. m \in LineType
    BY DEF Shrinks, LineOK
  <2>2. [m EXCEPT !.flagged = m.flagged \ {s}, !.told = told] = k
    <3> DEFINE r == [m EXCEPT !.flagged = m.flagged \ {s}, !.told = told]
    <3> HIDE DEF told
    <3>1. r \in [order : Seq(Session), flagged : SUBSET Session, told : {told}]
      BY <2>1 DEF LineType
    <3>2. r.order = m.order /\ r.flagged = m.flagged \ {s} /\ r.told = told
      BY <2>1 DEF LineType
    <3> HIDE DEF r
    <3>3. r = [order |-> r.order, flagged |-> r.flagged, told |-> r.told]
      BY <3>1
    <3> QED
      BY <3>2, <3>3 DEF r
  <2>3. [m EXCEPT !.flagged = m.flagged \ {s}].told = m.told
    BY <2>1 DEF LineType
  <2> QED
    BY <2>2, <2>3 DEF Forget
<1>2. 0 \in Places
  BY SessionsAssumption, FS_CardinalityType DEF Places
<1>3. told \in [Session -> Places]
  BY <1>0, <1>2
<1>4. \A i \in 1..Len(m.order) : m.order[i] \in Session /\ m.order[i] # s
  BY <1>0 DEF Shrinks, Waiting, Contains
<1>5. \A i \in 1..Len(m.order) : m.order[i] \in m.flagged \ {s} /\ told[m.order[i]] = i
  BY <1>0, <1>4
<1> HIDE DEF told
<1>6. LineOK(k)
  <2>1. m.flagged \ {s} \in SUBSET Session
    BY <1>0
  <2> QED
    BY <1>0, <1>3, <1>5, <2>1, MakeLine
<1>7. \A f : Waiting(k, f) <=> Waiting(m, f)
  BY DEF Waiting
<1> QED
  BY <1>1, <1>6, <1>7 DEF Leaves, Shrinks

LEMMA ForgetOrder ==
    ASSUME NEW m, LineOK(m), NEW S PROVE Forget(m, S).order = m.order
BY DEF Forget, LineOK, LineType

LEMMA AddedFacts ==
    ASSUME NEW l, LineOK(l), NEW s \in Session, ~Waiting(l, s), Len(l.order) < Cardinality(Accounts)
    PROVE  /\ LineOK(AddQueuedPlayer(l, s))
           /\ \A f : Waiting(AddQueuedPlayer(l, s), f) <=> Waiting(l, f) \/ f = s
           /\ AddQueuedPlayer(l, s).flagged = l.flagged \cup {s}
           /\ Len(AddQueuedPlayer(l, s).order) = Len(l.order) + 1
<1> DEFINE n == Len(l.order)
           order == Append(l.order, s)
           told  == [l.told EXCEPT ![s] = n + 1]
           k     == [order |-> order, flagged |-> l.flagged \cup {s}, told |-> told]
<1>0. /\ l.order \in Seq(Session) /\ l.flagged \subseteq Session /\ l.told \in [Session -> Places]
      /\ Distinct(l.order) /\ n \in Nat /\ Cardinality(Accounts) \in Nat
      /\ \A i \in 1..n : l.order[i] \in l.flagged /\ l.told[l.order[i]] = i
  BY LineParts, SessionsAssumption, FS_CardinalityType
<1>1. AddQueuedPlayer(l, s) = k
  BY DEF AddQueuedPlayer
<1>2. /\ order \in Seq(Session) /\ Len(order) = n + 1 /\ order[n + 1] = s
      /\ \A i \in 1..n : order[i] = l.order[i]
  BY <1>0
<1>3. \A i \in 1..n : l.order[i] # s
  BY DEF Waiting, Contains
<1>4. \A i, j \in 1..n : l.order[i] = l.order[j] => i = j
  BY <1>0 DEF Distinct
<1>5. n < Cardinality(Accounts)
  OBVIOUS
<1> HIDE DEF n, order
<1>6. \A i \in 1..(n + 1) : i \in 1..n \/ i = n + 1
  BY <1>0
<1>7. Distinct(order)
  <2>1. ASSUME NEW i \in 1..(n + 1), NEW j \in 1..(n + 1), order[i] = order[j] PROVE i = j
    BY <1>2, <1>3, <1>4, <1>6, <2>1
  <2> QED
    BY <1>2, <2>1 DEF Distinct
<1>8. n + 1 \in Places /\ n + 1 <= Cardinality(Accounts)
  BY <1>0, <1>5 DEF Places
<1>9. told \in [Session -> Places]
  BY <1>0, <1>8
<1>10. \A i \in 1..(n + 1) : order[i] \in l.flagged \cup {s} /\ told[order[i]] = i
  <2>1. \A i \in 1..n : l.order[i] \in Session /\ told[l.order[i]] = i
    BY <1>0, <1>3
  <2>2. told[s] = n + 1
    BY <1>0
  <2> HIDE DEF told
  <2> QED
    BY <1>0, <1>2, <1>6, <2>1, <2>2
<1> HIDE DEF told
<1>11. LineOK(k)
  <2>1. l.flagged \cup {s} \in SUBSET Session
    BY <1>0
  <2> QED
    BY <1>2, <1>7, <1>8, <1>9, <1>10, <2>1, MakeLine
<1>12. \A f : Contains(order, f) <=> Contains(l.order, f) \/ f = s
  <2>1. \A i \in 1..n : i \in 1..(n + 1)
    BY <1>0
  <2>2. n + 1 \in 1..(n + 1)
    BY <1>0
  <2> QED
    BY <1>2, <1>6, <2>1, <2>2 DEF Contains, n
<1> QED
  BY <1>1, <1>2, <1>11, <1>12 DEF Waiting, n

\* Sessions of different accounts are no more than the accounts.
LEMMA CountLine ==
    ASSUME NEW q \in Seq(Session), NEW B, IsFiniteSet(B),
           \A i \in 1..Len(q) : Account(q[i]) \in B,
           \A i, j \in 1..Len(q) : Account(q[i]) = Account(q[j]) => i = j
    PROVE  /\ Len(q) <= Cardinality(B)
           /\ (\A b \in B : \E i \in 1..Len(q) : Account(q[i]) = b) => Len(q) = Cardinality(B)
<1> DEFINE n == Len(q)
           f == [i \in 1..n |-> Account(q[i])]
<1>0. n \in Nat
  OBVIOUS
<1>1. IsFiniteSet(1..n) /\ Cardinality(1..n) = n
  <2>1. 1 \in Int /\ n \in Int
    BY <1>0
  <2>2. Cardinality(1..n) = IF 1 > n THEN 0 ELSE n - 1 + 1
    BY <2>1, FS_Interval
  <2> QED
    BY <1>0, <2>1, <2>2, FS_Interval
<1>2. f \in Injection(1..n, B)
  BY DEF Injection, IsInjective
<1>3. Cardinality(1..n) <= Cardinality(B) /\ (Cardinality(1..n) = Cardinality(B) <=> f \in Surjection(1..n, B))
  BY <1>2, FS_Injection
<1>4. (\A b \in B : \E i \in 1..n : Account(q[i]) = b) => f \in Surjection(1..n, B)
  BY DEF Surjection
<1> QED
  BY <1>1, <1>3, <1>4

LEMMA SessionFacts ==
    /\ \A s \in Session : Account(s) \in Accounts
    /\ NoSession \notin Session
<1>1. ASSUME NEW s \in Session PROVE s \in Accounts \X Nat
  <2>1. PICK a \in Accounts : s \in {a} \X (1..MaxLogins[a])
    BY DEF Session
  <2> QED
    BY <2>1
<1> QED
  BY <1>1, SessionsAssumption DEF Account

-----------------------------------------------------------------------------
(* The invariant.                                                          *)

StateTypes ==
    /\ alive \subseteq Session
    /\ closed \subseteq alive
    /\ player \in [Session -> {"none", "loading", "inWorld"}]
    /\ limit \in Limits
    /\ disconnects \subseteq Accounts
    /\ phase \in {"idle", "adding", "updating", "stopped"}
    /\ stopping \in BOOLEAN

\* The sessions in m_sessions, each under its account, are not those that wait
\* to be added.
SessionsApart ==
    /\ sessions \in [Accounts -> alive \cup {NoSession}]
    /\ todo \subseteq InWorld
    /\ \A a \in InWorld : Account(sessions[a]) = a
    /\ arrived \in Seq(alive) /\ Distinct(arrived)
    /\ \A i \in 1..Len(arrived) : sessions[Account(arrived[i])] # arrived[i]

\* Only sessions in m_sessions are held back, and those that are and do not wait
\* have been closed by KickAll.
LineInv ==
    /\ LineOK(line)
    /\ \A f \in line.flagged : sessions[Account(f)] = f /\ (Waiting(line, f) \/ f \in closed)

SessionsInv == StateTypes /\ SessionsApart /\ LineInv

-----------------------------------------------------------------------------
(* The invariant is kept by every step.                                    *)

LEMMA EmptyLine ==
    ASSUME NEW flagged \in SUBSET Session, NEW told \in [Session -> Places]
    PROVE  LineOK([order |-> << >>, flagged |-> flagged, told |-> told])
<1>1. PICK order \in Seq(Session) : order = << >>
  <2>1. << >> \in Seq(Session)
    OBVIOUS
  <2> QED
    BY <2>1, Zenon
<1>2. Len(order) = 0 /\ 0 <= Cardinality(Accounts)
  BY <1>1, SessionsAssumption, FS_CardinalityType
<1>3. Distinct(order) /\ \A i \in 1..Len(order) : order[i] \in flagged /\ told[order[i]] = i
  BY <1>2 DEF Distinct
<1>4. LineOK([order |-> order, flagged |-> flagged, told |-> told])
  BY <1>2, <1>3, MakeLine
<1> QED
  BY <1>1, <1>4

LEMMA InitSessions == Init => SessionsInv
<1> SUFFICES ASSUME Init PROVE SessionsInv
  OBVIOUS
<1> DEFINE told == [s \in Session |-> 0]
<1>1. StateTypes
  BY DEF Init, StateTypes
<1>2. InWorld = {}
  BY DEF Init, InWorld
<1>3. SessionsApart
  BY <1>2 DEF Init, SessionsApart, Distinct
<1>4. LineOK(line) /\ line.flagged = {}
  <2>1. 0 \in Places /\ 0 <= Cardinality(Accounts)
    BY SessionsAssumption, FS_CardinalityType DEF Places
  <2>2. told \in [Session -> Places]
    BY <2>1
  <2>3. {} \in SUBSET Session
    OBVIOUS
  <2> HIDE DEF told
  <2>5. LineOK([order |-> << >>, flagged |-> {}, told |-> told])
    BY <2>2, <2>3, EmptyLine
  <2> QED
    BY <2>5 DEF Init, told
<1> QED
  BY <1>1, <1>3, <1>4 DEF SessionsInv, LineInv

\* Those who wait have different accounts.
LEMMA LineCount ==
    ASSUME NEW l, LineOK(l), NEW held, NEW B, IsFiniteSet(B),
           \A f \in l.flagged : held[Account(f)] = f /\ Account(f) \in B
    PROVE  Len(l.order) <= Cardinality(B)
<1>1. /\ l.order \in Seq(Session) /\ Distinct(l.order)
      /\ \A i \in 1..Len(l.order) : l.order[i] \in l.flagged
  BY LineParts
<1>2. \A i \in 1..Len(l.order) : held[Account(l.order[i])] = l.order[i] /\ Account(l.order[i]) \in B
  BY <1>1
<1>3. \A i, j \in 1..Len(l.order) : Account(l.order[i]) = Account(l.order[j]) => i = j
  BY <1>1, <1>2 DEF Distinct
<1> QED
  BY <1>1, <1>2, <1>3, CountLine

LEMMA AdmitFacts ==
    ASSUME NEW l, LineOK(l), NEW s \in Session, s \notin l.flagged,
           Len(l.order) < Cardinality(Accounts), NEW replaces, AdmitOrQueue(s, l, replaces)
    PROVE  /\ LineOK(line')
           /\ line'.flagged \subseteq l.flagged \cup {s}
           /\ \A f : Waiting(l, f) => Waiting(line', f)
           /\ s \in line'.flagged => Waiting(line', s)
<1>1. line' = l \/ line' = AddQueuedPlayer(l, s)
  BY DEF AdmitOrQueue
<1>2. ~Waiting(l, s)
  BY LineParts DEF Waiting, Contains
<1>3. CASE line' = l
  BY <1>3
<1>4. CASE line' = AddQueuedPlayer(l, s)
  <2>1. /\ LineOK(line')
        /\ \A f : Waiting(line', f) <=> Waiting(l, f) \/ f = s
        /\ line'.flagged = l.flagged \cup {s}
    BY <1>2, <1>4, AddedFacts
  <2> QED
    BY <2>1
<1> QED
  BY <1>1, <1>3, <1>4

\* The session at the head of addSessQueue is a new one.
LEMMA HeadOfArrived ==
    ASSUME SessionsInv, arrived # << >>
    PROVE  /\ Head(arrived) \in alive /\ Head(arrived) \in Session
           /\ sessions[Account(Head(arrived))] # Head(arrived)
           /\ Tail(arrived) \in Seq(alive \ {Head(arrived)}) /\ Distinct(Tail(arrived))
           /\ Len(Tail(arrived)) = Len(arrived) - 1
           /\ \A i \in 1..Len(Tail(arrived)) :
                 sessions[Account(Tail(arrived)[i])] # Tail(arrived)[i]
<1> DEFINE q == arrived
           t == Tail(arrived)
           n == Len(arrived)
<1>1. /\ q \in Seq(alive) /\ Distinct(q) /\ alive \subseteq Session
      /\ \A i \in 1..Len(q) : sessions[Account(q[i])] # q[i]
  BY DEF SessionsInv, StateTypes, SessionsApart
<1>2. /\ n \in Nat \ {0} /\ Head(q) = q[1] /\ Head(q) \in alive /\ t \in Seq(alive) /\ Len(t) = n - 1
      /\ \A i \in 1..(n - 1) : t[i] = q[i + 1]
  BY <1>1
<1>3. \A i, j \in 1..n : q[i] = q[j] => i = j
  BY <1>1 DEF Distinct
<1>a. \A i \in 1..n : sessions[Account(q[i])] # q[i]
  BY <1>1
<1> HIDE DEF q, t, n
<1>4. \A i \in 1..(n - 1) : i + 1 \in 1..n /\ i + 1 # 1 /\ 1 \in 1..n
  BY <1>2
<1>5. 1 \in 1..n
  BY <1>2
<1>6. \A i \in 1..(n - 1) : t[i] # Head(q) /\ sessions[Account(t[i])] # t[i]
  BY <1>2, <1>3, <1>4, <1>a
<1>7. Distinct(t)
  <2>1. ASSUME NEW i \in 1..(n - 1), NEW j \in 1..(n - 1), t[i] = t[j] PROVE i = j
    <3>1. i + 1 = j + 1
      BY <1>2, <1>3, <1>4, <2>1
    <3> QED
      BY <3>1
  <2> QED
    BY <1>2, <2>1 DEF Distinct
<1>8. t \in Seq(alive \ {Head(q)})
  BY <1>2, <1>6
<1> QED
  BY <1>1, <1>2, <1>5, <1>6, <1>7, <1>8, <1>a DEF q, t, n

LEMMA AuthSessionStep ==
    ASSUME SessionsInv, NEW a \in Accounts, HandleAuthSession(a) PROVE SessionsInv'
<1>1. PICK n \in 1..MaxLogins[a] :
         <<a, n>> \notin alive /\ alive' = alive \cup {<<a, n>>} /\ arrived' = Append(arrived, <<a, n>>)
  BY DEF HandleAuthSession
<1>2. UNCHANGED <<closed, player, sessions, line, limit, disconnects, phase, todo, stopping>>
  BY DEF HandleAuthSession, threadVars
<1>3. PICK x : x = <<a, n>>
  OBVIOUS
<1>4. x \in Session
  BY <1>3 DEF Session
<1>5. StateTypes'
  BY <1>1, <1>2, <1>3, <1>4 DEF SessionsInv, StateTypes
<1>6. /\ arrived \in Seq(alive) /\ Distinct(arrived) /\ x \notin alive
      /\ arrived' = Append(arrived, x) /\ alive' = alive \cup {x}
      /\ \A i \in 1..Len(arrived) : sessions[Account(arrived[i])] # arrived[i]
      /\ sessions \in [Accounts -> alive \cup {NoSession}]
  BY <1>1, <1>3 DEF SessionsInv, SessionsApart
<1>7. sessions[Account(x)] # x
  <2>1. Account(x) \in Accounts /\ x # NoSession
    BY <1>4, SessionFacts
  <2> QED
    BY <1>6, <2>1
<1>8. arrived' \in Seq(alive') /\ Distinct(arrived')
      /\ \A i \in 1..Len(arrived') : sessions[Account(arrived'[i])] # arrived'[i]
  <2> DEFINE m == Len(arrived)
  <2>1. /\ m \in Nat /\ Len(arrived') = m + 1 /\ arrived'[m + 1] = x /\ arrived' \in Seq(alive')
        /\ \A i \in 1..m : arrived'[i] = arrived[i] /\ arrived[i] \in alive
    BY <1>6
  <2>2. \A i, j \in 1..m : arrived[i] = arrived[j] => i = j
    BY <1>6 DEF Distinct
  <2>3. \A i \in 1..m : sessions[Account(arrived[i])] # arrived[i]
    BY <1>6
  <2> HIDE DEF m
  <2>4. \A i \in 1..(m + 1) : i \in 1..m \/ i = m + 1
    BY <2>1
  <2>5. \A i \in 1..(m + 1), j \in 1..(m + 1) : arrived'[i] = arrived'[j] => i = j
    BY <1>6, <2>1, <2>2, <2>4
  <2>6. \A i \in 1..(m + 1) : sessions[Account(arrived'[i])] # arrived'[i]
    BY <1>7, <2>1, <2>3, <2>4
  <2> QED
    BY <2>1, <2>5, <2>6 DEF Distinct
<1>9. SessionsApart'
  BY <1>2, <1>6, <1>8 DEF SessionsInv, SessionsApart, InWorld
<1>10. LineInv'
  BY <1>2 DEF SessionsInv, LineInv
<1> QED
  BY <1>5, <1>9, <1>10 DEF SessionsInv

LEMMA CloseSocketStep ==
    ASSUME SessionsInv, NEW s \in Session, CloseSocket(s) PROVE SessionsInv'
<1>1. /\ s \in alive /\ closed' = closed \cup {s}
      /\ UNCHANGED <<alive, player, arrived, sessions, line, limit, disconnects, phase, todo, stopping>>
  BY DEF CloseSocket, threadVars
<1> QED
  BY <1>1 DEF SessionsInv, StateTypes, SessionsApart, LineInv, InWorld

LEMMA ControlStep ==
    ASSUME SessionsInv,
           \/ BeginUpdateSessions \/ AllAdded \/ AllUpdated
           \/ \E n \in Limits : SetPlayerAmountLimit(n)
           \/ UNCHANGED vars
    PROVE  SessionsInv'
<1>1. /\ UNCHANGED <<alive, closed, player, arrived, sessions, line, disconnects>>
      /\ limit' \in Limits /\ stopping' \in BOOLEAN
      /\ phase' \in {"idle", "adding", "updating", "stopped"}
      /\ todo' \in {todo, InWorld}
  BY DEF BeginUpdateSessions, AllAdded, AllUpdated, SetPlayerAmountLimit, vars, sessionVars, threadVars,
         SessionsInv, StateTypes
<1>2. InWorld' = InWorld
  BY <1>1 DEF InWorld
<1> QED
  BY <1>1, <1>2 DEF SessionsInv, StateTypes, SessionsApart, LineInv

LEMMA PacketsStep ==
    ASSUME SessionsInv, NEW a \in todo, HandlePackets(a) PROVE SessionsInv'
<1>1. /\ todo' \subseteq todo
      /\ UNCHANGED <<alive, closed, arrived, sessions, line, limit, disconnects, phase, stopping>>
  BY DEF HandlePackets
<1>2. player' \in [Session -> {"none", "loading", "inWorld"}]
  BY DEF HandlePackets, SessionsInv, StateTypes
<1>3. InWorld' = InWorld
  BY <1>1 DEF InWorld
<1> QED
  BY <1>1, <1>2, <1>3 DEF SessionsInv, StateTypes, SessionsApart, LineInv

LEMMA KickAllStep ==
    ASSUME SessionsInv, KickAll, phase' \in {"idle", "adding"}, stopping' \in BOOLEAN
    PROVE  SessionsInv'
<1>1. /\ line' = [line EXCEPT !.order = << >>]
      /\ closed' = closed \cup {sessions[a] : a \in InWorld}
      /\ UNCHANGED <<alive, player, arrived, sessions, limit, disconnects, todo>>
  BY DEF KickAll
<1>2. \A a \in InWorld : sessions[a] \in alive
  BY DEF SessionsInv, SessionsApart, InWorld
<1>3. StateTypes'
  BY <1>1, <1>2 DEF SessionsInv, StateTypes
<1>4. SessionsApart'
  BY <1>1 DEF SessionsInv, SessionsApart, InWorld
<1>5. LineOK(line') /\ line'.flagged = line.flagged
  <2>1. line \in LineType
    BY DEF SessionsInv, LineInv, LineOK
  <2>2. line' = [order |-> << >>, flagged |-> line.flagged, told |-> line.told]
    BY <1>1, <2>1 DEF LineType
  <2>3. line.flagged \in SUBSET Session /\ line.told \in [Session -> Places]
    BY <2>1 DEF LineType, Places
  <2>4. LineOK([order |-> << >>, flagged |-> line.flagged, told |-> line.told])
    BY <2>3, EmptyLine
  <2> QED
    BY <2>2, <2>4
<1>6. ASSUME NEW f \in line.flagged PROVE sessions[Account(f)] = f /\ f \in closed'
  <2>1. f \in Session /\ sessions[Account(f)] = f
    BY LineParts DEF SessionsInv, LineInv
  <2>2. Account(f) \in Accounts /\ f # NoSession
    BY <2>1, SessionFacts
  <2>3. Account(f) \in InWorld
    BY <2>1, <2>2 DEF InWorld
  <2> QED
    BY <1>1, <2>1, <2>3
<1>7. LineInv'
  BY <1>1, <1>5, <1>6 DEF LineInv
<1> QED
  BY <1>3, <1>4, <1>7 DEF SessionsInv

\* A session in m_sessions is under its own account only.
LEMMA OwnAccount ==
    ASSUME SessionsInv, NEW a \in Accounts, NEW b \in Accounts, sessions[a] = sessions[b],
           sessions[a] # NoSession
    PROVE  a = b
BY DEF SessionsInv, SessionsApart, InWorld

LEMMA RefuseStep ==
    ASSUME SessionsInv, arrived # << >>, arrived' = Tail(arrived), RefuseSession(Head(arrived)),
           UNCHANGED <<limit, disconnects, threadVars>>
    PROVE  SessionsInv'
<1> DEFINE s == Head(arrived)
<1>1. /\ alive' = alive \ {s} /\ closed' = closed \ {s} /\ sessions' = sessions /\ line' = line
      /\ player' = [t \in Session |-> IF t \in {s} THEN "none" ELSE player[t]]
      /\ UNCHANGED <<limit, disconnects, phase, todo, stopping>>
  BY DEF RefuseSession, Delete, threadVars
<1>2. /\ s \in alive /\ s \in Session /\ sessions[Account(s)] # s
      /\ Tail(arrived) \in Seq(alive \ {s}) /\ Distinct(Tail(arrived))
      /\ \A i \in 1..Len(Tail(arrived)) : sessions[Account(Tail(arrived)[i])] # Tail(arrived)[i]
  BY HeadOfArrived
<1> HIDE DEF s
<1>3. StateTypes'
  BY <1>1 DEF SessionsInv, StateTypes
<1>4. ASSUME NEW b \in Accounts PROVE sessions[b] # s
  <2>1. s # NoSession
    BY <1>2, SessionFacts
  <2> QED
    BY <1>2, <2>1 DEF SessionsInv, SessionsApart, InWorld
<1>5. sessions' \in [Accounts -> alive' \cup {NoSession}] /\ InWorld' = InWorld
  BY <1>1, <1>4 DEF SessionsInv, SessionsApart, InWorld
<1>6. SessionsApart'
  BY <1>1, <1>2, <1>5 DEF SessionsInv, SessionsApart
<1>7. LineInv'
  <2>1. \A f \in line.flagged : sessions[Account(f)] = f /\ f # s /\ (Waiting(line, f) \/ f \in closed)
    BY <1>2 DEF SessionsInv, LineInv
  <2> QED
    BY <1>1, <2>1 DEF SessionsInv, LineInv
<1> QED
  BY <1>3, <1>6, <1>7 DEF SessionsInv

\* The queue a new session finds when the one it replaces has left.
Replaced(old) ==
    IF old = NoSession THEN line
    ELSE Forget(RemoveQueuedPlayer(line, old, Cardinality(InWorld)), {old})

LEMMA ReplacedFacts ==
    ASSUME SessionsInv, NEW a \in Accounts
    PROVE  Leaves(line, sessions[a], Replaced(sessions[a]))
<1>1. LineOK(line) /\ sessions[a] \in Session \cup {NoSession}
  BY DEF SessionsInv, LineInv, SessionsApart, StateTypes
<1>2. CASE sessions[a] = NoSession
  <2>1. NoSession \notin line.flagged
    BY <1>1, LineParts, SessionFacts
  <2> QED
    BY <1>1, <1>2, <2>1 DEF Replaced, Leaves
<1>3. CASE sessions[a] # NoSession
  <2>1. sessions[a] \in Session
    BY <1>1, <1>3
  <2>2. Shrinks(line, sessions[a], RemoveQueuedPlayer(line, sessions[a], Cardinality(InWorld)))
    BY <1>1, <2>1, RemovedFacts
  <2> QED
    BY <1>3, <2>1, <2>2, ForgetFacts DEF Replaced
<1> QED
  BY <1>2, <1>3

LEMMA AcceptStep ==
    ASSUME SessionsInv, arrived # << >>, arrived' = Tail(arrived),
           AcceptSession(Head(arrived), sessions[Account(Head(arrived))]),
           UNCHANGED <<limit, disconnects, threadVars>>
    PROVE  SessionsInv'
<1> DEFINE s   == Head(arrived)
           a   == Account(s)
           old == sessions[a]
           l   == Replaced(old)
<1>1. /\ alive' = alive \ {old} /\ closed' = closed \ {old}
      /\ sessions' = [sessions EXCEPT ![a] = s]
      /\ player' = [t \in Session |-> IF t \in {old} THEN "none" ELSE player[t]]
      /\ UNCHANGED <<limit, disconnects, phase, todo, stopping>>
  BY DEF AcceptSession, Delete, threadVars
<1>2. \E replaces : AdmitOrQueue(s, l, replaces)
  BY DEF AcceptSession, Replaced
<1>3. /\ s \in alive /\ s \in Session /\ old # s
      /\ Tail(arrived) \in Seq(alive \ {s}) /\ Distinct(Tail(arrived))
      /\ \A i \in 1..Len(Tail(arrived)) : sessions[Account(Tail(arrived)[i])] # Tail(arrived)[i]
  BY HeadOfArrived
<1>4. a \in Accounts /\ s # NoSession
  BY <1>3, SessionFacts
<1>5. Leaves(line, old, l)
  BY <1>4, ReplacedFacts
<1> DEFINE t == Tail(arrived)
<1>6. arrived' = t
  OBVIOUS
<1>7. sessions \in [Accounts -> alive \cup {NoSession}] /\ todo \subseteq InWorld
      /\ \A b \in InWorld : Account(sessions[b]) = b
  BY DEF SessionsInv, SessionsApart
<1>8. a = Account(s) /\ old = sessions[a]
  OBVIOUS
<1> HIDE DEF s, a, old, l, t
<1>9. StateTypes'
  BY <1>1 DEF SessionsInv, StateTypes
<1>10. /\ sessions' \in [Accounts -> alive' \cup {NoSession}]
       /\ InWorld' = InWorld \cup {a}
       /\ \A b \in InWorld' : Account(sessions'[b]) = b
  <2>1. ASSUME NEW b \in Accounts, b # a PROVE sessions[b] \in (alive \ {old}) \cup {NoSession}
    <3>1. sessions[b] # NoSession => sessions[b] # old
      BY <1>4, <1>8, <2>1, OwnAccount
    <3> QED
      BY <1>7, <3>1
  <2>2. sessions' \in [Accounts -> alive' \cup {NoSession}]
    BY <1>1, <1>3, <1>4, <1>7, <2>1
  <2>3. \A b \in Accounts : sessions'[b] = IF b = a THEN s ELSE sessions[b]
    BY <1>1, <1>7
  <2>4. InWorld' = InWorld \cup {a}
    BY <1>4, <2>3 DEF InWorld
  <2> QED
    BY <1>7, <1>8, <2>2, <2>3, <2>4 DEF InWorld
<1>11. SessionsApart'
  <2>1. \A i \in 1..Len(t) : t[i] \in alive \ {s} /\ sessions[Account(t[i])] # t[i]
    BY <1>3 DEF t
  <2>2. ASSUME NEW i \in 1..Len(t) PROVE t[i] # old /\ sessions'[Account(t[i])] # t[i]
    <3>1. t[i] \in Session /\ t[i] # s /\ sessions[Account(t[i])] # t[i]
      BY <2>1 DEF SessionsInv, StateTypes
    <3>2. Account(t[i]) \in Accounts /\ t[i] # NoSession
      BY <3>1, SessionFacts
    <3>3. t[i] # old
      BY <1>4, <1>7, <1>8, <3>1, <3>2 DEF InWorld
    <3> QED
      BY <1>1, <1>4, <1>7, <3>1, <3>2, <3>3
  <2>3. t \in Seq(alive')
    <3>1. t \in Seq(alive \ {s}) /\ \A i \in 1..Len(t) : t[i] \in alive'
      BY <1>1, <1>3, <2>1, <2>2 DEF t
    <3> QED
      BY <3>1
  <2> QED
    BY <1>1, <1>3, <1>6, <1>7, <1>10, <2>2, <2>3 DEF SessionsApart, t
<1>12. \A f \in l.flagged : sessions[Account(f)] = f /\ f \in Session /\ f # old /\ f # s
  <2>1. \A f \in l.flagged : f \in line.flagged /\ f # old
    BY <1>5 DEF Leaves
  <2>2. \A f \in line.flagged : f \in Session /\ sessions[Account(f)] = f
    BY LineParts DEF SessionsInv, LineInv
  <2>3. sessions[Account(s)] # s
    BY <1>3, <1>8
  <2> QED
    BY <2>1, <2>2, <2>3
<1>13. \A f \in l.flagged : Account(f) \in Accounts \ {a}
  BY <1>8, <1>12, SessionFacts
<1>14. LineOK(l) /\ Len(l.order) < Cardinality(Accounts)
  <2>1. LineOK(l)
    BY <1>5 DEF Leaves
  <2>2. IsFiniteSet(Accounts \ {a}) /\ Cardinality(Accounts \ {a}) = Cardinality(Accounts) - 1
    BY <1>4, SessionsAssumption, FS_RemoveElement
  <2>3. Len(l.order) <= Cardinality(Accounts \ {a})
    BY <1>12, <1>13, <2>1, <2>2, LineCount
  <2>4. Len(l.order) \in Nat /\ Cardinality(Accounts) \in Nat
    BY <2>1, LineParts, SessionsAssumption, FS_CardinalityType
  <2> QED
    BY <2>1, <2>2, <2>3, <2>4
<1>15. /\ LineOK(line')
       /\ line'.flagged \subseteq l.flagged \cup {s}
       /\ \A f : Waiting(l, f) => Waiting(line', f)
       /\ s \in line'.flagged => Waiting(line', s)
  BY <1>2, <1>3, <1>12, <1>14, AdmitFacts
<1>16. ASSUME NEW f \in line'.flagged
       PROVE  sessions'[Account(f)] = f /\ (Waiting(line', f) \/ f \in closed')
  <2>1. CASE f = s
    BY <1>1, <1>4, <1>7, <1>8, <1>15, <2>1
  <2>2. CASE f # s
    <3>1. f \in l.flagged
      BY <1>15, <2>2
    <3>2. sessions'[Account(f)] = f
      BY <1>1, <1>7, <1>12, <1>13, <3>1
    <3>3. Waiting(line, f) \/ f \in closed
      BY <1>5, <3>1 DEF Leaves, SessionsInv, LineInv
    <3>4. Waiting(line', f) \/ f \in closed'
      BY <1>1, <1>5, <1>12, <1>15, <3>1, <3>3 DEF Leaves
    <3> QED
      BY <3>2, <3>4
  <2> QED
    BY <2>1, <2>2
<1> QED
  BY <1>9, <1>11, <1>15, <1>16 DEF SessionsInv, LineInv

LEMMA RemoveStep ==
    ASSUME SessionsInv, NEW a \in todo, RemoveSession(a) PROVE SessionsInv'
<1> DEFINE s == sessions[a]
           c == Cardinality(InWorld)
           l == RemoveQueuedPlayer(RemoveQueuedPlayer(line, s, c), s, c)
<1>1. /\ alive' = alive \ {s} /\ closed' = closed \ {s} /\ todo' = todo \ {a}
      /\ sessions' = [sessions EXCEPT ![a] = NoSession]
      /\ player' = [t \in Session |-> IF t \in {s} THEN "none" ELSE player[t]]
      /\ line' = Forget(l, {s})
      /\ disconnects' \in {disconnects, disconnects \cup {a}}
      /\ UNCHANGED <<arrived, limit, phase, stopping>>
  BY DEF RemoveSession, Delete
<1>2. /\ sessions \in [Accounts -> alive \cup {NoSession}] /\ todo \subseteq InWorld
      /\ \A b \in InWorld : Account(sessions[b]) = b
      /\ arrived \in Seq(alive) /\ Distinct(arrived)
      /\ \A i \in 1..Len(arrived) : sessions[Account(arrived[i])] # arrived[i]
      /\ a \in Accounts /\ a \in InWorld /\ alive \subseteq Session
  BY DEF SessionsInv, SessionsApart, InWorld, StateTypes
<1>3. s \in alive /\ s \in Session /\ Account(s) = a /\ s # NoSession
  BY <1>2 DEF InWorld
<1>4. Leaves(line, s, Forget(l, {s}))
  <2>1. LineOK(line)
    BY DEF SessionsInv, LineInv
  <2> HIDE DEF s, c
  <2> DEFINE m == RemoveQueuedPlayer(line, s, c)
  <2>2. Shrinks(line, s, m)
    BY <1>3, <2>1, RemovedFacts
  <2>3. LineOK(m)
    BY <2>2 DEF Shrinks
  <2>4. Shrinks(m, s, RemoveQueuedPlayer(m, s, c))
    <3> HIDE DEF m
    <3> QED
      BY <1>3, <2>3, RemovedFacts
  <2>5. Shrinks(line, s, l)
    BY <2>2, <2>4, ShrinksTwice
  <2> HIDE DEF l
  <2> QED
    BY <1>3, <2>5, ForgetFacts
<1>a. s = sessions[a]
  OBVIOUS
<1> HIDE DEF s, c, l
<1>5. StateTypes'
  BY <1>1, <1>2 DEF SessionsInv, StateTypes
<1>6. /\ sessions' \in [Accounts -> alive' \cup {NoSession}]
      /\ InWorld' = InWorld \ {a}
      /\ \A b \in InWorld' : Account(sessions'[b]) = b
  <2>1. \A b \in Accounts : b # a => sessions[b] \in (alive \ {s}) \cup {NoSession}
    BY <1>2, <1>3 DEF InWorld
  <2>2. sessions' \in [Accounts -> alive' \cup {NoSession}]
    BY <1>1, <1>2, <2>1
  <2>3. \A b \in Accounts : sessions'[b] = IF b = a THEN NoSession ELSE sessions[b]
    BY <1>1, <1>2
  <2>4. InWorld' = InWorld \ {a}
    BY <2>3 DEF InWorld
  <2>5. ASSUME NEW b \in InWorld' PROVE Account(sessions'[b]) = b
    <3>1. b \in InWorld /\ b # a /\ b \in Accounts
      BY <2>4, <2>5 DEF InWorld
    <3> QED
      BY <1>2, <2>3, <3>1
  <2> QED
    BY <2>2, <2>4, <2>5
<1>7. SessionsApart'
  <2>1. ASSUME NEW i \in 1..Len(arrived)
        PROVE  arrived[i] \in alive' /\ sessions'[Account(arrived[i])] # arrived[i]
    <3>1. arrived[i] \in alive /\ arrived[i] \in Session /\ sessions[Account(arrived[i])] # arrived[i]
      BY <1>2
    <3>2. Account(arrived[i]) \in Accounts /\ arrived[i] # NoSession
      BY <3>1, SessionFacts
    <3>3. arrived[i] # s
      BY <1>3, <1>a, <3>1
    <3> QED
      BY <1>1, <1>2, <3>1, <3>2, <3>3
  <2>2. arrived \in Seq(alive')
    BY <1>2, <2>1
  <2> QED
    BY <1>1, <1>2, <1>6, <2>1, <2>2 DEF SessionsApart
<1>8. ASSUME NEW f \in line'.flagged
      PROVE  sessions'[Account(f)] = f /\ (Waiting(line', f) \/ f \in closed')
  <2>1. f \in line.flagged /\ f # s /\ (Waiting(line, f) => Waiting(line', f))
    BY <1>1, <1>4, <1>8 DEF Leaves
  <2>2. sessions[Account(f)] = f /\ f \in Session /\ (Waiting(line, f) \/ f \in closed)
    BY <2>1, LineParts DEF SessionsInv, LineInv
  <2>3. Account(f) \in Accounts \ {a}
    BY <1>a, <2>1, <2>2, SessionFacts
  <2> QED
    BY <1>1, <1>2, <2>1, <2>2, <2>3
<1>9. LineOK(line')
  BY <1>1, <1>4 DEF Leaves
<1> QED
  BY <1>5, <1>7, <1>8, <1>9 DEF SessionsInv, LineInv

LEMMA NextSessions == SessionsInv /\ [Next]_vars => SessionsInv'
<1> SUFFICES ASSUME SessionsInv, [Next]_vars PROVE SessionsInv'
  OBVIOUS
<1>1. CASE BeginUpdateSessions \/ AllAdded \/ AllUpdated
           \/ (\E n \in Limits : SetPlayerAmountLimit(n)) \/ UNCHANGED vars
  BY <1>1, ControlStep
<1>2. CASE AddSession
  <2>1. /\ arrived # << >> /\ arrived' = Tail(arrived)
        /\ UNCHANGED <<limit, disconnects, threadVars>>
    BY <1>2 DEF AddSession
  <2>2. \/ RefuseSession(Head(arrived))
        \/ AcceptSession(Head(arrived), sessions[Account(Head(arrived))])
    BY <1>2 DEF AddSession
  <2> QED
    BY <2>1, <2>2, RefuseStep, AcceptStep
<1>3. ASSUME NEW a \in todo, HandlePackets(a) PROVE SessionsInv'
  BY <1>3, PacketsStep
<1>4. ASSUME NEW a \in todo, RemoveSession(a) PROVE SessionsInv'
  BY <1>4, RemoveStep
<1>5. ASSUME NEW a \in Accounts, HandleAuthSession(a) PROVE SessionsInv'
  BY <1>5, AuthSessionStep
<1>6. ASSUME NEW s \in Session, CloseSocket(s) PROVE SessionsInv'
  BY <1>6, CloseSocketStep
<1>7. CASE KickBeforeShutdown \/ StopWorld
  <2>1. KickAll /\ phase' \in {"idle", "adding"} /\ stopping' \in BOOLEAN
    BY <1>7 DEF KickBeforeShutdown, StopWorld, KickAll, SessionsInv, StateTypes
  <2> QED
    BY <2>1, KickAllStep
<1>8. CASE Stopped
  BY <1>8, ControlStep DEF Stopped
<1> QED
  BY <1>1, <1>2, <1>3, <1>4, <1>5, <1>6, <1>7, <1>8 DEF Next, WorldThread

LEMMA SessionsInvariant == Spec => []SessionsInv
<1>1. Init => SessionsInv
  BY InitSessions
<1>2. SessionsInv /\ [Next]_vars => SessionsInv'
  BY NextSessions
<1> QED
  BY <1>1, <1>2, PTL DEF Spec

-----------------------------------------------------------------------------
(* The theorems.                                                           *)

\* The variables of the world thread and of the network threads have the values
\* World.h declares, for any accounts and limits: only live sessions wait.
THEOREM WorldSessionsTypeCorrect == Spec => []TypeOK
<1>1. SessionsInv => TypeOK
  <2> SUFFICES ASSUME SessionsInv PROVE TypeOK
    OBVIOUS
  <2>1. /\ line.order \in Seq(Session) /\ line.flagged \subseteq Session
        /\ line.told \in [Session -> 0..Cardinality(Accounts)]
        /\ \A i \in 1..Len(line.order) : line.order[i] \in line.flagged
    BY LineParts DEF SessionsInv, LineInv, Places
  <2>2. ASSUME NEW i \in 1..Len(line.order) PROVE line.order[i] \in alive
    <3>1. line.order[i] \in Session /\ sessions[Account(line.order[i])] = line.order[i]
      BY <2>1 DEF SessionsInv, LineInv
    <3>2. Account(line.order[i]) \in Accounts /\ line.order[i] # NoSession
      BY <3>1, SessionFacts
    <3> QED
      BY <3>1, <3>2 DEF SessionsInv, SessionsApart
  <2>3. line.order \in Seq(alive)
    BY <2>1, <2>2
  <2> QED
    BY <2>1, <2>3 DEF SessionsInv, StateTypes, SessionsApart, TypeOK
<1> QED
  BY <1>1, SessionsInvariant, PTL

\* However sessions come, replace one another, leave and are kicked, each that
\* waits is in m_sessions, stands in m_QueuedPlayer once and knows its position,
\* and nobody whose client is there is held back (m_inQueue) without waiting.
THEOREM QueueStaysExact == Spec => []QueueIsExact
<1>1. SessionsInv => QueueIsExact
  <2> SUFFICES ASSUME SessionsInv PROVE QueueIsExact
    OBVIOUS
  <2>1. /\ line.order \in Seq(Session) /\ Distinct(line.order)
        /\ \A i \in 1..Len(line.order) : line.order[i] \in line.flagged /\ line.told[line.order[i]] = i
        /\ \A f \in line.flagged : sessions[Account(f)] = f /\ (Waiting(line, f) \/ f \in closed)
    BY LineParts DEF SessionsInv, LineInv
  <2>2. ASSUME NEW i \in 1..Len(line.order)
        PROVE  /\ sessions[Account(line.order[i])] = line.order[i]
               /\ line.told[line.order[i]] = i
               /\ \A j \in 1..(i - 1) : line.order[i] # line.order[j]
    <3>1. Len(line.order) \in Nat
      BY <2>1
    <3>2. \A j \in 1..(i - 1) : j \in 1..Len(line.order) /\ j # i
      BY <3>1
    <3> QED
      BY <2>1, <3>2 DEF Distinct
  <2>3. ASSUME NEW a \in InWorld, sessions[a] \notin closed
        PROVE  Queued(sessions[a]) <=> sessions[a] \in line.flagged
    BY <2>1, <2>3 DEF Queued, Waiting, Contains
  <2> QED
    BY <2>2, <2>3 DEF QueueIsExact
<1> QED
  BY <1>1, SessionsInvariant, PTL

-----------------------------------------------------------------------------
(* How many are in the world, and in which order they are let in.          *)

LEMMA Remainder ==
    ASSUME NEW W, IsFiniteSet(W), NEW Q, Q \subseteq W
    PROVE  /\ IsFiniteSet(W \ Q) /\ Cardinality(W \ Q) \in Nat
           /\ Cardinality(W \ Q) + Cardinality(Q) = Cardinality(W)
<1>1. IsFiniteSet(W \ Q) /\ Cardinality(W \ Q) = Cardinality(W) - Cardinality(W \cap Q)
  BY FS_Difference
<1>2. W \cap Q = Q
  OBVIOUS
<1>3. Cardinality(W) \in Nat /\ Cardinality(Q) \in Nat /\ Cardinality(W \ Q) \in Nat
  BY <1>1, FS_Subset, FS_CardinalityType
<1>4. Cardinality(W \cap Q) = Cardinality(Q)
  BY <1>2, Zenon
<1>5. Cardinality(W \ Q) = Cardinality(W) - Cardinality(Q)
  BY <1>1, <1>4, Zenon
<1>6. PICK r : r = Cardinality(W \ Q)
  OBVIOUS
<1>7. r \in Nat /\ r + Cardinality(Q) = Cardinality(W)
  BY <1>3, <1>5, <1>6
<1> QED
  BY <1>1, <1>6, <1>7, Zenon

\* Whoever is in m_sessions either waits or is in the world.
LEMMA CountActive ==
    ASSUME NEW l, LineOK(l), NEW held, \A f \in l.flagged : held[Account(f)] = f,
           \A a \in Accounts : held[a] # NoSession => Account(held[a]) = a,
           NEW W, W = {a \in Accounts : held[a] # NoSession},
           NEW A, A = {a \in Accounts : held[a] # NoSession /\ ~Contains(l.order, held[a])}
    PROVE  /\ IsFiniteSet(W) /\ Cardinality(W) \in Nat
           /\ IsFiniteSet(A) /\ Cardinality(A) \in Nat
           /\ Len(l.order) \in Nat /\ Cardinality(A) + Len(l.order) = Cardinality(W)
<1> DEFINE Q == {Account(l.order[i]) : i \in 1..Len(l.order)}
<1>1. /\ l.order \in Seq(Session) /\ Distinct(l.order) /\ Len(l.order) \in Nat
      /\ \A i \in 1..Len(l.order) : l.order[i] \in l.flagged /\ l.order[i] \in Session
  BY LineParts
<1>2. \A i \in 1..Len(l.order) : held[Account(l.order[i])] = l.order[i] /\ Account(l.order[i]) \in W
  BY <1>1, SessionFacts
<1>3. \A i, j \in 1..Len(l.order) : Account(l.order[i]) = Account(l.order[j]) => i = j
  BY <1>1, <1>2 DEF Distinct
<1>4. Q \subseteq W /\ A = W \ Q
  <2>1. Q \subseteq W
    BY <1>2
  <2>2. ASSUME NEW a \in W PROVE Contains(l.order, held[a]) <=> a \in Q
    <3>1. ASSUME Contains(l.order, held[a]) PROVE a \in Q
      <4>1. PICK i \in 1..Len(l.order) : l.order[i] = held[a]
        BY <3>1 DEF Contains
      <4> QED
        BY <4>1
    <3>2. ASSUME a \in Q PROVE Contains(l.order, held[a])
      <4>1. PICK i \in 1..Len(l.order) : a = Account(l.order[i])
        BY <3>2
      <4> QED
        BY <1>2, <4>1 DEF Contains
    <3> QED
      BY <3>1, <3>2
  <2> QED
    BY <2>1, <2>2
<1>5. IsFiniteSet(W) /\ Cardinality(W) \in Nat
  BY SessionsAssumption, FS_Subset, FS_CardinalityType
<1>6. IsFiniteSet(Q) /\ Len(l.order) = Cardinality(Q)
  <2>1. IsFiniteSet(Q)
    BY <1>4, <1>5, FS_Subset
  <2>2. /\ \A i \in 1..Len(l.order) : Account(l.order[i]) \in Q
        /\ \A b \in Q : \E i \in 1..Len(l.order) : Account(l.order[i]) = b
    OBVIOUS
  <2> HIDE DEF Q
  <2> QED
    BY <1>1, <1>3, <2>1, <2>2, CountLine
<1> HIDE DEF Q
<1>7. /\ IsFiniteSet(A) /\ Cardinality(A) \in Nat
      /\ Cardinality(A) + Cardinality(Q) = Cardinality(W)
  BY <1>4, <1>5, Remainder
<1>8. Cardinality(A) + Len(l.order) = Cardinality(W)
  BY <1>6, <1>7
<1> QED
  BY <1>1, <1>5, <1>7, <1>8

Counts ==
    /\ IsFiniteSet(InWorld) /\ Cardinality(InWorld) \in Nat
    /\ IsFiniteSet(Active) /\ Cardinality(Active) \in Nat
    /\ Len(line.order) \in Nat /\ Cardinality(Active) + Len(line.order) = Cardinality(InWorld)

LEMMA ActiveCount == SessionsInv => Counts
<1> SUFFICES ASSUME SessionsInv PROVE Counts
  OBVIOUS
<1>1. /\ LineOK(line) /\ \A f \in line.flagged : sessions[Account(f)] = f
      /\ \A a \in Accounts : sessions[a] # NoSession => Account(sessions[a]) = a
  BY DEF SessionsInv, LineInv, SessionsApart, InWorld
<1>2. PICK W : W = InWorld
  OBVIOUS
<1>3. PICK A : A = Active
  OBVIOUS
<1>4. /\ W = {a \in Accounts : sessions[a] # NoSession}
      /\ A = {a \in Accounts : sessions[a] # NoSession /\ ~Contains(line.order, sessions[a])}
  BY <1>2, <1>3 DEF InWorld, Active, Queued
<1>5. /\ IsFiniteSet(W) /\ Cardinality(W) \in Nat
      /\ IsFiniteSet(A) /\ Cardinality(A) \in Nat
      /\ Len(line.order) \in Nat /\ Cardinality(A) + Len(line.order) = Cardinality(W)
  BY <1>1, <1>4, CountActive
<1> QED
  BY <1>2, <1>3, <1>5 DEF Counts

LEMMA ActiveCountAfter == SessionsInv' => Counts'
BY ActiveCount, PTL

\* Whether there is room for one more without s, and for how many others that is.
Others(l, s, count) ==
    IF Waiting(l, s) \/ count - Len(l.order) = 0 THEN count - Len(l.order)
    ELSE count - Len(l.order) - 1

Admits(l, s, count) == limit = 0 \/ Others(l, s, count) < limit

WaitWithout(l, s) == IF Waiting(l, s) THEN Len(l.order) - 1 ELSE Len(l.order)

LEMMA RemovedCount ==
    ASSUME NEW l, LineOK(l), NEW s \in Session, NEW count
    PROVE  /\ WaitWithout(l, s) \in Nat
           /\ Len(RemoveQueuedPlayer(l, s, count).order)
                = IF WaitWithout(l, s) # 0 /\ Admits(l, s, count)
                  THEN WaitWithout(l, s) - 1 ELSE WaitWithout(l, s)
           /\ Len(RemoveQueuedPlayer(l, s, count).order) = WaitWithout(l, s)
                => \A f : Waiting(l, f) /\ f # s => Waiting(RemoveQueuedPlayer(l, s, count), f)
<1> DEFINE q    == l.order
           rest == RemoveFirst(q, s)
           pops == rest # << >> /\ Admits(l, s, count)
<1>1. RemoveQueuedPlayer(l, s, count).order = IF pops THEN Tail(rest) ELSE rest
  BY DEF RemoveQueuedPlayer, Admits, Others, Waiting
<1>2. q \in Seq(Session) /\ Distinct(q) /\ Len(q) \in Nat
  BY LineParts
<1>3. /\ rest \in Seq(Session) /\ Distinct(rest) /\ Len(rest) \in Nat
      /\ Len(rest) = WaitWithout(l, s)
  <2>1. rest \in Seq(Session) /\ Distinct(rest)
    BY <1>2, RestFacts DEF RestOf
  <2>2. Contains(q, s) => Len(rest) = Len(q) - 1
    BY <1>2, RestFacts
  <2>3. ~Contains(q, s) => rest = q
    BY <1>2, RestFacts
  <2> QED
    BY <2>1, <2>2, <2>3 DEF WaitWithout, Waiting
<1>4. rest # << >> <=> WaitWithout(l, s) # 0
  <2> HIDE DEF rest
  <2> QED
    BY <1>3
<1>5. rest # << >> => Len(Tail(rest)) = Len(rest) - 1
  BY <1>3, TailFacts
<1>6. \A f : Contains(q, f) /\ f # s => Contains(rest, f)
  BY <1>2, RestFacts DEF RestOf, Contains
<1> HIDE DEF rest
<1>7. Len(RemoveQueuedPlayer(l, s, count).order)
        = IF WaitWithout(l, s) # 0 /\ Admits(l, s, count)
          THEN WaitWithout(l, s) - 1 ELSE WaitWithout(l, s)
  BY <1>1, <1>3, <1>4, <1>5
<1>8. Len(RemoveQueuedPlayer(l, s, count).order) = WaitWithout(l, s)
        => \A f : Waiting(l, f) /\ f # s => Waiting(RemoveQueuedPlayer(l, s, count), f)
  <2>1. ASSUME pops PROVE Len(RemoveQueuedPlayer(l, s, count).order) # WaitWithout(l, s)
    BY <1>1, <1>3, <1>5, <2>1
  <2>2. ASSUME ~pops PROVE RemoveQueuedPlayer(l, s, count).order = rest
    BY <1>1, <2>2
  <2> QED
    BY <1>6, <2>1, <2>2 DEF Waiting
<1> QED
  BY <1>3, <1>7, <1>8

-----------------------------------------------------------------------------
(* What a step does to the queue and to who is in the world.               *)

Quiet ==
    /\ sessions' = sessions /\ line' = line /\ disconnects' = disconnects
    /\ \A a \in InWorld : sessions[a] \in closed => sessions[a] \in closed'

Accept ==
    /\ arrived # << >> /\ arrived' = Tail(arrived)
    /\ AcceptSession(Head(arrived), sessions[Account(Head(arrived))])
    /\ UNCHANGED <<limit, disconnects, threadVars>>

LEMMA StepKinds ==
    ASSUME SessionsInv, [Next]_vars
    PROVE  Quiet \/ KickAll \/ Accept \/ \E a \in todo : RemoveSession(a)
<1>1. CASE BeginUpdateSessions \/ AllAdded \/ AllUpdated
           \/ (\E n \in Limits : SetPlayerAmountLimit(n)) \/ UNCHANGED vars
  BY <1>1 DEF BeginUpdateSessions, AllAdded, AllUpdated, SetPlayerAmountLimit, vars, sessionVars,
              threadVars, Quiet
<1>2. CASE AddSession
  <2>1. /\ arrived # << >> /\ arrived' = Tail(arrived)
        /\ UNCHANGED <<limit, disconnects, threadVars>>
    BY <1>2 DEF AddSession
  <2>2. CASE AcceptSession(Head(arrived), sessions[Account(Head(arrived))])
    BY <2>1, <2>2 DEF Accept
  <2>3. CASE RefuseSession(Head(arrived))
    <3> DEFINE s == Head(arrived)
    <3>1. s \in Session /\ sessions[Account(s)] # s
      BY <2>1, HeadOfArrived
    <3>2. closed' = closed \ {s} /\ UNCHANGED <<sessions, line, disconnects>>
      BY <2>1, <2>3 DEF RefuseSession
    <3> HIDE DEF s
    <3>3. \A a \in InWorld : sessions[a] # s
      BY <3>1, SessionFacts DEF SessionsInv, SessionsApart, InWorld
    <3> QED
      BY <3>2, <3>3 DEF Quiet
  <2> QED
    BY <1>2, <2>2, <2>3 DEF AddSession
<1>3. ASSUME NEW a \in todo, HandlePackets(a) PROVE Quiet
  BY <1>3 DEF HandlePackets, Quiet
<1>4. ASSUME NEW a \in Accounts, HandleAuthSession(a) PROVE Quiet
  BY <1>4 DEF HandleAuthSession, Quiet
<1>5. ASSUME NEW s \in Session, CloseSocket(s) PROVE Quiet
  BY <1>5 DEF CloseSocket, Quiet
<1>6. CASE Stopped
  BY <1>1, <1>6 DEF Stopped
<1>7. CASE KickBeforeShutdown \/ StopWorld
  BY <1>7 DEF KickBeforeShutdown, StopWorld
<1> QED
  BY <1>1, <1>2, <1>3, <1>4, <1>5, <1>6, <1>7 DEF Next, WorldThread

\* A session that leaves: who is in the world, and how many wait after each of
\* the two calls of RemoveQueuedPlayer.
LEMMA RemoveFacts ==
    ASSUME SessionsInv, NEW a \in todo, RemoveSession(a),
           NEW s, s = sessions[a], NEW c, c = Cardinality(InWorld),
           NEW m, m = RemoveQueuedPlayer(line, s, c), NEW k, k = RemoveQueuedPlayer(m, s, c)
    PROVE  /\ a \in InWorld /\ s \in Session /\ s # NoSession /\ Account(s) = a
           /\ InWorld' = InWorld \ {a} /\ Cardinality(InWorld') = c - 1
           /\ \A b \in Accounts : b # a => sessions'[b] = sessions[b]
           /\ sessions'[a] = NoSession
           /\ closed' = closed \ {s} /\ UNCHANGED limit
           /\ Shrinks(line, s, m) /\ Shrinks(m, s, k)
           /\ line'.order = k.order
<1>1. /\ sessions' = [sessions EXCEPT ![a] = NoSession] /\ closed' = closed \ {s}
      /\ line' = Forget(k, {s}) /\ limit' = limit
  BY DEF RemoveSession
<1>2. /\ sessions \in [Accounts -> alive \cup {NoSession}] /\ alive \subseteq Session
      /\ a \in InWorld /\ a \in Accounts /\ Account(s) = a
  BY DEF SessionsInv, StateTypes, SessionsApart, InWorld
<1>3. s \in Session /\ s # NoSession
  BY <1>2 DEF InWorld
<1>4. \A b \in Accounts : sessions'[b] = IF b = a THEN NoSession ELSE sessions[b]
  BY <1>1, <1>2
<1>5. InWorld' = InWorld \ {a}
  BY <1>4 DEF InWorld
<1>6. Cardinality(InWorld \ {a}) = c - 1
  <2>1. IsFiniteSet(InWorld)
    BY ActiveCount DEF Counts
  <2> QED
    BY <1>2, <2>1, FS_RemoveElement
<1>7. Shrinks(line, s, m) /\ Shrinks(m, s, k)
  <2>1. Shrinks(line, s, m)
    BY <1>3, RemovedFacts DEF SessionsInv, LineInv
  <2>2. LineOK(m)
    BY <2>1 DEF Shrinks
  <2> QED
    BY <1>3, <2>1, <2>2, RemovedFacts
<1>8. line'.order = k.order
  <2>1. LineOK(k)
    BY <1>7 DEF Shrinks
  <2> QED
    BY <1>1, <2>1, ForgetOrder
<1>9. Cardinality(InWorld') = Cardinality(InWorld \ {a})
  BY <1>5, Zenon
<1> QED
  BY <1>1, <1>2, <1>3, <1>4, <1>5, <1>6, <1>7, <1>8, <1>9

LEMMA RemoveArithmetic ==
    ASSUME NEW c \in Nat, NEW n \in Nat, NEW lim \in Nat, NEW found \in BOOLEAN,
           n <= c, found => n > 0, ~found => n < c,
           NEW e, e = IF found THEN n - 1 ELSE n,
           NEW o, o = IF found \/ c - n = 0 THEN c - n ELSE c - n - 1,
           NEW n1, n1 = IF e # 0 /\ (lim = 0 \/ o < lim) THEN e - 1 ELSE e,
           NEW o1, o1 = IF c - n1 = 0 THEN c - n1 ELSE c - n1 - 1,
           NEW n2, n2 = IF n1 # 0 /\ (lim = 0 \/ o1 < lim) THEN n1 - 1 ELSE n1
    PROVE  /\ n2 # 0 /\ (lim = 0 \/ c - 1 - n2 < lim) => n2 < n
           /\ n2 # e /\ lim > 0 => c - 1 - n2 <= lim
           /\ n2 = e => n1 = e
<1>1. e \in Nat /\ o \in Nat /\ n1 \in Nat
  OBVIOUS
<1>2. CASE found
  BY <1>1, <1>2
<1>3. CASE ~found
  BY <1>1, <1>3
<1> QED
  BY <1>2, <1>3

\* The numbers of RemoveFacts.
LEMMA RemoveNumbers ==
    ASSUME SessionsInv, SessionsInv', NEW a \in todo, RemoveSession(a)
    PROVE  LET left == WaitWithout(line, sessions[a])
           IN  /\ Len(line'.order) # 0 /\ (limit = 0 \/ Cardinality(Active') < limit)
                    => Len(line'.order) < Len(line.order)
               /\ Len(line'.order) # left /\ limit > 0 => Cardinality(Active') <= limit
               /\ Len(line'.order) = left
                    => \A f : Waiting(line, f) /\ f # sessions[a] => Waiting(line', f)
               /\ Len(line'.order) \in Nat /\ left \in Nat
<1>1. PICK s : s = sessions[a]
  OBVIOUS
<1>2. PICK c : c = Cardinality(InWorld)
  OBVIOUS
<1>3. PICK m : m = RemoveQueuedPlayer(line, s, c)
  OBVIOUS
<1>4. PICK k : k = RemoveQueuedPlayer(m, s, c)
  OBVIOUS
<1>5. /\ a \in InWorld /\ s \in Session /\ s # NoSession /\ Account(s) = a
      /\ Cardinality(InWorld') = c - 1 /\ Shrinks(line, s, m) /\ Shrinks(m, s, k)
      /\ line'.order = k.order
  BY <1>1, <1>2, <1>3, <1>4, RemoveFacts
<1>6. LineOK(line) /\ LineOK(m) /\ ~Waiting(m, s)
  BY <1>5 DEF SessionsInv, LineInv, Shrinks
<1>7. PICK n : n = Len(line.order)
  OBVIOUS
<1>8. PICK n1 : n1 = Len(m.order)
  OBVIOUS
<1>9. PICK n2 : n2 = Len(line'.order)
  OBVIOUS
<1>10. PICK found \in BOOLEAN : found <=> Waiting(line, s)
  <2>1. Waiting(line, s) \in BOOLEAN
    BY DEF Waiting, Contains
  <2> QED
    BY <2>1
<1>11. PICK e : e = WaitWithout(line, s)
  OBVIOUS
<1>12. PICK o : o = Others(line, s, c)
  OBVIOUS
<1>13. PICK o1 : o1 = Others(m, s, c)
  OBVIOUS
<1>14. limit \in Nat
  BY SessionsAssumption DEF SessionsInv, StateTypes
<1>15. /\ e = (IF found THEN n - 1 ELSE n) /\ e \in Nat
       /\ o = (IF found \/ c - n = 0 THEN c - n ELSE c - n - 1)
       /\ o1 = (IF c - n1 = 0 THEN c - n1 ELSE c - n1 - 1)
  <2>1. e \in Nat
    BY <1>5, <1>6, <1>11, RemovedCount
  <2> QED
    BY <1>6, <1>7, <1>8, <1>10, <1>11, <1>12, <1>13, <2>1 DEF Others, WaitWithout
<1>16. n1 = IF e # 0 /\ (limit = 0 \/ o < limit) THEN e - 1 ELSE e
  BY <1>3, <1>5, <1>6, <1>8, <1>11, <1>12, RemovedCount DEF Admits
<1>17. n2 = IF n1 # 0 /\ (limit = 0 \/ o1 < limit) THEN n1 - 1 ELSE n1
  <2>1. WaitWithout(m, s) = n1
    BY <1>6, <1>8 DEF WaitWithout
  <2>2. Len(k.order) = IF WaitWithout(m, s) # 0 /\ Admits(m, s, c)
                       THEN WaitWithout(m, s) - 1 ELSE WaitWithout(m, s)
    BY <1>4, <1>5, <1>6, RemovedCount
  <2> QED
    BY <1>5, <1>9, <1>13, <2>1, <2>2 DEF Admits
<1>18. PICK act : act = Cardinality(Active)
  OBVIOUS
<1>19. c \in Nat /\ n \in Nat /\ act \in Nat /\ act + n = c
  BY <1>2, <1>7, <1>18, ActiveCount DEF Counts
<1>20. found => n > 0
  BY <1>7, <1>10, <1>19 DEF Waiting, Contains
<1>21. ~found => n < c
  <2>1. ASSUME ~found PROVE a \in Active
    BY <1>1, <1>5, <1>10, <2>1 DEF Active, Queued, InWorld, Waiting
  <2>2. ASSUME ~found PROVE act # 0
    BY <1>18, <2>1, <2>2, ActiveCount, FS_EmptySet DEF Counts
  <2> QED
    BY <1>19, <2>2
<1>22. PICK act2 : act2 = Cardinality(Active')
  OBVIOUS
<1>23. n2 \in Nat /\ act2 \in Nat /\ act2 = c - 1 - n2
  <2>1. n2 \in Nat /\ act2 \in Nat /\ act2 + n2 = Cardinality(InWorld')
    BY <1>9, <1>22, ActiveCountAfter DEF Counts
  <2> QED
    BY <1>5, <1>19, <2>1
<1>24. n <= c
  BY <1>19
<1>25. /\ n2 # 0 /\ (limit = 0 \/ c - 1 - n2 < limit) => n2 < n
       /\ n2 # e /\ limit > 0 => c - 1 - n2 <= limit
       /\ n2 = e => n1 = e
  BY <1>14, <1>15, <1>16, <1>17, <1>19, <1>20, <1>21, <1>24, RemoveArithmetic
<1>26. /\ n2 # 0 /\ (limit = 0 \/ act2 < limit) => n2 < n
       /\ n2 # e /\ limit > 0 => act2 <= limit
  BY <1>23, <1>25
<1>27. ASSUME n2 = e, NEW f, Waiting(line, f), f # s PROVE Waiting(line', f)
  <2>1. Len(m.order) = WaitWithout(line, s)
    BY <1>8, <1>11, <1>25, <1>27
  <2>2. Waiting(m, f)
    BY <1>3, <1>5, <1>6, <1>27, <2>1, RemovedCount
  <2>3. Len(k.order) = WaitWithout(m, s)
    BY <1>5, <1>6, <1>8, <1>9, <1>25, <1>27 DEF WaitWithout
  <2>4. Waiting(k, f)
    BY <1>4, <1>5, <1>6, <1>27, <2>2, <2>3, RemovedCount
  <2> QED
    BY <1>5, <2>4 DEF Waiting
<1> QED
  BY <1>1, <1>7, <1>9, <1>11, <1>15, <1>22, <1>23, <1>26, <1>27

LEMMA AppendFacts ==
    ASSUME NEW q \in Seq(Session), NEW s \in Session
    PROVE  /\ Len(Append(q, s)) = Len(q) + 1
           /\ \A f : Contains(Append(q, s), f) <=> Contains(q, f) \/ f = s
<1> DEFINE n == Len(q)
           r == Append(q, s)
<1>1. n \in Nat /\ Len(r) = n + 1 /\ r[n + 1] = s /\ \A i \in 1..n : r[i] = q[i]
  OBVIOUS
<1> HIDE DEF n, r
<1>2. n + 1 \in 1..(n + 1) /\ \A i \in 1..n : i \in 1..(n + 1)
  BY <1>1
<1>3. \A i \in 1..(n + 1) : i \in 1..n \/ i = n + 1
  BY <1>1
<1>4. \A f : Contains(r, f) <=> Contains(q, f) \/ f = s
  BY <1>1, <1>2, <1>3 DEF Contains, n
<1> QED
  BY <1>1, <1>4 DEF n, r

\* A session that is added: whom it replaces, what is left of the queue then, and
\* whether it waits.
Waits(s, old, w) ==
    /\ limit > 0
    /\ (IF old # NoSession /\ Waiting(line, old) THEN w ELSE w - 1) >= limit
    /\ ~Privileged(s)

LEMMA AcceptFacts ==
    ASSUME SessionsInv, Accept, NEW s, s = Head(arrived), NEW a, a = Account(s),
           NEW old, old = sessions[a], NEW l, l = Replaced(old),
           NEW c, c = Cardinality(InWorld), NEW w, w = Cardinality(InWorld')
    PROVE  /\ s \in Session /\ a \in Accounts /\ s # NoSession /\ s # old
           /\ \A b \in Accounts : sessions'[b] = IF b = a THEN s ELSE sessions[b]
           /\ InWorld' = InWorld \cup {a} /\ w = (IF old = NoSession THEN c + 1 ELSE c)
           /\ closed' = closed \ {old} /\ UNCHANGED <<limit, disconnects>>
           /\ Leaves(line, old, l) /\ ~Waiting(line, s) /\ ~Waiting(l, s)
           /\ old = NoSession => l = line
           /\ old # NoSession => old \in Session /\ a \in InWorld
           /\ line' = IF Waits(s, old, w) THEN AddQueuedPlayer(l, s) ELSE l
<1>1. /\ closed' = closed \ {old} /\ sessions' = [sessions EXCEPT ![a] = s]
      /\ UNCHANGED <<limit, disconnects>>
  BY DEF Accept, AcceptSession
<1>2. s \in Session /\ old # s
  BY HeadOfArrived DEF Accept
<1>3. a \in Accounts /\ s # NoSession
  BY <1>2, SessionFacts
<1>4. Leaves(line, old, l)
  BY <1>3, ReplacedFacts
<1>5. sessions \in [Accounts -> alive \cup {NoSession}] /\ alive \subseteq Session
  BY DEF SessionsInv, SessionsApart, StateTypes
<1>6. \A b \in Accounts : sessions'[b] = IF b = a THEN s ELSE sessions[b]
  BY <1>1, <1>5
<1>7. InWorld' = InWorld \cup {a}
  BY <1>3, <1>6 DEF InWorld
<1>8. w = IF old = NoSession THEN c + 1 ELSE c
  <2>1. Cardinality(InWorld \cup {a}) = IF a \in InWorld THEN c ELSE c + 1
    BY ActiveCount, FS_AddElement DEF Counts
  <2>2. a \in InWorld <=> old # NoSession
    BY <1>3 DEF InWorld
  <2>3. w = Cardinality(InWorld \cup {a})
    BY <1>7, Zenon
  <2> QED
    BY <2>1, <2>2, <2>3
<1>9. ~Waiting(line, s)
  <2>1. s \notin line.flagged
    BY <1>2 DEF SessionsInv, LineInv
  <2> QED
    BY <2>1, LineParts DEF Waiting, Contains, SessionsInv, LineInv
<1>10. ~Waiting(l, s)
  BY <1>4, <1>9 DEF Leaves
<1>11. old = NoSession => l = line
  BY DEF Replaced
<1>12. old # NoSession => old \in Session /\ a \in InWorld
  BY <1>3, <1>5 DEF InWorld
<1>13. line' = IF Waits(s, old, w) THEN AddQueuedPlayer(l, s) ELSE l
  <2>1. InWorld \cup {Account(s)} = InWorld'
    BY <1>7
  <2>2. Cardinality(InWorld \cup {Account(s)}) = w
    BY <2>1, Zenon
  <2>3. CASE old = NoSession
    <3>1. AdmitOrQueue(s, l, FALSE)
      BY <2>3, <1>11 DEF Accept, AcceptSession
    <3> QED
      BY <2>2, <2>3, <3>1 DEF AdmitOrQueue, Waits
  <2>4. CASE old # NoSession
    <3>1. AdmitOrQueue(s, l, Waiting(line, old))
      BY <2>4 DEF Accept, AcceptSession, Replaced, Waiting
    <3> QED
      BY <2>2, <2>4, <3>1 DEF AdmitOrQueue, Waits
  <2> QED
    BY <2>3, <2>4
<1> QED
  BY <1>1, <1>2, <1>3, <1>4, <1>6, <1>7, <1>8, <1>9, <1>10, <1>11, <1>12, <1>13

LEMMA AcceptArithmetic ==
    ASSUME NEW c \in Nat, NEW n \in Nat, NEW lim \in Nat, n <= c,
           NEW isOld \in BOOLEAN, NEW found \in BOOLEAN, NEW waits \in BOOLEAN, NEW free \in BOOLEAN,
           found => isOld /\ n > 0, isOld /\ ~found => n < c,
           NEW e, e = IF found THEN n - 1 ELSE n,
           NEW o, o = IF found \/ c - n = 0 THEN c - n ELSE c - n - 1,
           NEW q, q = IF isOld /\ e # 0 /\ (lim = 0 \/ o < lim) THEN e - 1 ELSE e,
           NEW w, w = IF isOld THEN c ELSE c + 1,
           waits <=> lim > 0 /\ (IF found THEN w ELSE w - 1) >= lim /\ ~free,
           NEW n2, n2 = IF waits THEN q + 1 ELSE q
    PROVE  /\ n = 0 /\ n2 # 0 => lim > 0 /\ w - n2 >= lim
           /\ q # e /\ lim > 0 => w - n2 <= (IF waits THEN lim ELSE lim + 1)
           /\ lim > 0 /\ ~waits /\ ~free => w <= lim
<1>1. e \in Nat /\ o \in Nat /\ q \in Nat /\ w \in Nat
  OBVIOUS
<1>2. CASE found
  BY <1>1, <1>2
<1>3. CASE ~found
  BY <1>1, <1>3
<1> QED
  BY <1>2, <1>3

\* The numbers of AcceptFacts.
LEMMA AcceptNumbers ==
    ASSUME SessionsInv, SessionsInv', Accept, NEW s, s = Head(arrived), NEW a, a = Account(s),
           NEW old, old = sessions[a], NEW l, l = Replaced(old), NEW w, w = Cardinality(InWorld')
    PROVE  /\ Len(line.order) = 0 /\ Len(line'.order) # 0 => limit > 0 /\ Cardinality(Active') >= limit
           /\ Len(l.order) # WaitWithout(line, old) /\ limit > 0
                => Cardinality(Active') <= (IF Waits(s, old, w) THEN limit ELSE limit + 1)
           /\ limit > 0 /\ ~Waits(s, old, w) /\ ~Privileged(s) => w <= limit
           /\ Len(l.order) = WaitWithout(line, old)
                => \A f : Waiting(line, f) /\ f # old => Waiting(l, f)
<1>1. PICK c : c = Cardinality(InWorld)
  OBVIOUS
<1>2. /\ s \in Session /\ a \in Accounts
      /\ w = (IF old = NoSession THEN c + 1 ELSE c)
      /\ old = NoSession => l = line
      /\ old # NoSession => old \in Session /\ a \in InWorld
      /\ line' = IF Waits(s, old, w) THEN AddQueuedPlayer(l, s) ELSE l
  BY <1>1, AcceptFacts
<1>3. LineOK(line) /\ LineOK(l)
  <2>1. Leaves(line, old, l)
    BY <1>1, AcceptFacts
  <2> QED
    BY <2>1 DEF Leaves, SessionsInv, LineInv
<1>4. PICK n : n = Len(line.order)
  OBVIOUS
<1>5. PICK n2 : n2 = Len(line'.order)
  OBVIOUS
<1>6. PICK q : q = Len(l.order)
  OBVIOUS
<1>7. PICK isOld \in BOOLEAN : isOld <=> old # NoSession
  OBVIOUS
<1>8. PICK found \in BOOLEAN : found <=> Waiting(line, old)
  <2>1. Waiting(line, old) \in BOOLEAN
    BY DEF Waiting, Contains
  <2> QED
    BY <2>1
<1>9. PICK waits \in BOOLEAN : waits <=> Waits(s, old, w)
  <2>1. Waits(s, old, w) \in BOOLEAN
    BY DEF Waits
  <2> QED
    BY <2>1
<1>10. PICK free \in BOOLEAN : free <=> Privileged(s)
  <2>1. Privileged(s) \in BOOLEAN
    BY DEF Privileged
  <2> QED
    BY <2>1
<1>11. PICK e : e = WaitWithout(line, old)
  OBVIOUS
<1>12. PICK o : o = Others(line, old, c)
  OBVIOUS
<1>13. limit \in Nat
  BY SessionsAssumption DEF SessionsInv, StateTypes
<1>14. PICK act : act = Cardinality(Active)
  OBVIOUS
<1>15. c \in Nat /\ n \in Nat /\ act \in Nat /\ act + n = c
  BY <1>1, <1>4, <1>14, ActiveCount DEF Counts
<1>16. found => isOld /\ n > 0
  <2>1. ASSUME found PROVE n > 0
    BY <1>4, <1>8, <1>15, <2>1 DEF Waiting, Contains
  <2>2. ~Waiting(line, NoSession)
    BY <1>3, LineParts, SessionFacts DEF Waiting, Contains
  <2> QED
    BY <1>7, <1>8, <2>1, <2>2
<1>17. isOld /\ ~found => n < c
  <2>1. ASSUME isOld, ~found PROVE a \in Active
    BY <1>2, <1>7, <1>8, <2>1 DEF Active, Queued, InWorld, Waiting
  <2>2. ASSUME isOld, ~found PROVE act # 0
    BY <1>14, <2>1, <2>2, ActiveCount, FS_EmptySet DEF Counts
  <2> QED
    BY <1>15, <2>2
<1>18. /\ e = IF found THEN n - 1 ELSE n
       /\ o = IF found \/ c - n = 0 THEN c - n ELSE c - n - 1
  BY <1>4, <1>8, <1>11, <1>12 DEF WaitWithout, Others
<1>19. q = IF isOld /\ e # 0 /\ (limit = 0 \/ o < limit) THEN e - 1 ELSE e
  <2>1. CASE ~isOld
    BY <1>2, <1>4, <1>6, <1>7, <1>16, <1>18, <2>1
  <2>2. CASE isOld
    <3>1. PICK m : m = RemoveQueuedPlayer(line, old, c)
      OBVIOUS
    <3>2. old \in Session /\ l = Forget(m, {old})
      BY <1>1, <1>2, <1>7, <2>2, <3>1 DEF Replaced
    <3>3. LineOK(m)
      BY <1>3, <3>1, <3>2, RemovedFacts DEF Shrinks
    <3>4. l.order = m.order
      BY <3>2, <3>3, ForgetOrder
    <3>5. Len(m.order) = IF e # 0 /\ Admits(line, old, c) THEN e - 1 ELSE e
      BY <1>3, <1>11, <3>1, <3>2, RemovedCount
    <3> QED
      BY <1>6, <1>12, <2>2, <3>4, <3>5 DEF Admits
  <2> QED
    BY <2>1, <2>2
<1>20. w = IF isOld THEN c ELSE c + 1
  BY <1>2, <1>7
<1>21. waits <=> limit > 0 /\ (IF found THEN w ELSE w - 1) >= limit /\ ~free
  BY <1>7, <1>8, <1>9, <1>10, <1>16 DEF Waits
<1>22. n2 = IF waits THEN q + 1 ELSE q
  <2>1. CASE ~waits
    BY <1>2, <1>5, <1>6, <1>9, <2>1
  <2>2. CASE waits
    <3>1. line'.order = Append(l.order, s)
      BY <1>2, <1>9, <2>2 DEF AddQueuedPlayer
    <3>2. l.order \in Seq(Session)
      BY <1>3, LineParts
    <3> QED
      BY <1>2, <1>5, <1>6, <2>2, <3>1, <3>2, AppendFacts
  <2> QED
    BY <2>1, <2>2
<1>23. n <= c
  BY <1>15
<1>24. /\ n = 0 /\ n2 # 0 => limit > 0 /\ w - n2 >= limit
       /\ q # e /\ limit > 0 => w - n2 <= (IF waits THEN limit ELSE limit + 1)
       /\ limit > 0 /\ ~waits /\ ~free => w <= limit
  BY <1>13, <1>15, <1>16, <1>17, <1>18, <1>19, <1>20, <1>21, <1>22, <1>23, AcceptArithmetic
<1>25. PICK act2 : act2 = Cardinality(Active')
  OBVIOUS
<1>26. act2 = w - n2
  <2>1. n2 \in Nat /\ act2 \in Nat /\ act2 + n2 = Cardinality(InWorld') /\ Cardinality(InWorld') \in Nat
    BY <1>5, <1>25, ActiveCountAfter DEF Counts
  <2> QED
    BY <2>1
<1>27. ASSUME q = e, NEW f, Waiting(line, f), f # old PROVE Waiting(l, f)
  <2>1. CASE old = NoSession
    BY <1>2, <1>27, <2>1
  <2>2. CASE old # NoSession
    <3>1. PICK m : m = RemoveQueuedPlayer(line, old, c)
      OBVIOUS
    <3>2. old \in Session /\ l = Forget(m, {old})
      BY <1>1, <1>2, <2>2, <3>1 DEF Replaced
    <3>3. LineOK(m)
      BY <1>3, <3>1, <3>2, RemovedFacts DEF Shrinks
    <3>4. l.order = m.order
      BY <3>2, <3>3, ForgetOrder
    <3>5. Len(m.order) = WaitWithout(line, old)
      BY <1>6, <1>11, <1>27, <3>4
    <3>6. Waiting(m, f)
      BY <1>3, <1>27, <3>1, <3>2, <3>5, RemovedCount
    <3> QED
      BY <3>4, <3>6 DEF Waiting
  <2> QED
    BY <2>1, <2>2
<1> QED
  BY <1>4, <1>5, <1>6, <1>9, <1>10, <1>11, <1>24, <1>25, <1>26, <1>27

LEMMA KickAllFacts ==
    ASSUME SessionsInv, KickAll
    PROVE  /\ line'.order = << >> /\ UNCHANGED <<sessions, limit, disconnects>>
           /\ \A a \in InWorld : sessions[a] \in closed'
<1>1. /\ line' = [line EXCEPT !.order = << >>] /\ UNCHANGED <<sessions, limit, disconnects>>
      /\ closed' = closed \cup {sessions[a] : a \in InWorld}
  BY DEF KickAll
<1>2. line \in LineType
  BY DEF SessionsInv, LineInv, LineOK
<1>3. line'.order = << >>
  BY <1>1, <1>2 DEF LineType
<1> QED
  BY <1>1, <1>3

\* Nobody is put into the queue while there is room and nobody to wait behind,
\* and each session that leaves while there is room lets somebody in.
THEOREM RoomIsUsed == Spec => NobodyWaitsForNothing
<1> DEFINE Step ==
      /\ line.order = << >> /\ line'.order # << >> => ~Room'
      /\ (\E a \in InWorld : sessions'[a] = NoSession) /\ Room' /\ line'.order # << >>
            => Len(line'.order) < Len(line.order)
<1>1. SessionsInv /\ SessionsInv' /\ [Next]_vars => [Step]_vars
  <2> SUFFICES ASSUME SessionsInv, SessionsInv', [Next]_vars PROVE Step
    OBVIOUS
  <2>1. Len(line'.order) \in Nat /\ (line'.order # << >> <=> Len(line'.order) # 0)
    <3>1. LineOK(line')
      BY DEF SessionsInv, LineInv
    <3>2. line'.order \in Seq(Session)
      BY <3>1, LineParts
    <3> QED
      BY <3>2
  <2>2. CASE Quiet
    BY <2>2 DEF Quiet, InWorld
  <2>3. CASE KickAll
    BY <2>3, KickAllFacts DEF InWorld
  <2>4. CASE Accept
    <3>1. PICK s : s = Head(arrived)
      OBVIOUS
    <3>2. PICK a : a = Account(s)
      OBVIOUS
    <3>3. PICK old : old = sessions[a]
      OBVIOUS
    <3>4. PICK l : l = Replaced(old)
      OBVIOUS
    <3>5. PICK w : w = Cardinality(InWorld')
      OBVIOUS
    <3>6. /\ s # NoSession /\ UNCHANGED limit
          /\ \A b \in Accounts : sessions'[b] = IF b = a THEN s ELSE sessions[b]
      BY <2>4, <3>1, <3>2, <3>3, <3>4, <3>5, AcceptFacts
    <3>7. ~ \E b \in InWorld : sessions'[b] = NoSession
      BY <3>6 DEF InWorld
    <3>8. Len(line.order) = 0 /\ Len(line'.order) # 0 => limit > 0 /\ Cardinality(Active') >= limit
      BY <2>4, <3>1, <3>2, <3>3, <3>4, <3>5, AcceptNumbers
    <3>9. ASSUME line.order = << >>, line'.order # << >> PROVE ~Room'
      <4>1. PICK act : act = Cardinality(Active')
        OBVIOUS
      <4>2. act \in Nat /\ limit \in Nat
        BY <4>1, ActiveCountAfter, SessionsAssumption DEF Counts, SessionsInv, StateTypes
      <4>3. limit > 0 /\ act >= limit
        BY <2>1, <3>8, <3>9, <4>1
      <4>4. ~(limit' = 0 \/ act < limit')
        BY <3>6, <4>2, <4>3
      <4> QED
        BY <4>1, <4>4 DEF Room
    <3> QED
      BY <3>7, <3>9
  <2>5. ASSUME NEW a \in todo, RemoveSession(a) PROVE Step
    <3>1. /\ Len(line'.order) # 0 /\ (limit = 0 \/ Cardinality(Active') < limit)
               => Len(line'.order) < Len(line.order)
      BY <2>5, RemoveNumbers
    <3>2. limit' = limit
      BY <2>5 DEF RemoveSession
    <3>3. Room' => limit = 0 \/ Cardinality(Active') < limit
      BY <3>2 DEF Room
    <3>4. ASSUME line.order = << >>, line'.order # << >> PROVE ~Room'
      <4>1. Len(line.order) = 0
        BY <3>4
      <4> QED
        BY <2>1, <3>1, <3>3, <3>4, <4>1
    <3> QED
      BY <2>1, <3>1, <3>3, <3>4
  <2> QED
    BY <2>2, <2>3, <2>4, <2>5, StepKinds
<1> QED
  BY <1>1, SessionsInvariant, PTL DEF Spec, NobodyWaitsForNothing

LEMMA FewerCounted ==
    ASSUME SessionsInv, SessionsInv'
    PROVE  /\ \A S : Counted' \subseteq S /\ IsFiniteSet(S) => Cardinality(Counted') <= Cardinality(S)
           /\ Counted' \subseteq Active' /\ Active' \subseteq InWorld'
           /\ IsFiniteSet(Active') /\ IsFiniteSet(InWorld') /\ IsFiniteSet(Counted)
           /\ Cardinality(Counted') \in Nat /\ Cardinality(Counted) \in Nat
<1>1. Counted' \subseteq Active' /\ Active' \subseteq InWorld' /\ Counted \subseteq Active
  BY DEF Counted, Active, InWorld
<1>2. IsFiniteSet(Active') /\ IsFiniteSet(InWorld') /\ IsFiniteSet(Active)
  BY ActiveCount, ActiveCountAfter DEF Counts
<1>3. \A S : Counted' \subseteq S /\ IsFiniteSet(S) => Cardinality(Counted') <= Cardinality(S)
  BY FS_Subset
<1>4. IsFiniteSet(Counted) /\ IsFiniteSet(Counted')
  BY <1>1, <1>2, FS_Subset
<1> QED
  BY <1>1, <1>2, <1>3, <1>4, FS_CardinalityType

\* No step brings more players without privilege into the world than the limit has
\* room for, whatever the limit was before.
THEOREM LimitIsKept == Spec => LimitKept
<1> DEFINE Step == Cardinality(Counted') > Cardinality(Counted) /\ limit' > 0
                     => Cardinality(Counted') <= limit'
<1>1. SessionsInv /\ SessionsInv' /\ [Next]_vars => [Step]_vars
  <2> SUFFICES ASSUME SessionsInv, SessionsInv', [Next]_vars, limit' > 0,
                      ~(Counted' \subseteq Counted)
               PROVE  Cardinality(Counted') <= limit'
    <3>1. Counted' \subseteq Counted /\ SessionsInv /\ SessionsInv' => Step
      BY FewerCounted
    <3> QED
      BY <3>1
  <2>0. limit' \in Nat
    BY SessionsAssumption DEF SessionsInv, StateTypes
  <2>2. CASE Quiet
    <3>1. \A s : Privileged(s)' <=> Privileged(s)
      BY <2>2 DEF Quiet, Privileged, HasRecentlyDisconnected
    <3> QED
      BY <2>2, <3>1 DEF Quiet, Counted, Active, Queued, InWorld
  <2>3. CASE KickAll
    <3>1. Counted' = {}
      BY <2>3, KickAllFacts DEF Counted, Active, InWorld
    <3>2. Cardinality(Counted') = 0
      BY <3>1, FS_EmptySet, Zenon
    <3> QED
      BY <2>0, <3>2
  <2>4. CASE Accept
    <3>1. PICK s : s = Head(arrived)
      OBVIOUS
    <3>2. PICK a : a = Account(s)
      OBVIOUS
    <3>3. PICK old : old = sessions[a]
      OBVIOUS
    <3>4. PICK l : l = Replaced(old)
      OBVIOUS
    <3>5. PICK w : w = Cardinality(InWorld')
      OBVIOUS
    <3>6. /\ s \in Session /\ a \in Accounts /\ s # NoSession
          /\ \A b \in Accounts : sessions'[b] = IF b = a THEN s ELSE sessions[b]
          /\ closed' = closed \ {old} /\ UNCHANGED <<limit, disconnects>>
          /\ ~Waiting(l, s)
          /\ line' = IF Waits(s, old, w) THEN AddQueuedPlayer(l, s) ELSE l
      BY <2>4, <3>1, <3>2, <3>3, <3>4, <3>5, AcceptFacts
    <3>7. /\ Len(l.order) # WaitWithout(line, old) /\ limit > 0
               => Cardinality(Active') <= (IF Waits(s, old, w) THEN limit ELSE limit + 1)
          /\ limit > 0 /\ ~Waits(s, old, w) /\ ~Privileged(s) => w <= limit
          /\ Len(l.order) = WaitWithout(line, old)
               => \A f : Waiting(line, f) /\ f # old => Waiting(l, f)
      BY <2>4, <3>1, <3>2, <3>3, <3>4, <3>5, AcceptNumbers
    <3>8. \A t : Privileged(t)' <=> Privileged(t)
      BY <3>6 DEF Privileged, HasRecentlyDisconnected
    <3>9. limit' = limit /\ limit > 0
      BY <3>6
    <3>10. LineOK(l)
      <4>1. Leaves(line, old, l)
        BY <2>4, <3>1, <3>2, <3>3, <3>4, <3>5, AcceptFacts
      <4> QED
        BY <4>1 DEF Leaves
    <3>11. Waits(s, old, w) => Waiting(line', s)
      BY <3>6, <3>10, LineParts, AppendFacts DEF AddQueuedPlayer, Waiting
    <3>12. ~Waits(s, old, w) => a \in Active'
      BY <3>6 DEF Active, Queued, Waiting
    <3>13. PICK act : act = Cardinality(Active')
      OBVIOUS
    <3>14. PICK n : n = Cardinality(Counted')
      OBVIOUS
    <3>15. n \in Nat /\ act \in Nat /\ n <= act /\ n <= w /\ w \in Nat
      BY <3>5, <3>13, <3>14, FewerCounted, ActiveCountAfter DEF Counts
    <3>16. CASE ~Waits(s, old, w) /\ ~Privileged(s)
      BY <2>0, <3>7, <3>9, <3>14, <3>15, <3>16
    <3>17. CASE Waits(s, old, w) \/ Privileged(s)
      <4>1. a \notin Counted'
        <5>1. sessions'[a] = s
          BY <3>6
        <5> QED
          BY <3>8, <3>11, <3>17, <5>1 DEF Counted, Active, Queued, Waiting
      <4>2. CASE Len(l.order) = WaitWithout(line, old)
        <5>1. ASSUME NEW b \in Counted' PROVE b \in Counted
          <6>1. b \in Accounts /\ b # a /\ sessions'[b] # NoSession /\ ~Waiting(line', sessions'[b])
                /\ sessions'[b] \notin closed' /\ ~Privileged(sessions'[b])
            BY <3>6, <4>1 DEF Counted, Active, Queued, Waiting, Privileged, HasRecentlyDisconnected
          <6>2. sessions'[b] = sessions[b]
            BY <3>6, <6>1
          <6>3. sessions[b] # old
            BY <3>3, <3>6, <6>1, <6>2, OwnAccount
          <6>4. ~Waiting(l, sessions[b])
            BY <3>6, <3>10, <6>1, <6>2, LineParts, AppendFacts DEF AddQueuedPlayer, Waiting
          <6>5. ~Waiting(line, sessions[b])
            BY <3>7, <4>2, <6>3, <6>4
          <6>6. sessions[b] \notin closed
            BY <3>6, <6>1, <6>2, <6>3
          <6> QED
            BY <6>1, <6>2, <6>5, <6>6 DEF Counted, Active, Queued, Waiting
        <5> QED
          BY <5>1
      <4>3. CASE Len(l.order) # WaitWithout(line, old) /\ Waits(s, old, w)
        BY <2>0, <3>7, <3>9, <3>13, <3>14, <3>15, <4>3
      <4>4. CASE Len(l.order) # WaitWithout(line, old) /\ ~Waits(s, old, w)
        <5>1. Counted' \subseteq Active' \ {a} /\ IsFiniteSet(Active')
          BY <4>1, FewerCounted
        <5>2. IsFiniteSet(Active' \ {a}) /\ Cardinality(Active' \ {a}) = act - 1
          BY <3>12, <3>13, <4>4, <5>1, FS_RemoveElement
        <5>3. n <= Cardinality(Active' \ {a})
          BY <3>14, <5>1, <5>2, FewerCounted
        <5>4. act <= limit + 1
          BY <3>7, <3>9, <3>13, <4>4
        <5>5. limit \in Nat
          BY <2>0, <3>9
        <5>6. n <= limit
          BY <3>15, <5>2, <5>3, <5>4, <5>5
        <5> QED
          BY <3>9, <3>14, <5>6
      <4> QED
        BY <4>2, <4>3, <4>4
    <3> QED
      BY <3>16, <3>17
  <2>5. ASSUME NEW a \in todo, RemoveSession(a) PROVE Cardinality(Counted') <= limit'
    <3>1. PICK s : s = sessions[a]
      OBVIOUS
    <3>2. PICK left : left = WaitWithout(line, s)
      OBVIOUS
    <3>3. /\ Len(line'.order) # left /\ limit > 0 => Cardinality(Active') <= limit
          /\ Len(line'.order) = left => \A f : Waiting(line, f) /\ f # s => Waiting(line', f)
      BY <2>5, <3>1, <3>2, RemoveNumbers
    <3>4. /\ limit' = limit /\ closed' = closed \ {s}
          /\ disconnects \subseteq disconnects'
      BY <2>5, <3>1 DEF RemoveSession
    <3>5. /\ \A b \in Accounts : b # a => sessions'[b] = sessions[b]
          /\ sessions'[a] = NoSession /\ a \in InWorld /\ s # NoSession
      BY <2>5, <3>1, RemoveFacts
    <3>6. CASE Len(line'.order) # left
      <4>1. Cardinality(Active') <= limit /\ limit \in Nat
        BY <2>0, <3>3, <3>4, <3>6
      <4>2. Cardinality(Counted') <= Cardinality(Active') /\ Cardinality(Counted') \in Nat
        BY FewerCounted
      <4>3. Cardinality(Active') \in Nat
        BY ActiveCountAfter DEF Counts
      <4> QED
        BY <3>4, <4>1, <4>2, <4>3
    <3>7. CASE Len(line'.order) = left
      <4>1. ASSUME NEW b \in Counted' PROVE b \in Counted
        <5>1. b \in Accounts /\ sessions'[b] # NoSession /\ ~Waiting(line', sessions'[b])
              /\ sessions'[b] \notin closed' /\ ~Privileged(sessions'[b])
          BY <3>4 DEF Counted, Active, Queued, Waiting, Privileged, HasRecentlyDisconnected
        <5>2. b # a /\ sessions'[b] = sessions[b]
          BY <3>5, <5>1
        <5>3. sessions[b] # s
          BY <3>1, <3>5, <5>1, <5>2, OwnAccount DEF InWorld
        <5>4. ~Waiting(line, sessions[b])
          BY <3>3, <3>7, <5>1, <5>2, <5>3
        <5>5. ~Privileged(sessions[b])
          BY <5>1, <5>2
        <5> QED
          BY <3>4, <5>1, <5>2, <5>3, <5>4, <5>5 DEF Counted, Active, Queued, Waiting
      <4> QED
        BY <4>1
    <3> QED
      BY <3>6, <3>7
  <2> QED
    BY <2>2, <2>3, <2>4, <2>5, StepKinds
<1> QED
  BY <1>1, SessionsInvariant, PTL DEF Spec, LimitKept

-----------------------------------------------------------------------------
(* Those who wait are let in from the front.                               *)

\* Whoever left the queue, other than s, stood before all those who stay, and they
\* stay in their order.
FromTheFront(l, s, m) ==
    /\ \A i, j \in 1..Len(l.order) :
          l.order[i] # s /\ ~Waiting(m, l.order[i]) /\ Waiting(m, l.order[j]) => i < j
    /\ \A x, y \in 1..Len(m.order), i, j \in 1..Len(l.order) :
          m.order[x] = l.order[i] /\ m.order[y] = l.order[j] /\ x < y => i < j

\* Taking one out leaves the others in their order.
LEMMA RestOrder ==
    ASSUME NEW q \in Seq(Session), Distinct(q), NEW s, NEW r, r = RemoveFirst(q, s),
           NEW x \in 1..Len(r), NEW y \in 1..Len(r), x < y,
           NEW i \in 1..Len(q), NEW j \in 1..Len(q), r[x] = q[i], r[y] = q[j]
    PROVE  i < j
<1>1. \A u, v \in 1..Len(q) : q[u] = q[v] => u = v
  BY DEF Distinct
<1>2. CASE ~Contains(q, s)
  <2>1. r = q
    BY <1>2, RestFacts
  <2>2. x = i /\ y = j
    BY <1>1, <2>1
  <2> QED
    BY <2>2
<1>3. CASE Contains(q, s)
  <2>1. PICK n : n = Len(q)
    OBVIOUS
  <2>2. PICK p : p = Position(q, s)
    OBVIOUS
  <2>3. /\ n \in Nat /\ p \in 1..n /\ Len(r) = n - 1
        /\ \A u \in 1..(n - 1) : r[u] = IF u < p THEN q[u] ELSE q[u + 1]
    BY <1>3, <2>1, <2>2, RestFacts
  <2>4. \A u \in 1..(n - 1) : u \in 1..n /\ u + 1 \in 1..n
    BY <2>3
  <2>5. ASSUME NEW u \in 1..(n - 1), NEW g \in 1..n, r[u] = q[g]
        PROVE  g = IF u < p THEN u ELSE u + 1
    <3>1. CASE u < p
      <4>1. r[u] = q[u]
        BY <2>3, <3>1
      <4> QED
        BY <1>1, <2>1, <2>4, <2>5, <3>1, <4>1
    <3>2. CASE ~(u < p)
      <4>1. r[u] = q[u + 1]
        BY <2>3, <3>2
      <4> QED
        BY <1>1, <2>1, <2>4, <2>5, <3>2, <4>1
    <3> QED
      BY <3>1, <3>2
  <2>6. x \in 1..(n - 1) /\ y \in 1..(n - 1) /\ i \in 1..n /\ j \in 1..n
    BY <2>1, <2>3
  <2>7. i = (IF x < p THEN x ELSE x + 1) /\ j = (IF y < p THEN y ELSE y + 1)
    BY <2>5, <2>6
  <2> QED
    BY <2>3, <2>6, <2>7
<1> QED
  BY <1>2, <1>3

LEMMA RemovedOrder ==
    ASSUME NEW l, LineOK(l), NEW s, NEW count, NEW m, m = RemoveQueuedPlayer(l, s, count)
    PROVE  FromTheFront(l, s, m)
<1> DEFINE q == l.order
           r == RemoveFirst(q, s)
<1>1. m.order = r \/ (r # << >> /\ m.order = Tail(r))
  BY DEF RemoveQueuedPlayer
<1>2. q \in Seq(Session) /\ Distinct(q) /\ Len(q) \in Nat
  BY LineParts
<1>3. /\ r \in Seq(Session) /\ Distinct(r) /\ Len(r) \in Nat
      /\ \A i \in 1..Len(r) : r[i] # s /\ Contains(q, r[i])
      /\ \A i \in 1..Len(q) : q[i] # s => Contains(r, q[i])
  BY <1>2, RestFacts DEF RestOf
<1>4. PICK d \in {0, 1} :
         /\ Len(m.order) = Len(r) - d
         /\ \A x \in 1..Len(m.order) : m.order[x] = r[x + d] /\ x + d \in 1..Len(r)
         /\ \A x \in 1..Len(r) : d < x => x - d \in 1..Len(m.order) /\ m.order[x - d] = r[x]
  <2> HIDE DEF r
  <2>1. CASE m.order = r
    <3>1. /\ Len(m.order) = Len(r) - 0
          /\ \A x \in 1..Len(m.order) : m.order[x] = r[x + 0] /\ x + 0 \in 1..Len(r)
          /\ \A x \in 1..Len(r) : 0 < x => x - 0 \in 1..Len(m.order) /\ m.order[x - 0] = r[x]
      BY <1>3, <2>1
    <3> QED
      BY <3>1
  <2>2. CASE r # << >> /\ m.order = Tail(r)
    <3>1. /\ Len(m.order) = Len(r) - 1
          /\ \A x \in 1..Len(m.order) : m.order[x] = r[x + 1] /\ x + 1 \in 1..Len(r)
      BY <1>3, <2>2
    <3>2. \A x \in 1..Len(r) : 1 < x => x - 1 \in 1..Len(m.order) /\ m.order[x - 1] = r[x]
      BY <1>3, <3>1
    <3> QED
      BY <3>1, <3>2
  <2> QED
    BY <1>1, <2>1, <2>2
<1> HIDE DEF q, r
<1>5. ASSUME NEW i \in 1..Len(q), NEW j \in 1..Len(q), q[i] # s,
             ~Contains(m.order, q[i]), Contains(m.order, q[j])
      PROVE  i < j
  <2>1. PICK x \in 1..Len(r) : r[x] = q[i]
    BY <1>3, <1>5 DEF Contains
  <2>2. PICK z \in 1..Len(m.order) : m.order[z] = q[j]
    BY <1>5 DEF Contains
  <2>3. ~(d < x)
    BY <1>4, <1>5, <2>1 DEF Contains
  <2>4. PICK y \in 1..Len(r) : y = z + d /\ r[y] = q[j]
    BY <1>4, <2>2
  <2>5. x < y
    <3>1. Len(m.order) \in Nat
      BY <1>3, <1>4
    <3> QED
      BY <1>3, <2>3, <2>4, <3>1
  <2> QED
    BY <1>2, <2>1, <2>4, <2>5, RestOrder DEF r
<1>6. ASSUME NEW x \in 1..Len(m.order), NEW y \in 1..Len(m.order),
             NEW i \in 1..Len(q), NEW j \in 1..Len(q),
             m.order[x] = q[i], m.order[y] = q[j], x < y
      PROVE  i < j
  <2>1. PICK u \in 1..Len(r) : u = x + d /\ r[u] = q[i]
    BY <1>4, <1>6
  <2>2. PICK v \in 1..Len(r) : v = y + d /\ r[v] = q[j]
    BY <1>4, <1>6
  <2>3. u < v
    <3>1. Len(m.order) \in Nat
      BY <1>3, <1>4
    <3> QED
      BY <1>6, <2>1, <2>2, <3>1
  <2> QED
    BY <1>2, <2>1, <2>2, <2>3, RestOrder DEF r
<1> QED
  BY <1>5, <1>6 DEF FromTheFront, Waiting, q

LEMMA FromTheFrontTwice ==
    ASSUME NEW l, NEW s, NEW m, NEW k, LineOK(l), LineOK(m), LineOK(k),
           FromTheFront(l, s, m), FromTheFront(m, s, k), Shrinks(m, s, k)
    PROVE  FromTheFront(l, s, k)
<1>1. \A f : Waiting(k, f) => Waiting(m, f)
  BY DEF Shrinks
<1>2. ASSUME NEW i \in 1..Len(l.order), NEW j \in 1..Len(l.order), l.order[i] # s,
             ~Waiting(k, l.order[i]), Waiting(k, l.order[j])
      PROVE  i < j
  <2>1. CASE ~Waiting(m, l.order[i])
    BY <1>1, <1>2, <2>1 DEF FromTheFront
  <2>2. CASE Waiting(m, l.order[i])
    <3>1. PICK x \in 1..Len(m.order) : m.order[x] = l.order[i]
      BY <2>2 DEF Waiting, Contains
    <3>2. PICK y \in 1..Len(m.order) : m.order[y] = l.order[j]
      BY <1>1, <1>2 DEF Waiting, Contains
    <3>3. x < y
      BY <1>2, <3>1, <3>2 DEF FromTheFront
    <3> QED
      BY <3>1, <3>2, <3>3 DEF FromTheFront
  <2> QED
    BY <2>1, <2>2
<1>3. ASSUME NEW x \in 1..Len(k.order), NEW y \in 1..Len(k.order),
             NEW i \in 1..Len(l.order), NEW j \in 1..Len(l.order),
             k.order[x] = l.order[i], k.order[y] = l.order[j], x < y
      PROVE  i < j
  <2>1. PICK u \in 1..Len(m.order) : m.order[u] = k.order[x]
    BY <1>1 DEF Waiting, Contains
  <2>2. PICK v \in 1..Len(m.order) : m.order[v] = k.order[y]
    BY <1>1 DEF Waiting, Contains
  <2>3. u < v
    BY <1>3, <2>1, <2>2 DEF FromTheFront
  <2> QED
    BY <1>3, <2>1, <2>2, <2>3 DEF FromTheFront
<1> QED
  BY <1>2, <1>3 DEF FromTheFront

LEMMA AheadGone ==
    ASSUME LineOK(line), NEW z, NEW m, FromTheFront(line, z, m), NEW after,
           \A f : Waiting(line, f) /\ Contains(after, f) => Waiting(m, f),
           NEW s, Waiting(line, s), s # z, ~Waiting(m, s)
    PROVE  Ahead(s) \cap ToSet(after) = {}
<1>1. line.order \in Seq(Session) /\ Distinct(line.order)
  BY LineParts
<1>2. PICK i \in 1..Len(line.order) : line.order[i] = s
  BY DEF Waiting, Contains
<1>3. ASSUME NEW f \in Ahead(s), f \in ToSet(after) PROVE FALSE
  <2>1. PICK j \in 1..Len(line.order) : line.order[j] = f
    BY <1>1, <1>3 DEF Ahead, ToSet
  <2>2. Waiting(line, f) /\ Queued(s)
    BY <2>1 DEF Waiting, Contains, Queued
  <2>3. Position(line.order, f) < Position(line.order, s)
    BY <1>3, <2>2 DEF Ahead
  <2>4. Position(line.order, f) = j /\ Position(line.order, s) = i
    BY <1>1, <1>2, <2>1, PositionFacts
  <2>5. Waiting(m, f)
    <3>1. CASE Contains(after, f)
      BY <2>2, <3>1
    <3>2. CASE ~Contains(after, f)
      BY <1>3, <3>2 DEF ToSet, Contains
    <3> QED
      BY <3>1, <3>2
  <2>6. i < j
    BY <1>2, <2>1, <2>5 DEF FromTheFront
  <2>7. i \in Nat /\ j \in Nat
    BY <1>1
  <2> QED
    BY <2>3, <2>4, <2>6, <2>7
<1> QED
  BY <1>3

\* While some have to wait, a player without privilege never enters past somebody
\* who stood before him.
THEOREM NobodyIsOvertaken == Spec => NoOvertaking
<1> DEFINE Overtakes(s) == ~IsActive(s) /\ IsActive(s)' /\ ~Privileged(s) /\ ~RoomForAll'
           Step == \A s \in Session : Overtakes(s) => Ahead(s) \cap ToSet(line'.order) = {}
<1>1. SessionsInv /\ SessionsInv' /\ [Next]_vars => [Step]_vars
  <2> SUFFICES ASSUME SessionsInv, SessionsInv', [Next]_vars, NEW s \in Session, Overtakes(s)
               PROVE  Ahead(s) \cap ToSet(line'.order) = {}
    OBVIOUS
  <2>1. /\ sessions'[Account(s)] = s /\ ~Waiting(line', s)
        /\ sessions[Account(s)] = s => Waiting(line, s)
        /\ ~Privileged(s) /\ ~RoomForAll'
    BY DEF IsActive, Queued, Waiting
  <2>2. /\ LineOK(line) /\ LineOK(line')
        /\ Account(s) \in Accounts /\ s # NoSession
    BY SessionFacts DEF SessionsInv, LineInv
  <2>3. line'.order \in Seq(Session)
    BY <2>2, LineParts
  <2> HIDE DEF Overtakes
  <2>4. CASE Quiet
    BY <2>1, <2>4 DEF Quiet, Waiting
  <2>5. CASE KickAll
    <3>1. line'.order = << >>
      BY <2>5, KickAllFacts
    <3>2. ToSet(line'.order) = {}
      BY <3>1 DEF ToSet
    <3> QED
      BY <3>2
  <2>6. CASE Accept
    <3>1. PICK n : n = Head(arrived)
      OBVIOUS
    <3>2. PICK a : a = Account(n)
      OBVIOUS
    <3>3. PICK old : old = sessions[a]
      OBVIOUS
    <3>4. PICK l : l = Replaced(old)
      OBVIOUS
    <3>5. PICK w : w = Cardinality(InWorld')
      OBVIOUS
    <3>6. PICK c : c = Cardinality(InWorld)
      OBVIOUS
    <3>7. /\ n \in Session /\ a \in Accounts
          /\ \A b \in Accounts : sessions'[b] = IF b = a THEN n ELSE sessions[b]
          /\ UNCHANGED limit /\ Leaves(line, old, l) /\ ~Waiting(line, n)
          /\ old = NoSession => l = line
          /\ old # NoSession => old \in Session
          /\ line' = IF Waits(n, old, w) THEN AddQueuedPlayer(l, n) ELSE l
      BY <2>6, <3>1, <3>2, <3>3, <3>4, <3>5, <3>6, AcceptFacts
    <3>8. l.order \in Seq(Session)
      BY <3>7, LineParts DEF Leaves
    <3>9. \A f : Contains(line'.order, f) <=> Waiting(l, f) \/ (Waits(n, old, w) /\ f = n)
      BY <3>7, <3>8, AppendFacts DEF AddQueuedPlayer, Waiting
    <3>10. s # n
      <4> SUFFICES ASSUME s = n PROVE FALSE
        OBVIOUS
      <4>1. ~Waits(n, old, w)
        BY <2>1, <3>9 DEF Waiting
      <4>2. limit > 0 /\ ~Waits(n, old, w) /\ ~Privileged(n) => w <= limit
        BY <2>6, <3>1, <3>2, <3>3, <3>4, <3>5, AcceptNumbers
      <4>3. limit \in Nat
        BY SessionsAssumption DEF SessionsInv, StateTypes
      <4>4. limit = 0 \/ w <= limit
        BY <2>1, <4>1, <4>2, <4>3
      <4> QED
        BY <2>1, <3>5, <3>7, <4>4 DEF RoomForAll
    <3>11. /\ sessions[Account(s)] = s /\ Waiting(line, s) /\ ~Waiting(l, s)
           /\ s # old /\ old # NoSession
      <4>1. sessions[Account(s)] = s /\ Account(s) # a
        BY <2>1, <2>2, <3>7, <3>10
      <4>2. s # old
        BY <2>2, <3>3, <3>7, <4>1, OwnAccount
      <4> QED
        BY <2>1, <3>7, <3>9, <4>1, <4>2 DEF Waiting
    <3>12. PICK m : m = RemoveQueuedPlayer(line, old, c)
      OBVIOUS
    <3>13. l.order = m.order
      <4>1. l = Forget(m, {old})
        BY <3>4, <3>6, <3>11, <3>12 DEF Replaced
      <4>2. LineOK(m)
        BY <2>2, <3>7, <3>11, <3>12, RemovedFacts DEF Shrinks
      <4> QED
        BY <4>1, <4>2, ForgetOrder
    <3>14. FromTheFront(line, old, m)
      BY <2>2, <3>12, RemovedOrder
    <3>15. \A f : Waiting(line, f) /\ Contains(line'.order, f) => Waiting(m, f)
      BY <3>7, <3>9, <3>13 DEF Waiting
    <3>16. ~Waiting(m, s)
      BY <3>11, <3>13 DEF Waiting
    <3>17. PICK after : after = line'.order
      OBVIOUS
    <3>18. Ahead(s) \cap ToSet(after) = {}
      BY <2>2, <3>11, <3>14, <3>15, <3>16, <3>17, AheadGone
    <3> QED
      BY <3>17, <3>18
  <2>7. ASSUME NEW a \in todo, RemoveSession(a) PROVE Ahead(s) \cap ToSet(line'.order) = {}
    <3>1. PICK z : z = sessions[a]
      OBVIOUS
    <3>2. PICK c : c = Cardinality(InWorld)
      OBVIOUS
    <3>3. PICK m : m = RemoveQueuedPlayer(line, z, c)
      OBVIOUS
    <3>4. PICK k : k = RemoveQueuedPlayer(m, z, c)
      OBVIOUS
    <3>5. /\ a \in InWorld /\ z # NoSession
          /\ \A b \in Accounts : b # a => sessions'[b] = sessions[b]
          /\ sessions'[a] = NoSession
          /\ Shrinks(line, z, m) /\ Shrinks(m, z, k) /\ line'.order = k.order
      BY <2>7, <3>1, <3>2, <3>3, <3>4, RemoveFacts
    <3>6. sessions[Account(s)] = s /\ Account(s) # a
      BY <2>1, <2>2, <3>5
    <3>7. s # z
      BY <2>2, <3>1, <3>5, <3>6, OwnAccount DEF InWorld
    <3>8. FromTheFront(line, z, k)
      <4>1. LineOK(m) /\ LineOK(k)
        BY <3>5 DEF Shrinks
      <4>2. FromTheFront(line, z, m)
        BY <2>2, <3>3, RemovedOrder
      <4>3. FromTheFront(m, z, k)
        BY <3>4, <4>1, RemovedOrder
      <4> QED
        BY <2>2, <3>5, <4>1, <4>2, <4>3, FromTheFrontTwice
    <3>9. /\ Waiting(line, s) /\ ~Waiting(k, s)
          /\ \A f : Waiting(line, f) /\ Contains(k.order, f) => Waiting(k, f)
      BY <2>1, <3>5, <3>6 DEF Waiting
    <3>10. Ahead(s) \cap ToSet(k.order) = {}
      BY <2>2, <3>7, <3>8, <3>9, AheadGone
    <3> QED
      BY <3>5, <3>10
  <2> QED
    BY <2>4, <2>5, <2>6, <2>7, StepKinds
<1> QED
  BY <1>1, SessionsInvariant, PTL DEF Spec, NoOvertaking

=============================================================================
