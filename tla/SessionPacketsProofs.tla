------------------------ MODULE SessionPacketsProofs ------------------------
(***************************************************************************)
(* Theorems about the way of a client's packets, for any kinds of packets  *)
(* and any number of them.                                                 *)
(***************************************************************************)
EXTENDS SessionPackets, TLAPS

\* A closed socket still points to its session only while one of the two who
\* close it is between closing_ and m_Session, and a session is deleted by a
\* thread that has found or made the socket closed.
CloseInv ==
    /\ closing /\ attached => netPc = "detach" \/ serverPc = "kick"
    /\ netPc = "detach" => closing
    /\ serverPc \in {"kick", "delete"} => closing /\ alive
    /\ ~alive => closing /\ serverPc = "idle"

LEMMA CloseInit == Init => CloseInv
BY DEF Init, CloseInv

LEMMA CloseStep == CloseInv /\ [Next]_vars => CloseInv'
<1> SUFFICES ASSUME CloseInv, [Next]_vars
             PROVE  CloseInv'
  OBVIOUS
<1> USE DEF CloseInv, socketVars, serverVars, playerVars, packetVars, loopVars
<1>1. CASE NetworkStep
  BY <1>1 DEF NetworkStep, Receive, QueuePacket, NotAuthed, IgnorePacket, ReadSession, ReportSession,
                     HandleClose, Detach
<1>2. CASE AddSession \/ RemoveSession \/ RemoveQueuedPlayer
  BY <1>2 DEF AddSession, RemoveSession, RemoveQueuedPlayer, Idle, CloseSocket
<1>3. ASSUME NEW u \in {"world", "map"}, BeginUpdate(u)
      PROVE  CloseInv'
  BY <1>3 DEF BeginUpdate, Idle, CloseSocket
<1>4. CASE TakePacket \/ DelayPacket \/ DropPacket \/ HandlePacket \/ LoopEnds
  BY <1>4 DEF TakePacket, DelayPacket, DropPacket, HandlePacket, LoopEnds
<1>5. CASE HandlePacketAndKick
  BY <1>5 DEF HandlePacketAndKick, CloseSocket
<1>6. CASE ProcessQueryCallbacks
  BY <1>6 DEF ProcessQueryCallbacks, CloseSocket
<1>7. CASE ProcessLogout \/ EndWorldUpdate \/ EndMapUpdate
  BY <1>7 DEF ProcessLogout, EndWorldUpdate, EndMapUpdate, DeleteSession
<1>8. CASE FloodKick
  BY <1>8 DEF FloodKick, CloseSocket
<1>9. CASE ClearSession \/ Delete
  BY <1>9 DEF ClearSession, Delete, DeleteSession
<1>10. CASE UNCHANGED vars
  BY <1>10 DEF vars
<1> QED
  BY <1>1, <1>2, <1>3, <1>4, <1>5, <1>6, <1>7, <1>8, <1>9, <1>10 DEF Next, UpdateStep, Gone

\* No session is deleted that the network thread may still reach through
\* m_Session, whoever closes the socket and in whatever order: only a pointer
\* read before, by a report without m_SessionLock, may outlive the session.
THEOREM SessionsOutliveTheirUse == Spec => []SessionOutlivesUse
<1>1. CloseInv => SessionOutlivesUse
  BY DEF CloseInv, SessionOutlivesUse
<1> QED
  BY <1>1, CloseInit, CloseStep, PTL DEF Spec

\* A logout that is due has a player to log out.
THEOREM LogoutsHavePlayers == Spec => []LeavingHasPlayer
<1>1. Init => LeavingHasPlayer
  BY DEF Init, LeavingHasPlayer
<1>2. LeavingHasPlayer /\ [Next]_vars => LeavingHasPlayer'
  <2> SUFFICES ASSUME LeavingHasPlayer, [Next]_vars
               PROVE  LeavingHasPlayer'
    OBVIOUS
  <2> USE DEF LeavingHasPlayer, playerVars
  <2>1. CASE NetworkStep
    BY <2>1 DEF NetworkStep, Receive, QueuePacket, NotAuthed, IgnorePacket, ReadSession, ReportSession,
                     HandleClose, Detach
  <2>2. CASE AddSession \/ RemoveSession \/ RemoveQueuedPlayer
    BY <2>2 DEF AddSession, RemoveSession, RemoveQueuedPlayer
  <2>3. ASSUME NEW u \in {"world", "map"}, BeginUpdate(u)
        PROVE  LeavingHasPlayer'
    BY <2>3 DEF BeginUpdate
  <2>4. CASE TakePacket \/ DelayPacket \/ DropPacket \/ LoopEnds
    BY <2>4 DEF TakePacket, DelayPacket, DropPacket, LoopEnds
  <2>5. CASE HandlePacket
    <3>1. Kind(packet) = "logout" => player = "world"
      BY <2>5 DEF HandlePacket, MayHandle, Status
    <3>2. Effect(Kind(packet))
      BY <2>5 DEF HandlePacket
    <3> QED
      BY <3>1, <3>2 DEF Effect, LogoutPlayer
  <2>6. CASE HandlePacketAndKick
    BY <2>6 DEF HandlePacketAndKick
  <2>7. CASE ProcessQueryCallbacks
    BY <2>7 DEF ProcessQueryCallbacks
  <2>8. CASE ProcessLogout \/ EndWorldUpdate \/ EndMapUpdate
    BY <2>8 DEF ProcessLogout, LogoutPlayer, EndWorldUpdate, EndMapUpdate, DeleteSession
  <2>9. CASE FloodKick \/ ClearSession \/ Delete
    BY <2>9 DEF FloodKick, ClearSession, Delete, DeleteSession
  <2>10. CASE UNCHANGED vars
    BY <2>10 DEF vars
  <2> QED
    BY <2>1, <2>2, <2>3, <2>4, <2>5, <2>6, <2>7, <2>8, <2>9, <2>10 DEF Next, UpdateStep, Gone
<1> QED
  BY <1>1, <1>2, PTL DEF Spec

\* Neither a session nor a player is used that is gone, but for a report that
\* read m_Session without m_SessionLock before the server closed the socket.
THEOREM GoneIsNotUsed == Spec => []NothingGoneIsUsed
<1>1. SessionOutlivesUse /\ LeavingHasPlayer => NothingGoneIsUsed
  BY DEF NothingGoneIsUsed
<1> QED
  BY <1>1, SessionsOutliveTheirUse, LogoutsHavePlayers, PTL
-----------------------------------------------------------------------------
(* Types. The packets are those received so far, whose number grows.       *)

StateTypes ==
    /\ closing \in BOOLEAN /\ attached \in BOOLEAN /\ alive \in BOOLEAN
    /\ recent \in BOOLEAN /\ leaving \in BOOLEAN
    /\ netPc \in {"poll", "incoming", "report", "lost", "detach", "gone"}
    /\ stage \in {"new", "waiting", "admitted"}
    /\ player \in {"none", "loading", "denied", "world", "transfer"}
    /\ updater \in {"world", "map"}
    /\ serverPc \in {"idle", "take", "process", "callbacks", "end", "kick", "delete"}
    /\ resume \in {"take", "end", "idle", "delete"}

PacketTypes(r, q, d, late, p, f, s) ==
    /\ r \in Seq(Kinds) /\ Len(r) <= MaxPackets
    /\ q \in Seq(1..Len(r)) /\ d \in Seq(1..Len(r)) /\ late \subseteq 1..Len(r)
    /\ p \in 0..Len(r) /\ f \in 0..Len(r)
    /\ s \in Seq(1..Len(r)) /\ Len(s) <= UpdateLimit + 1

TypeInv ==
    /\ StateTypes
    /\ PacketTypes(received, queue, done, delayed, packet, first, seen)
    /\ serverPc = "process" => packet # NoPacket
    /\ netPc = "incoming" => Len(received) < MaxPackets

LEMMA TypeParts == TypeInv => TypeOK
BY DEF TypeInv, StateTypes, PacketTypes, TypeOK

LEMMA CloseSocketTypes ==
    ASSUME StateTypes, NEW next \in {"take", "end", "idle", "delete"}, CloseSocket(next)
    PROVE  /\ closing' \in BOOLEAN
           /\ serverPc' \in {"idle", "take", "process", "callbacks", "end", "kick", "delete"}
           /\ resume' \in {"take", "end", "idle", "delete"}
<1>1. closing \in BOOLEAN /\ resume \in {"take", "end", "idle", "delete"}
  BY DEF StateTypes
<1>2. CASE closing
  BY <1>1, <1>2 DEF CloseSocket
<1>3. CASE ~closing
  BY <1>1, <1>3 DEF CloseSocket
<1> QED
  BY <1>2, <1>3

LEMMA StatesStep ==
    ASSUME StateTypes, [Next]_vars
    PROVE  StateTypes'
<1> USE DEF StateTypes, socketVars, serverVars, playerVars, packetVars, loopVars
<1>1. CASE NetworkStep
  BY <1>1 DEF NetworkStep, Receive, QueuePacket, NotAuthed, IgnorePacket, ReadSession, ReportSession,
                     HandleClose, Detach
<1>2. CASE AddSession \/ RemoveQueuedPlayer
  BY <1>2 DEF AddSession, RemoveQueuedPlayer
<1>3. CASE RemoveSession
  BY <1>3, CloseSocketTypes DEF RemoveSession
<1>4. ASSUME NEW u \in {"world", "map"}, BeginUpdate(u)
      PROVE  StateTypes'
  <2>1. CASE CloseSocket("take")
    BY <1>4, <2>1, CloseSocketTypes DEF BeginUpdate
  <2>2. CASE serverPc' = "take" /\ UNCHANGED <<closing, resume>>
    BY <1>4, <2>2 DEF BeginUpdate
  <2> QED
    BY <1>4, <2>1, <2>2 DEF BeginUpdate
<1>5. CASE TakePacket \/ DelayPacket \/ DropPacket \/ LoopEnds
  BY <1>5 DEF TakePacket, DelayPacket, DropPacket, LoopEnds
<1>6. CASE HandlePacket
  <2>1. player' \in {"none", "loading", "denied", "world", "transfer"}
        /\ recent' \in BOOLEAN /\ leaving' \in BOOLEAN
    BY <1>6 DEF HandlePacket, Effect, LogoutPlayer
  <2> QED
    BY <1>6, <2>1 DEF HandlePacket
<1>7. CASE HandlePacketAndKick
  <2>1. player' \in {"none", "loading", "denied", "world", "transfer"}
    BY <1>7 DEF HandlePacketAndKick
  <2> QED
    BY <1>7, <2>1, CloseSocketTypes DEF HandlePacketAndKick
<1>8. CASE ProcessQueryCallbacks
  <2>1. CASE player' = "none" /\ CloseSocket("end")
    BY <1>8, <2>1, CloseSocketTypes DEF ProcessQueryCallbacks
  <2>2. CASE serverPc' = "end" /\ UNCHANGED <<closing, resume>>
    BY <1>8, <2>2 DEF ProcessQueryCallbacks
  <2> QED
    BY <1>8, <2>1, <2>2 DEF ProcessQueryCallbacks
<1>9. CASE ProcessLogout \/ EndWorldUpdate \/ EndMapUpdate
  BY <1>9 DEF ProcessLogout, LogoutPlayer, EndWorldUpdate, EndMapUpdate, DeleteSession
<1>10. CASE FloodKick
  BY <1>10, CloseSocketTypes DEF FloodKick
<1>11. CASE ClearSession \/ Delete
  BY <1>11 DEF ClearSession, Delete, DeleteSession
<1>12. CASE UNCHANGED vars
  BY <1>12 DEF vars
<1> QED
  BY <1>1, <1>2, <1>3, <1>4, <1>5, <1>6, <1>7, <1>8, <1>9, <1>10, <1>11, <1>12
     DEF Next, UpdateStep, Gone

\* Update is taking packets, or about to go on with it.
Looping == serverPc \in {"take", "process"} \/ (serverPc = "kick" /\ resume = "take")

\* What a step does to the packets and to the loop of Update.
PacketsStay ==
    /\ UNCHANGED <<alive, packetVars, packet, first, seen>>
    /\ serverPc' = "process" <=> serverPc = "process"
    /\ Looping' => Looping

UpdateBegins ==
    /\ UNCHANGED <<alive, packetVars, packet>>
    /\ first' = NoPacket /\ seen' = << >>
    /\ serverPc # "process" /\ serverPc' # "process"

PacketIsDone ==
    /\ serverPc = "process" /\ serverPc' # "process"
    /\ done' = Append(done, packet)
    /\ UNCHANGED <<alive, received, queue, delayed, packet, first, seen>>

SessionIsDeleted ==
    /\ serverPc # "process" /\ serverPc' = "idle"
    /\ ~alive' /\ queue' = << >>
    /\ UNCHANGED <<received, done, delayed, packet, first, seen>>

LEMMA PacketCases ==
    ASSUME StateTypes, [Next]_vars
    PROVE  \/ PacketsStay \/ QueuePacket \/ UpdateBegins \/ TakePacket \/ DelayPacket
           \/ PacketIsDone \/ SessionIsDeleted
<1> USE DEF StateTypes, socketVars, serverVars, playerVars, packetVars, loopVars
<1>1. CASE Receive \/ NotAuthed \/ IgnorePacket \/ ReadSession \/ ReportSession
           \/ HandleClose \/ Detach
  BY <1>1 DEF Receive, NotAuthed, IgnorePacket, ReadSession, ReportSession, HandleClose,
              Detach, PacketsStay, Looping
<1>2. CASE AddSession \/ RemoveQueuedPlayer
  BY <1>2 DEF AddSession, RemoveQueuedPlayer, PacketsStay, Looping
<1>3. CASE RemoveSession
  BY <1>3 DEF RemoveSession, Idle, CloseSocket, PacketsStay, Looping
<1>4. ASSUME NEW u \in {"world", "map"}, BeginUpdate(u)
      PROVE  UpdateBegins
  BY <1>4 DEF BeginUpdate, Idle, CloseSocket, UpdateBegins
<1>5. CASE DropPacket \/ HandlePacket
  BY <1>5 DEF DropPacket, HandlePacket, PacketIsDone
<1>6. CASE HandlePacketAndKick
  BY <1>6 DEF HandlePacketAndKick, CloseSocket, PacketIsDone
<1>7. CASE LoopEnds
  BY <1>7 DEF LoopEnds, PacketsStay, Looping
<1>8. CASE ProcessQueryCallbacks
  BY <1>8 DEF ProcessQueryCallbacks, CloseSocket, PacketsStay, Looping
<1>9. CASE ProcessLogout \/ EndMapUpdate
  BY <1>9 DEF ProcessLogout, EndMapUpdate, PacketsStay, Looping
<1>10. CASE EndWorldUpdate
  BY <1>10 DEF EndWorldUpdate, DeleteSession, PacketsStay, SessionIsDeleted, Looping
<1>11. CASE FloodKick
  BY <1>11 DEF FloodKick, CloseSocket, PacketsStay, Looping
<1>12. CASE ClearSession
  BY <1>12 DEF ClearSession, PacketsStay, Looping
<1>13. CASE Delete
  BY <1>13 DEF Delete, DeleteSession, SessionIsDeleted
<1>14. CASE UNCHANGED vars
  BY <1>14 DEF vars, PacketsStay, Looping
<1> QED
  BY <1>1, <1>2, <1>3, <1>4, <1>5, <1>6, <1>7, <1>8, <1>9, <1>10, <1>11, <1>12, <1>13, <1>14
     DEF Next, NetworkStep, UpdateStep, Gone

\* One packet more has been received.
LEMMA SeqGrows ==
    ASSUME NEW n \in Nat, NEW s \in Seq(1..n)
    PROVE  s \in Seq(1..(n + 1))
<1>1. s \in [1..Len(s) -> 1..n] /\ Len(s) \in Nat
  OBVIOUS
<1>2. s \in [1..Len(s) -> 1..(n + 1)]
  BY <1>1
<1> QED
  BY <1>1, <1>2

\* The bound on packets is tested when one arrives, before it is queued.
LEMMA RoomStep ==
    ASSUME netPc = "incoming" => Len(received) < MaxPackets, [Next]_vars
    PROVE  netPc' = "incoming" => Len(received') < MaxPackets
<1> USE DEF socketVars, packetVars
<1>1. CASE NetworkStep
  BY <1>1 DEF NetworkStep, Receive, QueuePacket, NotAuthed, IgnorePacket, ReadSession, ReportSession,
                     HandleClose, Detach
<1>2. CASE AddSession \/ RemoveSession \/ RemoveQueuedPlayer
  BY <1>2 DEF AddSession, RemoveSession, RemoveQueuedPlayer
<1>3. CASE \E u \in {"world", "map"} : BeginUpdate(u)
  BY <1>3 DEF BeginUpdate
<1>4. CASE TakePacket \/ DelayPacket \/ DropPacket \/ HandlePacket \/ HandlePacketAndKick \/ LoopEnds
  BY <1>4 DEF TakePacket, DelayPacket, DropPacket, HandlePacket, HandlePacketAndKick, LoopEnds
<1>5. CASE ProcessQueryCallbacks \/ ProcessLogout \/ EndWorldUpdate \/ EndMapUpdate \/ FloodKick
  BY <1>5 DEF ProcessQueryCallbacks, ProcessLogout, EndWorldUpdate, EndMapUpdate, FloodKick
<1>6. CASE ClearSession \/ Delete \/ UNCHANGED vars
  BY <1>6 DEF ClearSession, Delete, vars
<1> QED
  BY <1>1, <1>2, <1>3, <1>4, <1>5, <1>6 DEF Next, UpdateStep, Gone

LEMMA TypeStep ==
    ASSUME TypeInv, [Next]_vars
    PROVE  TypeInv'
<1> USE DEF packetVars, loopVars
<1>0. StateTypes /\ StateTypes' /\ (serverPc = "process" => packet # NoPacket)
  BY StatesStep DEF TypeInv
<1>a. netPc' = "incoming" => Len(received') < MaxPackets
  BY RoomStep DEF TypeInv
<1>1. /\ received \in Seq(Kinds) /\ Len(received) <= MaxPackets /\ Len(received) \in Nat
      /\ queue \in Seq(1..Len(received)) /\ done \in Seq(1..Len(received))
      /\ delayed \subseteq 1..Len(received)
      /\ packet \in 0..Len(received) /\ first \in 0..Len(received)
      /\ seen \in Seq(1..Len(received)) /\ Len(seen) <= UpdateLimit + 1
  BY DEF TypeInv, PacketTypes
<1> SUFFICES /\ PacketTypes(received', queue', done', delayed', packet', first', seen')
             /\ serverPc' = "process" => packet' # NoPacket
  BY <1>0, <1>a DEF TypeInv
<1>2. CASE PacketsStay
  BY <1>0, <1>1, <1>2 DEF PacketsStay, PacketTypes
<1>3. CASE QueuePacket
  <2>1. PICK k \in Kinds : received' = Append(received, k)
    BY <1>3 DEF QueuePacket
  <2>2. PICK n \in Nat : n = Len(received) /\ n + 1 <= MaxPackets
    BY <1>1, <1>3, PacketsAssumption DEF QueuePacket, TypeInv
  <2>3. Append(received, k) \in Seq(Kinds) /\ Len(Append(received, k)) = n + 1
    BY <1>1, <2>2
  <2>4. /\ queue \in Seq(1..(n + 1)) /\ done \in Seq(1..(n + 1)) /\ seen \in Seq(1..(n + 1))
    BY <1>1, <2>2, SeqGrows
  <2>5. delayed \subseteq 1..(n + 1) /\ packet \in 0..(n + 1) /\ first \in 0..(n + 1)
    BY <1>1, <2>2
  <2>6. Append(queue, n + 1) \in Seq(1..(n + 1))
    BY <2>2, <2>4
  <2>7. PacketTypes(Append(received, k), Append(queue, n + 1), done, delayed, packet, first, seen)
    BY <1>1, <2>2, <2>3, <2>4, <2>5, <2>6 DEF PacketTypes
  <2> QED
    BY <1>0, <1>3, <2>1, <2>2, <2>7 DEF QueuePacket, serverVars
<1>4. CASE UpdateBegins
  <2>1. << >> \in Seq(1..Len(received)) /\ Len(<< >>) <= UpdateLimit + 1 /\ NoPacket \in 0..Len(received)
    BY <1>1, PacketsAssumption DEF NoPacket
  <2> QED
    BY <1>1, <1>4, <2>1 DEF UpdateBegins, PacketTypes
<1>5. CASE TakePacket
  <2>1. queue # << >> /\ Len(seen) <= UpdateLimit
    BY <1>5 DEF TakePacket, MayTake
  <2>2. /\ Head(queue) \in 1..Len(received) /\ Tail(queue) \in Seq(1..Len(received))
        /\ Append(seen, Head(queue)) \in Seq(1..Len(received))
        /\ Len(Append(seen, Head(queue))) = Len(seen) + 1
    BY <1>1, <2>1
  <2>3. Len(Append(seen, Head(queue))) <= UpdateLimit + 1
    BY <1>1, <2>1, <2>2, PacketsAssumption
  <2>4. Head(queue) \in 0..Len(received) /\ Head(queue) # NoPacket
    BY <1>1, <2>2 DEF NoPacket
  <2> QED
    BY <1>1, <1>5, <2>2, <2>3, <2>4 DEF TakePacket, PacketTypes
<1>6. CASE DelayPacket
  <2>1. packet \in 1..Len(received)
    BY <1>0, <1>1, <1>6 DEF DelayPacket, NoPacket
  <2>2. Append(queue, packet) \in Seq(1..Len(received)) /\ delayed \cup {packet} \subseteq 1..Len(received)
    BY <1>1, <2>1
  <2> QED
    BY <1>0, <1>1, <1>6, <2>2 DEF DelayPacket, PacketTypes
<1>7. CASE PacketIsDone
  <2>1. packet \in 1..Len(received)
    BY <1>0, <1>1, <1>7 DEF PacketIsDone, NoPacket
  <2>2. Append(done, packet) \in Seq(1..Len(received))
    BY <1>1, <2>1
  <2> QED
    BY <1>1, <1>7, <2>2 DEF PacketIsDone, PacketTypes
<1>8. CASE SessionIsDeleted
  <2>1. << >> \in Seq(1..Len(received))
    OBVIOUS
  <2> QED
    BY <1>1, <1>8, <2>1 DEF SessionIsDeleted, PacketTypes
<1> QED
  BY <1>0, <1>2, <1>3, <1>4, <1>5, <1>6, <1>7, <1>8, PacketCases

LEMMA InitTypes == Init => TypeInv
<1>1. /\ << >> \in Seq(Kinds) /\ << >> \in Seq(1..Len(<< >>)) /\ Len(<< >>) = 0
      /\ {} \subseteq 1..Len(<< >>) /\ 0 \in 0..Len(<< >>) /\ 0 <= MaxPackets /\ 0 <= UpdateLimit + 1
  BY PacketsAssumption
<1>2. PacketTypes(<< >>, << >>, << >>, {}, 0, 0, << >>)
  BY <1>1 DEF PacketTypes
<1>3. Init => StateTypes
  BY DEF Init, StateTypes
<1> QED
  BY <1>2, <1>3 DEF Init, TypeInv, NoPacket

\* Every variable keeps its type: no Update looks at more than a packet over its
\* limit, and whatever is in a queue or in hand has been received.
THEOREM SessionPacketsTypeCorrect == Spec => []TypeOK
<1>1. TypeInv /\ [Next]_vars => TypeInv'
  BY TypeStep
<1> QED
  BY <1>1, InitTypes, TypeParts, PTL DEF Spec

-----------------------------------------------------------------------------
(* The packets of a session stand in one line: those done, the one in      *)
(* hand, those in the queue. Two of them are never the same, and one that  *)
(* stands behind a later one has been delayed.                             *)

MayPrecede(p, q, late) == p # q /\ (p > q => q \in late)

InLine(s, late) == \A i, j \in 1..Len(s) : i < j => MayPrecede(s[i], s[j], late)

AllPrecede(s, t, late) == \A i \in 1..Len(s), j \in 1..Len(t) : MayPrecede(s[i], t[j], late)

LineInv ==
    /\ InLine(done, delayed) /\ InLine(queue, delayed) /\ AllPrecede(done, queue, delayed)
    /\ serverPc = "process" => /\ AllPrecede(done, <<packet>>, delayed)
                               /\ AllPrecede(<<packet>>, queue, delayed)
    /\ alive => 1..Len(received) \subseteq Range(done) \cup Range(InHand) \cup Range(queue)

LEMMA LateGrows ==
    ASSUME NEW late, NEW more, late \subseteq more
    PROVE  /\ \A s : InLine(s, late) => InLine(s, more)
           /\ \A s, t : AllPrecede(s, t, late) => AllPrecede(s, t, more)
BY DEF InLine, AllPrecede, MayPrecede

LEMMA EmptyInLine ==
    ASSUME NEW late
    PROVE  InLine(<< >>, late) /\ \A s : AllPrecede(s, << >>, late)
<1>1. Len(<< >>) = 0 /\ 1..0 = {}
  OBVIOUS
<1> QED
  BY <1>1 DEF InLine, AllPrecede

\* p is put at the end of s.
LEMMA AppendInLine ==
    ASSUME NEW S, NEW s \in Seq(S), NEW p \in S, NEW late
    PROVE  /\ InLine(s, late) /\ AllPrecede(s, <<p>>, late) => InLine(Append(s, p), late)
           /\ \A t : AllPrecede(s, t, late) /\ AllPrecede(<<p>>, t, late)
                        => AllPrecede(Append(s, p), t, late)
           /\ \A t : AllPrecede(t, s, late) /\ AllPrecede(t, <<p>>, late)
                        => AllPrecede(t, Append(s, p), late)
           /\ Range(Append(s, p)) = Range(s) \cup {p}
<1> DEFINE n == Len(s)
           u == Append(s, p)
<1>1. n \in Nat /\ Len(u) = n + 1 /\ (\A i \in 1..n : u[i] = s[i]) /\ u[n + 1] = p
      /\ DOMAIN s = 1..n /\ DOMAIN u = 1..(n + 1)
  OBVIOUS
<1>2. Len(<<p>>) = 1 /\ <<p>>[1] = p
  OBVIOUS
<1> HIDE DEF n, u
<1>3. 1..(n + 1) = 1..n \cup {n + 1}
  BY <1>1
<1>4. ASSUME InLine(s, late), AllPrecede(s, <<p>>, late) PROVE InLine(u, late)
  <2>1. ASSUME NEW i \in 1..(n + 1), NEW j \in 1..(n + 1), i < j
        PROVE  MayPrecede(u[i], u[j], late)
    <3>1. i \in 1..n
      BY <1>1, <2>1
    <3>2. CASE j \in 1..n
      BY <1>1, <1>4, <2>1, <3>1, <3>2 DEF InLine, n
    <3>3. CASE j = n + 1
      BY <1>1, <1>2, <1>4, <3>1, <3>3 DEF AllPrecede, n
    <3> QED
      BY <1>3, <3>2, <3>3
  <2> QED
    BY <1>1, <2>1 DEF InLine
<1>5. ASSUME NEW t, AllPrecede(s, t, late), AllPrecede(<<p>>, t, late) PROVE AllPrecede(u, t, late)
  BY <1>1, <1>2, <1>3, <1>5 DEF AllPrecede, n
<1>6. ASSUME NEW t, AllPrecede(t, s, late), AllPrecede(t, <<p>>, late) PROVE AllPrecede(t, u, late)
  BY <1>1, <1>2, <1>3, <1>6 DEF AllPrecede, n
<1>7. Range(u) = Range(s) \cup {p}
  BY <1>1, <1>3 DEF Range
<1> QED
  BY <1>4, <1>5, <1>6, <1>7 DEF u

\* The head of s is taken out.
LEMMA HeadInLine ==
    ASSUME NEW S, NEW s \in Seq(S), s # << >>, NEW late, InLine(s, late)
    PROVE  /\ InLine(Tail(s), late) /\ AllPrecede(<<Head(s)>>, Tail(s), late)
           /\ \A t : AllPrecede(t, s, late)
                        => AllPrecede(t, <<Head(s)>>, late) /\ AllPrecede(t, Tail(s), late)
           /\ Range(s) = {Head(s)} \cup Range(Tail(s))
<1> DEFINE n == Len(s)
           h == Head(s)
           r == Tail(s)
<1>1. /\ n \in Nat \ {0} /\ h = s[1] /\ Len(r) = n - 1 /\ (\A i \in 1..(n - 1) : r[i] = s[i + 1])
      /\ DOMAIN s = 1..n /\ DOMAIN r = 1..(n - 1)
  OBVIOUS
<1>2. Len(<<h>>) = 1 /\ <<h>>[1] = h
  OBVIOUS
<1> HIDE DEF n, h, r
<1>3. \A i \in 1..(n - 1) : i + 1 \in 1..n /\ 1 < i + 1
  BY <1>1
<1>4. 1 \in 1..n /\ \A i \in 1..n : i = 1 \/ \E j \in 1..(n - 1) : i = j + 1
  <2>1. \A i \in 1..n : i # 1 => i - 1 \in 1..(n - 1) /\ i = (i - 1) + 1
    BY <1>1
  <2> QED
    BY <1>1, <2>1
<1>5. InLine(r, late)
  <2>1. ASSUME NEW i \in 1..(n - 1), NEW j \in 1..(n - 1), i < j
        PROVE  MayPrecede(r[i], r[j], late)
    <3>1. i + 1 < j + 1
      BY <1>1, <2>1
    <3> QED
      BY <1>1, <1>3, <3>1 DEF InLine, n
  <2> QED
    BY <1>1, <2>1 DEF InLine
<1>6. AllPrecede(<<h>>, r, late)
  <2>1. ASSUME NEW j \in 1..(n - 1) PROVE MayPrecede(h, r[j], late)
    BY <1>1, <1>3, <1>4 DEF InLine, n
  <2> QED
    BY <1>1, <1>2, <2>1 DEF AllPrecede
<1>7. ASSUME NEW t, AllPrecede(t, s, late)
      PROVE  AllPrecede(t, <<h>>, late) /\ AllPrecede(t, r, late)
  <2>1. \A i \in 1..Len(t), j \in 1..n : MayPrecede(t[i], s[j], late)
    BY <1>7 DEF AllPrecede, n
  <2>2. AllPrecede(t, <<h>>, late)
    BY <1>1, <1>2, <1>4, <2>1 DEF AllPrecede
  <2>3. AllPrecede(t, r, late)
    BY <1>1, <1>3, <2>1 DEF AllPrecede
  <2> QED
    BY <2>2, <2>3
<1>8. Range(s) = {h} \cup Range(r)
  <2>1. Range(s) = {s[i] : i \in 1..n} /\ Range(r) = {r[i] : i \in 1..(n - 1)}
    BY <1>1 DEF Range
  <2>2. \A i \in 1..(n - 1) : r[i] \in {s[k] : k \in 1..n}
    BY <1>1, <1>3
  <2>3. ASSUME NEW i \in 1..n PROVE s[i] \in {h} \cup {r[k] : k \in 1..(n - 1)}
    <3>1. CASE i = 1
      BY <1>1, <3>1
    <3>2. CASE \E j \in 1..(n - 1) : i = j + 1
      <4>1. PICK j \in 1..(n - 1) : i = j + 1
        BY <3>2
      <4>2. s[i] = r[j]
        BY <1>1, <4>1
      <4> QED
        BY <4>2
    <3> QED
      BY <1>4, <3>1, <3>2
  <2>4. h \in {s[k] : k \in 1..n}
    BY <1>1, <1>4
  <2> QED
    BY <2>1, <2>2, <2>3, <2>4
<1> QED
  BY <1>5, <1>6, <1>7, <1>8 DEF h, r

\* The packet received next may stand behind all others.
LEMMA NewestIsLast ==
    ASSUME NEW n \in Nat, NEW s \in Seq(1..n), NEW late
    PROVE  AllPrecede(s, <<n + 1>>, late)
<1>1. Len(<<n + 1>>) = 1 /\ <<n + 1>>[1] = n + 1
  OBVIOUS
<1>2. \A i \in 1..Len(s) : s[i] \in 1..n
  OBVIOUS
<1>3. \A x \in 1..n : x # n + 1 /\ ~(x > n + 1)
  OBVIOUS
<1> QED
  BY <1>1, <1>2, <1>3 DEF AllPrecede, MayPrecede

\* A packet that is delayed may stand behind those it stood before.
LEMMA DelayedMayFollow ==
    ASSUME NEW p, NEW s, NEW late, AllPrecede(<<p>>, s, late)
    PROVE  AllPrecede(s, <<p>>, late \cup {p})
<1>1. Len(<<p>>) = 1 /\ <<p>>[1] = p /\ 1 \in 1..Len(<<p>>) /\ \A j \in 1..Len(<<p>>) : j = 1
  OBVIOUS
<1> QED
  BY <1>1 DEF AllPrecede, MayPrecede

LEMMA LineInit == Init => LineInv
<1>1. SUFFICES ASSUME Init PROVE LineInv
  OBVIOUS
<1>2. /\ received = << >> /\ queue = << >> /\ done = << >> /\ delayed = {}
      /\ serverPc = "idle"
  BY <1>1 DEF Init
<1>3. 1..Len(received) = {}
  BY <1>2
<1> QED
  BY <1>2, <1>3, EmptyInLine DEF LineInv

LEMMA LineStep ==
    ASSUME TypeInv, LineInv, [Next]_vars
    PROVE  LineInv'
<1> USE DEF packetVars, loopVars
<1>1. /\ Len(received) \in Nat /\ received \in Seq(Kinds)
      /\ queue \in Seq(1..Len(received)) /\ done \in Seq(1..Len(received))
      /\ packet \in 0..Len(received)
      /\ serverPc = "process" => packet \in 1..Len(received)
  BY DEF TypeInv, PacketTypes, NoPacket
<1>2. /\ InLine(done, delayed) /\ InLine(queue, delayed) /\ AllPrecede(done, queue, delayed)
      /\ serverPc = "process" => /\ AllPrecede(done, <<packet>>, delayed)
                                 /\ AllPrecede(<<packet>>, queue, delayed)
      /\ alive => 1..Len(received) \subseteq Range(done) \cup Range(InHand) \cup Range(queue)
  BY DEF LineInv
<1>a. Range(<< >>) = {} /\ \A p : Range(<<p>>) = {p}
  BY DEF Range
<1>3. CASE PacketsStay
  BY <1>2, <1>3 DEF PacketsStay, LineInv, InHand
<1>4. CASE QueuePacket
  <2> DEFINE n == Len(received)
  <2>1. PICK k \in Kinds : received' = Append(received, k)
    BY <1>4 DEF QueuePacket
  <2>2. /\ queue' = Append(queue, n + 1) /\ Len(received') = n + 1
        /\ UNCHANGED <<done, delayed, packet, serverPc, alive>>
    BY <1>1, <1>4, <2>1 DEF QueuePacket, serverVars
  <2> HIDE DEF n
  <2>3. /\ queue \in Seq(1..n) /\ done \in Seq(1..n) /\ n \in Nat
        /\ queue \in Seq(1..(n + 1)) /\ n + 1 \in 1..(n + 1)
    BY <1>1, SeqGrows DEF n
  <2>4. AllPrecede(queue, <<n + 1>>, delayed) /\ AllPrecede(done, <<n + 1>>, delayed)
    BY <2>3, NewestIsLast
  <2>5. /\ InLine(Append(queue, n + 1), delayed) /\ AllPrecede(done, Append(queue, n + 1), delayed)
        /\ Range(Append(queue, n + 1)) = Range(queue) \cup {n + 1}
    <3>1. PICK m, R : m = n + 1 /\ R = 1..(n + 1)
      OBVIOUS
    <3>2. queue \in Seq(R) /\ m \in R /\ AllPrecede(queue, <<m>>, delayed) /\ AllPrecede(done, <<m>>, delayed)
      BY <2>3, <2>4, <3>1
    <3>3. InLine(Append(queue, m), delayed)
      BY <1>2, <3>2, AppendInLine
    <3>4. AllPrecede(done, Append(queue, m), delayed)
      BY <1>2, <3>2, AppendInLine
    <3>5. Range(Append(queue, m)) = Range(queue) \cup {m}
      BY <3>2, AppendInLine
    <3> QED
      BY <3>1, <3>3, <3>4, <3>5
  <2>6. ASSUME serverPc = "process"
        PROVE  AllPrecede(<<packet>>, Append(queue, n + 1), delayed)
    <3>1. <<packet>> \in Seq(1..n)
      BY <1>1, <2>6 DEF n
    <3>2. AllPrecede(<<packet>>, <<n + 1>>, delayed)
      BY <2>3, <3>1, NewestIsLast
    <3> QED
      BY <1>2, <2>3, <2>6, <3>2, AppendInLine
  <2>7. InHand' = InHand
    BY <2>2 DEF InHand
  <2>8. ASSUME alive
        PROVE  1..(n + 1) \subseteq Range(done) \cup Range(InHand) \cup Range(Append(queue, n + 1))
    <3>1. 1..(n + 1) \subseteq 1..n \cup {n + 1}
      BY <2>3
    <3> QED
      BY <1>2, <2>5, <2>8, <3>1 DEF n
  <2> QED
    BY <1>2, <2>2, <2>5, <2>6, <2>7, <2>8 DEF LineInv
<1>5. CASE UpdateBegins
  BY <1>2, <1>5 DEF UpdateBegins, LineInv, InHand
<1>6. CASE TakePacket
  <2>1. /\ queue # << >> /\ serverPc = "take" /\ serverPc' = "process"
        /\ packet' = Head(queue) /\ queue' = Tail(queue)
        /\ UNCHANGED <<done, delayed, received, alive>>
    BY <1>6 DEF TakePacket, MayTake
  <2>2. /\ InLine(Tail(queue), delayed) /\ AllPrecede(<<Head(queue)>>, Tail(queue), delayed)
        /\ AllPrecede(done, <<Head(queue)>>, delayed) /\ AllPrecede(done, Tail(queue), delayed)
        /\ Range(queue) = {Head(queue)} \cup Range(Tail(queue))
    BY <1>1, <1>2, <2>1, HeadInLine
  <2>3. InHand = << >> /\ InHand' = <<Head(queue)>>
    BY <2>1 DEF InHand
  <2>4. alive => 1..Len(received) \subseteq
                    Range(done) \cup Range(<<Head(queue)>>) \cup Range(Tail(queue))
    BY <1>2, <1>a, <2>2, <2>3
  <2> QED
    BY <1>2, <2>1, <2>2, <2>3, <2>4 DEF LineInv
<1>7. CASE DelayPacket
  <2> DEFINE late == delayed \cup {packet}
  <2>1. /\ serverPc = "process" /\ serverPc' = "take"
        /\ queue' = Append(queue, packet) /\ delayed' = late
        /\ UNCHANGED <<done, received, alive>>
    BY <1>7 DEF DelayPacket
  <2>2. packet \in 1..Len(received) /\ AllPrecede(queue, <<packet>>, late)
    BY <1>1, <1>2, <2>1, DelayedMayFollow
  <2>3. delayed \subseteq late
    OBVIOUS
  <2> HIDE DEF late
  <2>4. /\ InLine(done, late) /\ InLine(queue, late) /\ AllPrecede(done, queue, late)
        /\ AllPrecede(done, <<packet>>, late)
    BY <1>2, <2>1, <2>3, LateGrows
  <2>5. /\ InLine(Append(queue, packet), late) /\ AllPrecede(done, Append(queue, packet), late)
        /\ Range(Append(queue, packet)) = Range(queue) \cup {packet}
    BY <1>1, <2>2, <2>4, AppendInLine
  <2>6. InHand = <<packet>> /\ InHand' = << >>
    BY <2>1 DEF InHand
  <2>7. alive => 1..Len(received) \subseteq
                    Range(done) \cup Range(<< >>) \cup Range(Append(queue, packet))
    BY <1>2, <1>a, <2>5, <2>6
  <2> QED
    BY <2>1, <2>4, <2>5, <2>6, <2>7 DEF LineInv
<1>8. CASE PacketIsDone
  <2>1. /\ serverPc = "process" /\ serverPc' # "process" /\ done' = Append(done, packet)
        /\ UNCHANGED <<queue, delayed, received, alive>>
    BY <1>8 DEF PacketIsDone
  <2>2. /\ InLine(Append(done, packet), delayed) /\ AllPrecede(Append(done, packet), queue, delayed)
        /\ Range(Append(done, packet)) = Range(done) \cup {packet}
    <3>1. done \in Seq(1..Len(received)) /\ packet \in 1..Len(received)
      BY <1>1, <2>1
    <3>2. InLine(Append(done, packet), delayed)
      BY <1>2, <2>1, <3>1, AppendInLine
    <3>3. AllPrecede(Append(done, packet), queue, delayed)
      BY <1>2, <2>1, <3>1, AppendInLine
    <3>4. Range(Append(done, packet)) = Range(done) \cup {packet}
      BY <3>1, AppendInLine
    <3> QED
      BY <3>2, <3>3, <3>4
  <2>3. InHand = <<packet>> /\ InHand' = << >>
    BY <2>1 DEF InHand
  <2>4. alive => 1..Len(received) \subseteq
                    Range(Append(done, packet)) \cup Range(<< >>) \cup Range(queue)
    BY <1>2, <1>a, <2>2, <2>3
  <2> QED
    BY <1>2, <2>1, <2>2, <2>3, <2>4 DEF LineInv
<1>9. CASE SessionIsDeleted
  BY <1>2, <1>9, EmptyInLine DEF SessionIsDeleted, LineInv
<1>10. StateTypes
  BY DEF TypeInv
<1> QED
  BY <1>3, <1>4, <1>5, <1>6, <1>7, <1>8, <1>9, <1>10, PacketCases

LEMMA ConcatInLine ==
    ASSUME NEW S, NEW s \in Seq(S), NEW t \in Seq(S), NEW late
    PROVE  /\ s \o t \in Seq(S) /\ Range(s) \cup Range(t) \subseteq Range(s \o t)
           /\ InLine(s, late) /\ InLine(t, late) /\ AllPrecede(s, t, late) => InLine(s \o t, late)
           /\ \A u : AllPrecede(s, u, late) /\ AllPrecede(t, u, late) => AllPrecede(s \o t, u, late)
<1> DEFINE m == Len(s)
           n == Len(t)
           u == s \o t
<1>1. /\ m \in Nat /\ n \in Nat /\ u \in Seq(S) /\ Len(u) = m + n
      /\ (\A i \in 1..m : u[i] = s[i]) /\ (\A i \in 1..n : u[m + i] = t[i])
      /\ DOMAIN s = 1..m /\ DOMAIN t = 1..n /\ DOMAIN u = 1..(m + n)
  OBVIOUS
<1> HIDE DEF m, n, u
<1>2. \A i \in 1..(m + n) : i \in 1..m \/ \E j \in 1..n : i = m + j
  <2>1. \A i \in 1..(m + n) : i \notin 1..m => i - m \in 1..n /\ i = m + (i - m)
    BY <1>1
  <2> QED
    BY <2>1
<1>3. /\ \A i \in 1..m : i \in 1..(m + n)
      /\ \A i \in 1..n : m + i \in 1..(m + n)
  BY <1>1
<1>4. Range(s) \cup Range(t) \subseteq Range(u)
  BY <1>1, <1>3 DEF Range
<1>5. ASSUME InLine(s, late), InLine(t, late), AllPrecede(s, t, late)
      PROVE  InLine(u, late)
  <2>1. ASSUME NEW i \in 1..(m + n), NEW j \in 1..(m + n), i < j
        PROVE  MayPrecede(u[i], u[j], late)
    <3>1. CASE i \in 1..m /\ j \in 1..m
      BY <1>1, <1>5, <2>1, <3>1 DEF InLine, m
    <3>2. CASE i \in 1..m /\ \E k \in 1..n : j = m + k
      BY <1>1, <1>5, <3>2 DEF AllPrecede, m, n
    <3>3. CASE j \in 1..m /\ \E k \in 1..n : i = m + k
      BY <1>1, <2>1, <3>3
    <3>4. CASE (\E k \in 1..n : i = m + k) /\ (\E k \in 1..n : j = m + k)
      <4>1. PICK k \in 1..n, l \in 1..n : i = m + k /\ j = m + l
        BY <3>4
      <4>2. k < l
        BY <1>1, <2>1, <4>1
      <4>3. MayPrecede(t[k], t[l], late)
        BY <1>5, <4>2 DEF InLine, n
      <4> QED
        BY <1>1, <4>1, <4>3
    <3> QED
      BY <1>2, <3>1, <3>2, <3>3, <3>4
  <2> QED
    BY <1>1, <2>1 DEF InLine
<1>6. ASSUME NEW v, AllPrecede(s, v, late), AllPrecede(t, v, late)
      PROVE  AllPrecede(u, v, late)
  <2>1. ASSUME NEW i \in 1..(m + n), NEW j \in 1..Len(v)
        PROVE  MayPrecede(u[i], v[j], late)
    <3>1. CASE i \in 1..m
      BY <1>1, <1>6, <3>1 DEF AllPrecede, m
    <3>2. CASE \E k \in 1..n : i = m + k
      BY <1>1, <1>6, <3>2 DEF AllPrecede, n
    <3> QED
      BY <1>2, <3>1, <3>2
  <2> QED
    BY <1>1, <2>1 DEF AllPrecede
<1> QED
  BY <1>1, <1>4, <1>5, <1>6 DEF u

\* The line is one sequence: PacketsAccounted and OvertakenOnlyIfDelayed are
\* about all of it.
LEMMA TheLine ==
    ASSUME TypeInv, LineInv
    PROVE  LET all == done \o InHand \o queue
           IN  /\ all \in Seq(1..Len(received)) /\ InLine(all, delayed)
               /\ alive => 1..Len(received) \subseteq Range(all)
<1> DEFINE N == 1..Len(received)
           front == done \o InHand
           all == front \o queue
<1>1. /\ queue \in Seq(N) /\ done \in Seq(N)
      /\ serverPc = "process" => packet \in N
  BY DEF TypeInv, PacketTypes, NoPacket
<1> HIDE DEF N
<1>2. /\ InLine(done, delayed) /\ InLine(queue, delayed) /\ AllPrecede(done, queue, delayed)
      /\ serverPc = "process" => /\ AllPrecede(done, <<packet>>, delayed)
                                 /\ AllPrecede(<<packet>>, queue, delayed)
      /\ alive => N \subseteq Range(done) \cup Range(InHand) \cup Range(queue)
  BY DEF LineInv, N
<1>3. /\ InHand \in Seq(N) /\ InLine(InHand, delayed)
      /\ AllPrecede(done, InHand, delayed) /\ AllPrecede(InHand, queue, delayed)
  <2>1. CASE serverPc = "process"
    <3>1. InHand = <<packet>> /\ InHand \in Seq(N)
      BY <1>1, <2>1 DEF InHand
    <3>2. \A i, j \in 1..Len(<<packet>>) : ~(i < j)
      OBVIOUS
    <3> QED
      BY <1>2, <2>1, <3>1, <3>2 DEF InLine
  <2>2. CASE serverPc # "process"
    <3>1. InHand = << >> /\ InHand \in Seq(N)
      BY <2>2 DEF InHand
    <3>2. Len(<< >>) = 0 /\ 1..0 = {}
      OBVIOUS
    <3> QED
      BY <3>1, <3>2, EmptyInLine DEF AllPrecede
  <2> QED
    BY <2>1, <2>2
<1>4. /\ front \in Seq(N) /\ InLine(front, delayed) /\ AllPrecede(front, queue, delayed)
      /\ Range(done) \cup Range(InHand) \subseteq Range(front)
  BY <1>1, <1>2, <1>3, ConcatInLine
<1> HIDE DEF front
<1>5. /\ all \in Seq(N) /\ InLine(all, delayed)
      /\ Range(front) \cup Range(queue) \subseteq Range(all)
  BY <1>1, <1>2, <1>4, ConcatInLine
<1>6. alive => N \subseteq Range(all)
  BY <1>2, <1>4, <1>5
<1> QED
  BY <1>5, <1>6 DEF N, front

LEMMA LineIsInjective ==
    ASSUME NEW S, NEW s \in Seq(S), NEW late, InLine(s, late)
    PROVE  IsInjective(s) /\ Range(s) \subseteq S
<1>1. Len(s) \in Nat /\ DOMAIN s = 1..Len(s) /\ \A i \in 1..Len(s) : s[i] \in S
  OBVIOUS
<1>2. ASSUME NEW i \in 1..Len(s), NEW j \in 1..Len(s), s[i] = s[j] PROVE i = j
  <2>1. ~(i < j) /\ ~(j < i)
    BY <1>2 DEF InLine, MayPrecede
  <2> QED
    BY <1>1, <2>1
<1> QED
  BY <1>1, <1>2 DEF IsInjective, Range

\* As long as there is a session, each packet received is in its queue, in hand
\* or done, and is so once: packets the network thread queues meanwhile, and
\* packets put back, are neither lost nor handled twice.
THEOREM EveryPacketIsAccounted == Spec => []PacketsAccounted
<1>1. TypeInv /\ LineInv => PacketsAccounted
  <2> SUFFICES ASSUME TypeInv, LineInv, alive PROVE PacketsAccounted
    BY DEF PacketsAccounted
  <2> DEFINE all == done \o InHand \o queue
  <2>1. all \in Seq(1..Len(received)) /\ InLine(all, delayed) /\ 1..Len(received) \subseteq Range(all)
    BY TheLine
  <2> HIDE DEF all
  <2>2. IsInjective(all) /\ Range(all) \subseteq 1..Len(received)
    BY <2>1, LineIsInjective
  <2>3. Range(all) = 1..Len(received)
    BY <2>1, <2>2
  <2> QED
    BY <2>2, <2>3 DEF PacketsAccounted, all
<1>2. Init => TypeInv /\ LineInv
  BY InitTypes, LineInit
<1>3. (TypeInv /\ LineInv) /\ [Next]_vars => (TypeInv /\ LineInv)'
  BY TypeStep, LineStep
<1> QED
  BY <1>1, <1>2, <1>3, PTL DEF Spec

\* A packet stands before an earlier one only if that has been put back: without
\* a delay a session's packets are handled in the order of their arrival, also
\* when world and map take turns in handling them.
THEOREM OrderIsKept == Spec => []OvertakenOnlyIfDelayed
<1>1. TypeInv /\ LineInv => OvertakenOnlyIfDelayed
  <2> SUFFICES ASSUME TypeInv, LineInv PROVE OvertakenOnlyIfDelayed
    OBVIOUS
  <2> DEFINE all == done \o InHand \o queue
  <2>1. InLine(all, delayed)
    BY TheLine
  <2> HIDE DEF all
  <2>2. \A i, j \in 1..Len(all) : i < j /\ all[i] > all[j] => all[j] \in delayed
    BY <2>1 DEF InLine, MayPrecede
  <2> QED
    BY <2>2 DEF OvertakenOnlyIfDelayed, all
<1>2. Init => TypeInv /\ LineInv
  BY InitTypes, LineInit
<1>3. (TypeInv /\ LineInv) /\ [Next]_vars => (TypeInv /\ LineInv)'
  BY TypeStep, LineStep
<1> QED
  BY <1>1, <1>2, <1>3, PTL DEF Spec

-----------------------------------------------------------------------------
(* Once per update. While Update takes packets, none of the queue has been *)
(* seen, or none before firstDelayedPacket, where it stops.                *)

UnseenIn(q, n, s) == \A i \in 1..n : q[i] \notin Range(s)

Fresh(q, f, s) ==
    IF f = NoPacket THEN UnseenIn(q, Len(q), s)
    ELSE \E n \in 1..Len(q) : q[n] = f /\ UnseenIn(q, n - 1, s)

OnceInv == OncePerUpdate /\ (Looping => Fresh(queue, first, seen))

LEMMA InjectiveAppend ==
    ASSUME NEW S, NEW s \in Seq(S), NEW p \in S, IsInjective(s), p \notin Range(s)
    PROVE  IsInjective(Append(s, p)) /\ Range(Append(s, p)) = Range(s) \cup {p}
<1> DEFINE n == Len(s)
           u == Append(s, p)
<1>1. n \in Nat /\ Len(u) = n + 1 /\ (\A i \in 1..n : u[i] = s[i]) /\ u[n + 1] = p
      /\ DOMAIN s = 1..n /\ DOMAIN u = 1..(n + 1)
  OBVIOUS
<1> HIDE DEF n, u
<1>2. 1..(n + 1) = 1..n \cup {n + 1}
  BY <1>1
<1>3. \A i \in 1..n : u[i] # p
  BY <1>1 DEF Range
<1>4. IsInjective(u)
  BY <1>1, <1>2, <1>3 DEF IsInjective
<1>5. Range(u) = Range(s) \cup {p}
  BY <1>1, <1>2 DEF Range
<1> QED
  BY <1>4, <1>5 DEF u

\* A packet that has not been seen, or any behind firstDelayedPacket, is put at
\* the end of the queue.
LEMMA FreshAppend ==
    ASSUME NEW S, NEW q \in Seq(S), NEW p \in S, NEW f, NEW s,
           Fresh(q, f, s), f # NoPacket \/ p \notin Range(s)
    PROVE  Fresh(Append(q, p), f, s)
<1> DEFINE m == Len(q)
           u == Append(q, p)
<1>1. m \in Nat /\ Len(u) = m + 1 /\ (\A i \in 1..m : u[i] = q[i]) /\ u[m + 1] = p
      /\ 1..(m + 1) = 1..m \cup {m + 1}
  OBVIOUS
<1> HIDE DEF m, u
<1>2. CASE f = NoPacket
  BY <1>1, <1>2 DEF Fresh, UnseenIn, m, u
<1>3. CASE f # NoPacket
  <2>1. PICK n \in 1..m : q[n] = f /\ UnseenIn(q, n - 1, s)
    BY <1>3 DEF Fresh, m
  <2>2. n \in 1..(m + 1) /\ \A i \in 1..(n - 1) : i \in 1..m
    BY <1>1
  <2>3. u[n] = f /\ UnseenIn(u, n - 1, s)
    BY <1>1, <2>1, <2>2 DEF UnseenIn
  <2> QED
    BY <1>1, <1>3, <2>2, <2>3 DEF Fresh, u
<1> QED
  BY <1>2, <1>3

\* The packet at the head is taken, but never firstDelayedPacket.
LEMMA FreshTail ==
    ASSUME NEW S, NEW q \in Seq(S), q # << >>, NEW s \in Seq(S), NEW f,
           IsInjective(q), Fresh(q, f, s), Head(q) # f, Head(q) \in S
    PROVE  /\ Head(q) \notin Range(s)
           /\ Fresh(Tail(q), f, Append(s, Head(q)))
<1> DEFINE m == Len(q)
           h == Head(q)
           r == Tail(q)
           u == Append(s, h)
<1>1. /\ m \in Nat \ {0} /\ h = q[1] /\ Len(r) = m - 1 /\ (\A i \in 1..(m - 1) : r[i] = q[i + 1])
      /\ DOMAIN q = 1..m
  OBVIOUS
<1>2. Range(u) = Range(s) \cup {h}
  <2>1. \A late : Range(Append(s, h)) = Range(s) \cup {h}
    BY AppendInLine
  <2> QED
    BY <2>1
<1> HIDE DEF m, h, r, u
<1>3. \A i \in 1..(m - 1) : i + 1 \in 1..m /\ r[i] # h
  <2>1. ASSUME NEW i \in 1..(m - 1) PROVE i + 1 \in 1..m /\ 1 \in 1..m /\ i + 1 # 1
    BY <1>1
  <2> QED
    BY <1>1, <2>1 DEF IsInjective
<1>4. CASE f = NoPacket
  <2>1. \A i \in 1..m : q[i] \notin Range(s)
    BY <1>4 DEF Fresh, UnseenIn, m
  <2>2. 1 \in 1..m
    BY <1>1
  <2>3. h \notin Range(s)
    BY <1>1, <2>1, <2>2
  <2>4. \A i \in 1..(m - 1) : r[i] \notin Range(u)
    BY <1>1, <1>2, <1>3, <2>1
  <2> QED
    BY <1>1, <1>4, <2>3, <2>4 DEF Fresh, UnseenIn, h, r, u
<1>5. CASE f # NoPacket
  <2>1. PICK n \in 1..m : q[n] = f /\ UnseenIn(q, n - 1, s)
    BY <1>5 DEF Fresh, m
  <2>2. n # 1
    BY <1>1, <2>1 DEF h
  <2>3. n - 1 \in 1..(m - 1) /\ (n - 1) + 1 = n /\ 1 \in 1..(n - 1)
    BY <1>1, <2>2
  <2>4. h \notin Range(s)
    BY <1>1, <2>1, <2>3 DEF UnseenIn
  <2>5. ASSUME NEW i \in 1..(n - 1 - 1) PROVE r[i] \notin Range(u)
    <3>1. i \in 1..(m - 1) /\ i + 1 \in 1..(n - 1)
      BY <1>1, <2>3
    <3> QED
      BY <1>1, <1>2, <1>3, <2>1, <3>1 DEF UnseenIn
  <2>6. r[n - 1] = f
    BY <1>1, <2>1, <2>3
  <2>7. Fresh(r, f, u)
    BY <1>1, <1>5, <2>3, <2>5, <2>6 DEF Fresh, UnseenIn
  <2> QED
    BY <2>4, <2>7 DEF h, r, u
<1> QED
  BY <1>4, <1>5

LEMMA OnceStep ==
    ASSUME TypeInv, LineInv, OnceInv, [Next]_vars
    PROVE  OnceInv'
<1> USE DEF packetVars, loopVars
<1> DEFINE N == 1..Len(received)
<1>1. /\ Len(received) \in Nat
      /\ queue \in Seq(N) /\ seen \in Seq(N)
      /\ serverPc = "process" => packet \in N /\ packet # NoPacket
  BY DEF TypeInv, PacketTypes, NoPacket
<1>2. IsInjective(seen) /\ (Looping => Fresh(queue, first, seen))
  BY DEF OnceInv, OncePerUpdate
<1>3. CASE PacketsStay
  BY <1>2, <1>3 DEF PacketsStay, OnceInv, OncePerUpdate
<1>4. CASE QueuePacket
  <2>1. PICK n, R : n \in Nat /\ n = Len(received) + 1 /\ R = 1..n /\ n - 1 = Len(received)
    BY <1>1
  <2>2. queue' = Append(queue, n) /\ UNCHANGED <<first, seen, serverPc, resume>>
    BY <1>4, <2>1 DEF QueuePacket, serverVars
  <2>3. queue \in Seq(R) /\ n \in R
    BY <1>1, <2>1, SeqGrows
  <2>4. n \notin Range(seen)
    <3>1. \A i \in DOMAIN seen : seen[i] \in N
      BY <1>1
    <3>2. n \notin N
      BY <1>1, <2>1
    <3> QED
      BY <3>1, <3>2 DEF Range
  <2>5. Looping => Fresh(Append(queue, n), first, seen)
    BY <1>2, <2>3, <2>4, FreshAppend
  <2> QED
    BY <1>2, <2>2, <2>5 DEF OnceInv, OncePerUpdate, Looping
<1>5. CASE UpdateBegins
  <2>1. DOMAIN << >> = {} /\ Range(<< >>) = {}
    BY DEF Range
  <2>2. IsInjective(<< >>)
    BY <2>1 DEF IsInjective
  <2>3. Fresh(queue, NoPacket, << >>)
    BY <2>1 DEF Fresh, UnseenIn
  <2> QED
    BY <1>5, <2>2, <2>3 DEF UpdateBegins, OnceInv, OncePerUpdate
<1>6. CASE TakePacket
  <2>1. /\ queue # << >> /\ Head(queue) # first /\ Looping
        /\ queue' = Tail(queue) /\ seen' = Append(seen, Head(queue)) /\ first' = first
    BY <1>6 DEF TakePacket, MayTake, Looping
  <2>2. Head(queue) \in N
    BY <1>1, <2>1
  <2>3. IsInjective(queue)
    BY <1>1, LineIsInjective DEF LineInv
  <2> HIDE DEF N
  <2>4. Head(queue) \notin Range(seen) /\ Fresh(Tail(queue), first, Append(seen, Head(queue)))
    BY <1>1, <1>2, <2>1, <2>2, <2>3, FreshTail
  <2>5. IsInjective(Append(seen, Head(queue)))
    BY <1>1, <1>2, <2>2, <2>4, InjectiveAppend
  <2> QED
    BY <2>1, <2>4, <2>5 DEF OnceInv, OncePerUpdate
<1>7. CASE DelayPacket
  <2>1. /\ serverPc = "process" /\ queue' = Append(queue, packet)
        /\ first' = (IF first = NoPacket THEN packet ELSE first) /\ seen' = seen
    BY <1>7 DEF DelayPacket
  <2>2. packet \in N /\ packet # NoPacket /\ Fresh(queue, first, seen)
    BY <1>1, <1>2, <2>1 DEF Looping
  <2>3. CASE first # NoPacket
    <3>1. Fresh(Append(queue, packet), first, seen)
      BY <1>1, <2>2, <2>3, FreshAppend
    <3> QED
      BY <1>2, <2>1, <2>3, <3>1 DEF OnceInv, OncePerUpdate
  <2>4. CASE first = NoPacket
    <3> DEFINE m == Len(queue)
    <3>1. /\ m \in Nat /\ Len(Append(queue, packet)) = m + 1
          /\ Append(queue, packet)[m + 1] = packet
          /\ \A i \in 1..m : Append(queue, packet)[i] = queue[i]
      BY <1>1, <2>2
    <3>2. UnseenIn(queue, m, seen)
      BY <2>2, <2>4 DEF Fresh
    <3> HIDE DEF m
    <3>3. m + 1 \in 1..(m + 1) /\ m + 1 - 1 = m
      BY <3>1
    <3>4. UnseenIn(Append(queue, packet), m + 1 - 1, seen)
      BY <3>1, <3>2, <3>3 DEF UnseenIn
    <3>5. Fresh(Append(queue, packet), packet, seen)
      BY <2>2, <3>1, <3>3, <3>4 DEF Fresh
    <3> QED
      BY <1>2, <2>1, <2>4, <3>5 DEF OnceInv, OncePerUpdate
  <2> QED
    BY <2>3, <2>4
<1>8. CASE PacketIsDone
  <2>1. Looping /\ UNCHANGED <<queue, first, seen>>
    BY <1>8 DEF PacketIsDone, Looping
  <2> QED
    BY <1>2, <2>1 DEF OnceInv, OncePerUpdate
<1>9. CASE SessionIsDeleted
  BY <1>2, <1>9 DEF SessionIsDeleted, OnceInv, OncePerUpdate, Looping
<1>10. StateTypes
  BY DEF TypeInv
<1> QED
  BY <1>3, <1>4, <1>5, <1>6, <1>7, <1>8, <1>9, <1>10, PacketCases

\* An Update looks at each packet at most once, however many it puts back and
\* however many arrive while it runs: it comes to an end.
THEOREM PacketsAreSeenOnce == Spec => []OncePerUpdate
<1>1. Init => OnceInv
  <2>1. DOMAIN << >> = {}
    OBVIOUS
  <2> QED
    BY <2>1 DEF Init, OnceInv, OncePerUpdate, IsInjective, Looping
<1>2. Init => TypeInv /\ LineInv
  BY InitTypes, LineInit
<1>3. (TypeInv /\ LineInv /\ OnceInv) /\ [Next]_vars => (TypeInv /\ LineInv /\ OnceInv)'
  BY TypeStep, LineStep, OnceStep
<1>4. OnceInv => OncePerUpdate
  BY DEF OnceInv
<1> QED
  BY <1>1, <1>2, <1>3, <1>4, PTL DEF Spec

=============================================================================
