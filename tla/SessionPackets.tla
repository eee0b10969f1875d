--------------------------- MODULE SessionPackets ---------------------------
(***************************************************************************)
(* The way of a client's packets: the network thread puts them into the    *)
(* queue of the session its socket points to, WorldSession::Update takes   *)
(* them out, in the world thread or in the map's thread as each handler    *)
(* allows, and the session is deleted by the world thread while the        *)
(* network thread may still hold the socket.                               *)
(*                                                                         *)
(* The updates of a session never overlap (ExclusiveUpdate of              *)
(* MapUpdaterProofs), so the threads that update it are one process here,  *)
(* and the network thread is the other. A packet is a number, in the order *)
(* of arrival.                                                             *)
(*                                                                         *)
(* The network thread takes m_SessionLock to queue a packet, and leaves it *)
(* out when it reports an error: a step for the read of m_Session and one  *)
(* for the use of what was read.                                           *)
(***************************************************************************)
EXTENDS Naturals, SequencesExt

CONSTANTS
    Kinds,          \* the kinds of packets a client sends
    MaxPackets,     \* bound: packets received
    UpdateLimit     \* MAX_PROCESSED_PACKETS_IN_SAME_WORLDSESSION_UPDATE

\* opcodeTable: when a packet may be handled and in which thread. One kind for
\* each combination, and for each handler that changes the session itself.
Status == [enum    |-> "authed",   login   |-> "authed", ack   |-> "transfer",
           logout  |-> "loggedin", unsafe  |-> "loggedin",
           safe    |-> "loggedin", inplace |-> "loggedin", trade |-> "recently"]
Processing == [enum    |-> "unsafe", login   |-> "unsafe", ack   |-> "unsafe",
               logout  |-> "unsafe", unsafe  |-> "unsafe",
               safe    |-> "safe",   inplace |-> "inplace", trade |-> "unsafe"]

ASSUME PacketsAssumption ==
    /\ Kinds \subseteq DOMAIN Status
    /\ MaxPackets \in Nat
    /\ UpdateLimit \in Nat

Packet == 1..MaxPackets
NoPacket == 0

VARIABLES
    closing,        \* closing_ of the socket
    attached,       \* m_Session of the socket still points to the session
    netPc,          \* what the network thread does with the socket
    alive,          \* the session object exists
    stage,          \* new in addSessQueue, waiting (m_inQueue), or admitted
    received,       \* the kinds of the packets received
    queue,          \* _recvQueue
    done,           \* history: packets handled or dropped, in that order
    delayed,        \* history: packets re-enqueued at least once
    player,         \* _player and m_playerLoading
    recent,         \* m_playerRecentlyLogout
    leaving,        \* _logoutTime is set
    updater,        \* the filter of the current or last Update
    packet,         \* the packet in hand
    first,          \* firstDelayedPacket
    seen,           \* history: the packets taken in this Update, processedPackets long
    serverPc,       \* what the updating thread does with the session
    resume          \* where it goes on after CloseSocket

socketVars == <<closing, attached, netPc>>
packetVars == <<received, queue, done, delayed>>
playerVars == <<player, recent, leaving>>
loopVars == <<updater, packet, first, seen>>
serverVars == <<serverPc, resume>>
vars == <<socketVars, alive, stage, packetVars, playerVars, loopVars, serverVars>>

Kind(p) == received[p]
Loading == player \in {"loading", "denied"}

TypeOK ==
    /\ closing \in BOOLEAN
    /\ attached \in BOOLEAN
    /\ netPc \in {"poll", "incoming", "report", "lost", "detach", "gone"}
    /\ alive \in BOOLEAN
    /\ stage \in {"new", "waiting", "admitted"}
    /\ received \in Seq(Kinds) /\ Len(received) <= MaxPackets
    /\ queue \in Seq(1..Len(received))
    /\ done \in Seq(1..Len(received))
    /\ delayed \subseteq 1..Len(received)
    /\ player \in {"none", "loading", "denied", "world", "transfer"}
    /\ recent \in BOOLEAN
    /\ leaving \in BOOLEAN
    /\ updater \in {"world", "map"}
    /\ packet \in 0..Len(received)
    /\ first \in 0..Len(received)
    /\ seen \in Seq(1..Len(received)) /\ Len(seen) <= UpdateLimit + 1
    /\ serverPc \in {"idle", "take", "process", "callbacks", "end", "kick", "delete"}
    /\ resume \in {"take", "end", "idle", "delete"}

\* HandleAuthSession has created the session and handed it to the world.
Init ==
    /\ closing = FALSE
    /\ attached = TRUE
    /\ netPc = "poll"
    /\ alive = TRUE
    /\ stage = "new"
    /\ received = << >>
    /\ queue = << >>
    /\ done = << >>
    /\ delayed = {}
    /\ player = "none"
    /\ recent = FALSE
    /\ leaving = FALSE
    /\ updater = "map"
    /\ packet = NoPacket
    /\ first = NoPacket
    /\ seen = << >>
    /\ serverPc = "idle"
    /\ resume = "idle"

-----------------------------------------------------------------------------
(* The network thread.                                                     *)

\* ProcessIncoming up to its test of closing_.
Receive ==
    /\ netPc = "poll"
    /\ ~closing
    /\ Len(received) < MaxPackets
    /\ netPc' = "incoming"
    /\ UNCHANGED <<closing, attached, alive, stage, packetVars, playerVars, loopVars, serverVars>>

\* Mutant: the packet is put at the front of the queue.
QueuePacket_Front ==
    /\ netPc = "incoming"
    /\ attached
    /\ \E k \in Kinds : received' = Append(received, k)
    /\ queue' = <<Len(received) + 1>> \o queue
    /\ netPc' = "poll"
    /\ UNCHANGED <<closing, attached, alive, stage, done, delayed, playerVars, loopVars, serverVars>>

\* An opcode for the session, under m_SessionLock: QueuePacket ...
QueuePacket ==
    /\ netPc = "incoming"
    /\ attached
    /\ \E k \in Kinds : received' = Append(received, k)
    /\ queue' = Append(queue, Len(received) + 1)
    /\ netPc' = "poll"
    /\ UNCHANGED <<closing, attached, alive, stage, done, delayed, playerVars, loopVars, serverVars>>

\* ... which finds the session gone.
NotAuthed ==
    /\ netPc = "incoming"
    /\ ~attached
    /\ netPc' = "lost"
    /\ UNCHANGED <<closing, attached, alive, stage, packetVars, playerVars, loopVars, serverVars>>

\* A ping, also under the lock, or an opcode without a handler: nothing is queued.
IgnorePacket ==
    /\ netPc = "incoming"
    /\ attached
    /\ netPc' = "poll"
    /\ UNCHANGED <<closing, attached, alive, stage, packetVars, playerVars, loopVars, serverVars>>

\* A malformed header, a second CMSG_AUTH_SESSION or a packet that cannot be
\* read is reported with the session's account or player: without
\* m_SessionLock m_Session is tested ...
ReadSession ==
    /\ netPc \in {"poll", "incoming"}
    /\ netPc' = IF attached THEN "report" ELSE "lost"
    /\ UNCHANGED <<closing, attached, alive, stage, packetVars, playerVars, loopVars, serverVars>>

\* ... and then used, whatever has become of it meanwhile (what a server does
\* that has read freed memory is left out, but for going on).
ReportSession ==
    /\ netPc = "report"
    /\ netPc' = "lost"
    /\ UNCHANGED <<closing, attached, alive, stage, packetVars, playerVars, loopVars, serverVars>>

\* handle_close, and CloseSocket as ReactorRunnable::svc calls it: the peer has
\* gone, or the network thread sees that the socket was closed.
HandleClose ==
    /\ netPc \in {"poll", "lost"}
    /\ closing' = TRUE
    /\ netPc' = "detach"
    /\ UNCHANGED <<attached, alive, stage, packetVars, playerVars, loopVars, serverVars>>

Detach ==
    /\ netPc = "detach"
    /\ attached' = FALSE
    /\ netPc' = "gone"
    /\ UNCHANGED <<closing, alive, stage, packetVars, playerVars, loopVars, serverVars>>

-----------------------------------------------------------------------------
(* CloseSocket, called by the thread that updates the session: closing_    *)
(* and m_Session change under two different locks. A socket that is        *)
(* closing already is left to whoever closes it.                           *)

CloseSocket(next) ==
    IF closing
    THEN serverPc' = next /\ UNCHANGED <<closing, resume>>
    ELSE closing' = TRUE /\ serverPc' = "kick" /\ resume' = next

\* Mutant: m_Session is left as it is.
ClearSession_Forgotten ==
    /\ serverPc = "kick"
    /\ serverPc' = resume
    /\ UNCHANGED <<socketVars, alive, stage, packetVars, playerVars, loopVars, resume>>

ClearSession ==
    /\ serverPc = "kick"
    /\ attached' = FALSE
    /\ serverPc' = resume
    /\ UNCHANGED <<closing, netPc, alive, stage, packetVars, playerVars, loopVars, resume>>

\* ~WorldSession: the player is logged out, the queue emptied.
DeleteSession ==
    /\ alive' = FALSE
    /\ queue' = << >>
    /\ player' = "none"
    /\ leaving' = FALSE
    /\ serverPc' = "idle"

Delete ==
    /\ serverPc = "delete"
    /\ DeleteSession
    /\ UNCHANGED <<socketVars, stage, received, done, delayed, recent, loopVars, resume>>

-----------------------------------------------------------------------------
(* The world adds the session, turns it away because an older one of the   *)
(* account is loading a player, replaces it, or lets it in.                *)

Idle == serverPc = "idle" /\ alive

AddSession ==
    /\ Idle
    /\ stage = "new"
    /\ stage' \in {"waiting", "admitted"}
    /\ UNCHANGED <<socketVars, alive, packetVars, playerVars, loopVars, serverVars>>

RemoveSession ==
    /\ Idle
    /\ stage = "new" \/ ~Loading
    /\ CloseSocket("delete")
    /\ UNCHANGED <<attached, netPc, alive, stage, packetVars, playerVars, loopVars>>

RemoveQueuedPlayer ==
    /\ Idle
    /\ stage = "waiting"
    /\ stage' = "admitted"
    /\ UNCHANGED <<socketVars, alive, packetVars, playerVars, loopVars, serverVars>>

-----------------------------------------------------------------------------
(* WorldSession::Update.                                                   *)

\* World::UpdateSessions, then Map::Update where the player is.
Turn(u) ==
    IF u = "map" THEN updater = "world" /\ player = "world"
                 ELSE updater = "map" \/ player # "world"

\* Mutant: firstDelayedPacket survives from one Update to the next.
BeginUpdate_StaleFirst(u) ==
    /\ Idle /\ stage # "new"
    /\ Turn(u)
    /\ updater' = u
    /\ seen' = << >>
    /\ \/ serverPc' = "take" /\ UNCHANGED <<closing, resume>>
       \/ stage = "admitted" /\ CloseSocket("take")
    /\ UNCHANGED <<attached, netPc, alive, stage, packetVars, playerVars, packet, first>>

\* A connection that has been idle for long is closed first.
BeginUpdate(u) ==
    /\ Idle /\ stage # "new"
    /\ Turn(u)
    /\ updater' = u
    /\ first' = NoPacket
    /\ seen' = << >>
    /\ \/ serverPc' = "take" /\ UNCHANGED <<closing, resume>>
       \/ stage = "admitted" /\ CloseSocket("take")
    /\ UNCHANGED <<attached, netPc, alive, stage, packetVars, playerVars, packet>>

\* MapSessionFilter and WorldSessionFilter.
Process(u, p) ==
    \/ Processing[Kind(p)] = "inplace"
    \/ Processing[Kind(p)] = "unsafe" /\ u = "world"
    \/ Processing[Kind(p)] = "safe" /\ (u = "map" <=> player = "world")

\* Mutant: one packet too many.
MayTake_OneMore ==
    /\ ~closing
    /\ queue # << >>
    /\ Head(queue) # first
    /\ Len(seen) <= UpdateLimit + 1
    /\ Process(updater, Head(queue))

MayTake ==
    /\ ~closing
    /\ queue # << >>
    /\ Head(queue) # first
    /\ Len(seen) <= UpdateLimit
    /\ Process(updater, Head(queue))

TakePacket ==
    /\ serverPc = "take"
    /\ MayTake
    /\ packet' = Head(queue)
    /\ queue' = Tail(queue)
    /\ seen' = Append(seen, Head(queue))
    /\ serverPc' = "process"
    /\ UNCHANGED <<socketVars, alive, stage, received, done, delayed, playerVars,
                   updater, first, resume>>

\* A packet for a logged-in player comes before the player does.
TooEarly ==
    Status[Kind(packet)] = "loggedin" /\ player \in {"none", "loading", "denied"} /\ ~recent

\* Mutant: the packets delayed are not remembered.
DelayPacket_FirstUnset ==
    /\ serverPc = "process"
    /\ TooEarly
    /\ queue' = Append(queue, packet)
    /\ delayed' = delayed \cup {packet}
    /\ serverPc' = "take"
    /\ UNCHANGED <<socketVars, alive, stage, received, done, playerVars,
                   updater, packet, first, seen, resume>>

\* Mutant: the packet is put back and taken for handled as well.
DelayPacket_AndDone ==
    /\ serverPc = "process"
    /\ TooEarly
    /\ queue' = Append(queue, packet)
    /\ done' = Append(done, packet)
    /\ first' = IF first = NoPacket THEN packet ELSE first
    /\ delayed' = delayed \cup {packet}
    /\ serverPc' = "take"
    /\ UNCHANGED <<socketVars, alive, stage, received, playerVars,
                   updater, packet, seen, resume>>

\* It goes back to the end of the queue, behind what has arrived meanwhile.
DelayPacket ==
    /\ serverPc = "process"
    /\ TooEarly
    /\ queue' = Append(queue, packet)
    /\ first' = IF first = NoPacket THEN packet ELSE first
    /\ delayed' = delayed \cup {packet}
    /\ serverPc' = "take"
    /\ UNCHANGED <<socketVars, alive, stage, received, done, playerVars,
                   updater, packet, seen, resume>>

MayHandle ==
    LET status == Status[Kind(packet)] IN
    \/ status = "authed" /\ stage # "waiting"
    \/ status = "loggedin" /\ player = "world"
    \/ status = "transfer" /\ player = "transfer"
    \/ status = "recently" /\ (player \in {"world", "transfer"} \/ recent)

\* Logged as unexpected, or skipped without a word.
DropPacket ==
    /\ serverPc = "process"
    /\ ~TooEarly
    /\ ~MayHandle
    /\ done' = Append(done, packet)
    /\ serverPc' = "take"
    /\ UNCHANGED <<socketVars, alive, stage, received, queue, delayed, playerVars,
                   loopVars, resume>>

LogoutPlayer == player' = "none" /\ recent' = TRUE /\ leaving' = FALSE

\* What a handler does to the player of the session ...
Effect(k) ==
    \/ k = "enum" /\ recent' = FALSE /\ UNCHANGED <<player, leaving>>
    \/ k # "enum" /\ UNCHANGED playerVars
    \/ k = "login" /\ player = "none" /\ player' = "loading" /\ UNCHANGED <<recent, leaving>>
    \/ k = "ack" /\ player' = "world" /\ UNCHANGED <<recent, leaving>>
    \/ k = "logout" /\ leaving' \in BOOLEAN /\ UNCHANGED <<player, recent>>
    \/ k \in {"logout", "ack"} /\ LogoutPlayer
    \/ k \in {"unsafe", "safe"} /\ player' = "transfer" /\ UNCHANGED <<recent, leaving>>

HandlePacket ==
    /\ serverPc = "process"
    /\ MayHandle
    /\ Effect(Kind(packet))
    /\ done' = Append(done, packet)
    /\ serverPc' = "take"
    /\ UNCHANGED <<socketVars, alive, stage, received, queue, delayed, loopVars, resume>>

\* ... or the socket is closed: a player that must not log in is never loaded.
HandlePacketAndKick ==
    /\ serverPc = "process"
    /\ MayHandle
    /\ Kind(packet) \in {"login", "unsafe", "safe"}
    /\ IF Kind(packet) = "login" /\ player = "none" THEN player' \in {"loading", "denied"}
                                                   ELSE UNCHANGED player
    /\ done' = Append(done, packet)
    /\ CloseSocket("take")
    /\ UNCHANGED <<attached, netPc, alive, stage, received, queue, delayed, recent, leaving,
                   loopVars>>

LoopEnds ==
    /\ serverPc = "take"
    /\ ~MayTake
    /\ serverPc' = "callbacks"
    /\ UNCHANGED <<socketVars, alive, stage, packetVars, playerVars, loopVars, resume>>

\* ProcessQueryCallbacks: the player has been loaded, cannot be, or must wait.
ProcessQueryCallbacks ==
    /\ serverPc = "callbacks"
    /\ \/ /\ player = "loading"
          /\ player' \in {"world", "transfer"}
          /\ serverPc' = "end"
          /\ UNCHANGED <<closing, resume>>
       \/ /\ player = "loading"
          /\ player' = "none"
          /\ CloseSocket("end")
       \/ /\ serverPc' = "end"
          /\ UNCHANGED <<player, closing, resume>>
    /\ UNCHANGED <<attached, netPc, alive, stage, packetVars, recent, leaving, loopVars>>

\* The world logs the player out when it is time ...
ProcessLogout ==
    /\ serverPc = "end"
    /\ updater = "world"
    /\ leaving /\ ~Loading
    /\ LogoutPlayer
    /\ UNCHANGED <<socketVars, alive, stage, packetVars, loopVars, serverVars>>

\* ... and deletes the session when its socket is closed.
EndWorldUpdate ==
    /\ serverPc = "end"
    /\ updater = "world"
    /\ IF closing
       THEN DeleteSession /\ UNCHANGED recent
       ELSE serverPc' = "idle" /\ UNCHANGED <<alive, queue, playerVars>>
    /\ UNCHANGED <<socketVars, stage, received, done, delayed, loopVars, resume>>

EndMapUpdate ==
    /\ serverPc = "end"
    /\ updater = "map"
    /\ serverPc' = "idle"
    /\ UNCHANGED <<socketVars, alive, stage, packetVars, playerVars, loopVars, resume>>

\* A slow Update with many friend requests kicks; the world deletes the session.
FloodKick ==
    /\ serverPc = "end"
    /\ updater = "world" => ~closing
    /\ CloseSocket(IF updater = "world" THEN "delete" ELSE "idle")
    /\ UNCHANGED <<attached, netPc, alive, stage, packetVars, playerVars, loopVars>>

Gone == ~alive /\ netPc = "gone" /\ UNCHANGED vars

NetworkStep ==
    \/ Receive \/ QueuePacket \/ NotAuthed \/ IgnorePacket
    \/ ReadSession \/ ReportSession
    \/ HandleClose \/ Detach

UpdateStep ==
    \/ \E u \in {"world", "map"} : BeginUpdate(u)
    \/ TakePacket \/ DelayPacket \/ DropPacket \/ HandlePacket \/ HandlePacketAndKick
    \/ LoopEnds \/ ProcessQueryCallbacks \/ ProcessLogout
    \/ EndWorldUpdate \/ EndMapUpdate \/ FloodKick
    \/ ClearSession \/ Delete

Next ==
    \/ NetworkStep
    \/ AddSession \/ RemoveSession \/ RemoveQueuedPlayer
    \/ UpdateStep
    \/ Gone

\* The world loop runs and so do the maps; the network thread may do nothing.
Fairness == WF_vars(UpdateStep) /\ WF_vars(AddSession)

Spec == Init /\ [][Next]_vars /\ Fairness

-----------------------------------------------------------------------------
\* Nobody deletes a session that m_Session still points to, unless the network
\* thread is about to clear it: a use that reads m_Session under m_SessionLock
\* reaches no session that is gone. A report can, since it holds the pointer
\* without the lock ("Still there is race condition in WorldSession* being used
\* in the Sockets"): the server has closed the socket and cleared m_Session in
\* between, and the same report under the lock would have found it NULL.
SessionOutlivesUse ==
    /\ attached /\ ~alive => netPc = "detach"
    /\ netPc = "report" /\ ~alive => closing /\ ~attached

\* LogoutPlayer dereferences _player first thing, so a logout that is due must
\* have a player.
LeavingHasPlayer == leaving => player \in {"world", "transfer"}

\* Nothing is used that is gone, but for the reports without the lock: not the
\* session by its socket, not the player by a logout whose time comes many
\* Updates after it was asked for.
NothingGoneIsUsed == SessionOutlivesUse /\ LeavingHasPlayer

\* Each packet received is in the queue, in hand or done, once.
InHand == IF serverPc = "process" THEN <<packet>> ELSE << >>
PacketsAccounted ==
    alive => LET all == done \o InHand \o queue IN
             IsInjective(all) /\ Range(all) = 1..Len(received)

\* A packet is overtaken by a later one only after it has been put back.
OvertakenOnlyIfDelayed ==
    LET all == done \o InHand \o queue IN
    \A i, j \in 1..Len(all) : i < j /\ all[i] > all[j] => all[j] \in delayed

\* "To prevent an infinite loop caused by re-enqueueing the same packets over
\* and over again": an Update looks at each packet once, also at those that
\* arrive, or are put back, while it runs.
OncePerUpdate == IsInjective(seen)

\* Every packet is looked at by some Update unless the session is deleted:
\* neither filter leaves it to the other for ever.
Waits(p) == alive /\ Contains(queue, p) /\ p \notin delayed
EveryPacketIsTaken == \A p \in Packet : Waits(p) ~> ~Waits(p)
=============================================================================
