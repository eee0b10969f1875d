--------------------------- MODULE WorldSessions ---------------------------
(***************************************************************************)
(* The sessions of the world server: World::UpdateSessions adds those the  *)
(* network threads handed over, puts players above the limit into a        *)
(* waiting queue, updates every session once and deletes those whose       *)
(* socket is closed.                                                       *)
(*                                                                         *)
(* The world thread takes one step per session added or updated. Between   *)
(* its steps network threads authenticate clients and close sockets.       *)
(***************************************************************************)
EXTENDS Naturals, FiniteSets, SequencesExt

CONSTANTS
    Accounts,
    Gms,            \* accounts above SEC_PLAYER
    Premium,        \* accounts with an active row in account_premium
    Limits,         \* the values m_playerLimit is given, 0 for none
    Tolerance,      \* DisconnectToleranceInterval
    MaxLogins,      \* bound: how many sessions an account has at once
    NoSession

ASSUME SessionsAssumption ==
    /\ IsFiniteSet(Accounts)
    /\ Gms \subseteq Accounts
    /\ Premium \subseteq Accounts
    /\ Limits \subseteq Nat /\ Limits # {}
    /\ Tolerance \in Nat
    /\ MaxLogins \in [Accounts -> Nat \ {0}]
    /\ NoSession \notin Accounts \X Nat

Session == UNION {{a} \X (1..MaxLogins[a]) : a \in Accounts}
Account(s) == s[1]

VARIABLES
    alive,          \* session objects not yet deleted
    closed,         \* those of them whose socket is closed
    player,         \* whether a session has, or is loading, a player
    arrived,        \* addSessQueue
    sessions,       \* m_sessions
    line,           \* m_QueuedPlayer, m_inQueue and the positions sent
    limit,          \* m_playerLimit
    disconnects,    \* the accounts in m_disconnects
    phase,          \* where the world thread is
    todo,           \* accounts the loop of UpdateSessions has not visited
    stopping        \* the world loop has ended

sessionVars == <<alive, closed, player>>
threadVars == <<phase, todo, stopping>>
vars == <<sessionVars, arrived, sessions, line, limit, disconnects, threadVars>>

InWorld == {a \in Accounts : sessions[a] # NoSession}

TypeOK ==
    /\ alive \subseteq Session
    /\ closed \subseteq alive
    /\ player \in [Session -> {"none", "loading", "inWorld"}]
    /\ arrived \in Seq(alive)
    /\ sessions \in [Accounts -> alive \cup {NoSession}]
    /\ line.order \in Seq(alive)
    /\ line.flagged \subseteq Session
    /\ line.told \in [Session -> 0..Cardinality(Accounts)]
    /\ limit \in Limits
    /\ disconnects \subseteq Accounts
    /\ phase \in {"idle", "adding", "updating", "stopped"}
    /\ todo \subseteq InWorld
    /\ stopping \in BOOLEAN

Init ==
    /\ alive = {}
    /\ closed = {}
    /\ player = [s \in Session |-> "none"]
    /\ arrived = << >>
    /\ sessions = [a \in Accounts |-> NoSession]
    /\ line = [order |-> << >>, flagged |-> {}, told |-> [s \in Session |-> 0]]
    /\ limit \in Limits
    /\ disconnects = {}
    /\ phase = "idle"
    /\ todo = {}
    /\ stopping = FALSE

-----------------------------------------------------------------------------
(* The waiting queue.                                                      *)

Position(order, s) == CHOOSE i \in 1..Len(order) : order[i] = s

\* SendAuthWaitQue to the sessions from position p on.
Tell(told, order, p) ==
    [s \in Session |-> IF Contains(SubSeq(order, p, Len(order)), s)
                       THEN Position(order, s) ELSE told[s]]

\* Mutant: the leaving session is counted as one that stays.
RemoveQueuedPlayer_StillCounted(l, s, count) ==
    LET found == Contains(l.order, s)
        rest  == RemoveFirst(l.order, s)
        pops  == rest # << >> /\ (limit = 0 \/ count - Len(l.order) < limit)
        order == IF pops THEN Tail(rest) ELSE rest
        first == IF pops THEN 1 ELSE IF found THEN Position(l.order, s) ELSE Len(order) + 1
        out   == (IF found THEN {s} ELSE {}) \cup (IF pops THEN {Head(rest)} ELSE {})
    IN  [order   |-> order,
         flagged |-> l.flagged \ out,
         told    |-> [Tell(l.told, order, first) EXCEPT
                         ![IF pops THEN Head(rest) ELSE s] = 0]]

\* Mutant: nobody behind the one admitted hears of the new position.
RemoveQueuedPlayer_NotTold(l, s, count) ==
    LET found  == Contains(l.order, s)
        rest   == RemoveFirst(l.order, s)
        active == count - Len(l.order)
        others == IF found \/ active = 0 THEN active ELSE active - 1
        pops   == rest # << >> /\ (limit = 0 \/ others < limit)
        order  == IF pops THEN Tail(rest) ELSE rest
        first  == IF found THEN Position(l.order, s) ELSE Len(order) + 1
        out    == (IF found THEN {s} ELSE {}) \cup (IF pops THEN {Head(rest)} ELSE {})
    IN  [order   |-> order,
         flagged |-> l.flagged \ out,
         told    |-> [Tell(l.told, order, first) EXCEPT
                         ![IF pops THEN Head(rest) ELSE s] = 0]]

\* RemoveQueuedPlayer(s) while m_sessions has count entries: take s out if it is
\* queued, admit the first in the queue if there is room without s, and tell
\* those whose position changed.
RemoveQueuedPlayer(l, s, count) ==
    LET found  == Contains(l.order, s)
        rest   == RemoveFirst(l.order, s)
        active == count - Len(l.order)
        others == IF found \/ active = 0 THEN active ELSE active - 1
        pops   == rest # << >> /\ (limit = 0 \/ others < limit)
        order  == IF pops THEN Tail(rest) ELSE rest
        first  == IF pops THEN 1 ELSE IF found THEN Position(l.order, s) ELSE Len(order) + 1
        out    == (IF found THEN {s} ELSE {}) \cup (IF pops THEN {Head(rest)} ELSE {})
    IN  [order   |-> order,
         flagged |-> l.flagged \ out,
         told    |-> [Tell(l.told, order, first) EXCEPT
                         ![IF pops THEN Head(rest) ELSE s] = 0]]

AddQueuedPlayer(l, s) ==
    [order   |-> Append(l.order, s),
     flagged |-> l.flagged \cup {s},
     told    |-> [l.told EXCEPT ![s] = Len(l.order) + 1]]

\* The sessions of S are deleted, and with them their m_inQueue.
Forget(l, S) ==
    [l EXCEPT !.flagged = @ \ S, !.told = [s \in Session |-> IF s \in S THEN 0 ELSE @[s]]]

\* difftime(disconnected, now) is never positive, so it is always below the
\* tolerance: an entry counts, and stays, for ever.
HasRecentlyDisconnected(s) == Tolerance > 0 /\ Account(s) \in disconnects

Privileged(s) == Account(s) \in Gms \cup Premium \/ HasRecentlyDisconnected(s)

-----------------------------------------------------------------------------
(* Network threads.                                                        *)

\* HandleAuthSession creates the session and hands it to the world thread.
HandleAuthSession(a) ==
    /\ phase # "stopped"
    /\ \E n \in 1..MaxLogins[a] :
        /\ <<a, n>> \notin alive
        /\ \A m \in 1..(n - 1) : <<a, m>> \in alive
        /\ alive' = alive \cup {<<a, n>>}
        /\ arrived' = Append(arrived, <<a, n>>)
    /\ UNCHANGED <<closed, player, sessions, line, limit, disconnects, threadVars>>

\* The peer goes away, or the session is idle or kicked.
CloseSocket(s) ==
    /\ phase # "stopped"
    /\ s \in alive \ closed
    /\ closed' = closed \cup {s}
    /\ UNCHANGED <<alive, player, arrived, sessions, line, limit, disconnects, threadVars>>

-----------------------------------------------------------------------------
(* The world thread.                                                       *)

\* ~WorldSession logs the player out, saves it, and closes the socket.
Delete(S) ==
    /\ alive' = alive \ S
    /\ player' = [s \in Session |-> IF s \in S THEN "none" ELSE player[s]]

BeginUpdateSessions ==
    /\ phase = "idle"
    /\ phase' = "adding"
    /\ UNCHANGED <<sessionVars, arrived, sessions, line, limit, disconnects, todo, stopping>>

\* The account is loading a player: the new session is kicked and deleted.
RefuseSession(s) ==
    /\ Delete({s})
    /\ closed' = closed \ {s}
    /\ UNCHANGED <<sessions, line>>

\* Mutant: those that wait are not counted and one too many is let in.
AdmitOrQueue_Overtake(s, l, replacesQueued) ==
    LET others == Cardinality(InWorld \cup {Account(s)}) - Len(l.order) - 1
    IN  line' = IF /\ limit > 0 /\ others >= limit + 1 /\ ~Privileged(s)
                THEN AddQueuedPlayer(l, s) ELSE l

\* A player waits when the other sessions, queued ones included, fill the
\* server. A session that replaces a queued one counts itself as well.
AdmitOrQueue(s, l, replacesQueued) ==
    LET count  == Cardinality(InWorld \cup {Account(s)})
        others == IF replacesQueued THEN count ELSE count - 1
    IN  line' = IF limit > 0 /\ others >= limit /\ ~Privileged(s)
                THEN AddQueuedPlayer(l, s) ELSE l

\* Mutant: the session replaced stays in the waiting queue.
AcceptSession_KeepQueued(s, old) ==
    /\ sessions' = [sessions EXCEPT ![Account(s)] = s]
    /\ Delete({old})
    /\ closed' = closed \ {old}
    /\ AdmitOrQueue(s, line, FALSE)

\* The session takes the place of the one its account has, if any: that one is
\* kicked, taken out of the waiting queue and deleted.
AcceptSession(s, old) ==
    /\ sessions' = [sessions EXCEPT ![Account(s)] = s]
    /\ Delete({old})
    /\ closed' = closed \ {old}
    /\ IF old = NoSession THEN AdmitOrQueue(s, line, FALSE)
       ELSE AdmitOrQueue(s, Forget(RemoveQueuedPlayer(line, old, Cardinality(InWorld)), {old}),
                         Contains(line.order, old))

AddSession ==
    /\ phase = "adding"
    /\ arrived # << >>
    /\ arrived' = Tail(arrived)
    /\ LET s   == Head(arrived)
           old == sessions[Account(s)]
       IN  IF old # NoSession /\ player[old] = "loading"
           THEN RefuseSession(s)
           ELSE AcceptSession(s, old)
    /\ UNCHANGED <<limit, disconnects, threadVars>>

AllAdded ==
    /\ phase = "adding"
    /\ arrived = << >>
    /\ phase' = "updating"
    /\ todo' = InWorld
    /\ UNCHANGED <<sessionVars, arrived, sessions, line, limit, disconnects, stopping>>

\* Packets and query callbacks of a session whose socket is open: it may ask to
\* log a player in, and the query may be answered within the same call.
HandlePackets(a) ==
    LET s == sessions[a] IN
    /\ phase = "updating" /\ a \in todo
    /\ s \notin closed
    /\ todo' = todo \ {a}
    /\ \/ UNCHANGED player
       \/ /\ player[s] = "none" /\ s \notin line.flagged
          /\ player' \in {[player EXCEPT ![s] = p] : p \in {"loading", "inWorld"}}
       \/ /\ player[s] = "loading"
          /\ player' = [player EXCEPT ![s] = "inWorld"]
       \/ /\ player[s] = "inWorld"
          /\ player' = [player EXCEPT ![s] = "none"]
    /\ UNCHANGED <<alive, closed, arrived, sessions, line, limit, disconnects, phase, stopping>>

\* Mutant: RemoveQueuedPlayer is called after the session left m_sessions.
RemoveSession_EraseFirst(a) ==
    LET s     == sessions[a]
        count == Cardinality(InWorld) - 1
    IN
    /\ phase = "updating" /\ a \in todo
    /\ s \in closed
    /\ todo' = todo \ {a}
    /\ line' = Forget(RemoveQueuedPlayer(line, s, count), {s})
    /\ disconnects' = IF ~Contains(line.order, s) /\ Tolerance > 0
                      THEN disconnects \cup {a} ELSE disconnects
    /\ sessions' = [sessions EXCEPT ![a] = NoSession]
    /\ Delete({s})
    /\ closed' = closed \ {s}
    /\ UNCHANGED <<arrived, limit, phase, stopping>>

\* Mutant: a session that is loading its player is left for later.
RemoveSession_NotWhileLoading(a) ==
    LET s     == sessions[a]
        count == Cardinality(InWorld)
    IN
    /\ phase = "updating" /\ a \in todo
    /\ s \in closed
    /\ todo' = todo \ {a}
    /\ IF player[s] = "loading"
       THEN UNCHANGED <<line, sessions, alive, player, closed>>
       ELSE /\ line' = Forget(RemoveQueuedPlayer(line, s, count), {s})
            /\ sessions' = [sessions EXCEPT ![a] = NoSession]
            /\ Delete({s})
            /\ closed' = closed \ {s}
    /\ UNCHANGED <<arrived, limit, disconnects, phase, stopping>>

\* Update returned false because the socket is closed. RemoveQueuedPlayer is
\* called twice while the session is still in m_sessions.
RemoveSession(a) ==
    LET s     == sessions[a]
        count == Cardinality(InWorld)
    IN
    /\ phase = "updating" /\ a \in todo
    /\ s \in closed
    /\ todo' = todo \ {a}
    /\ line' = Forget(RemoveQueuedPlayer(RemoveQueuedPlayer(line, s, count), s, count), {s})
    /\ disconnects' = IF ~Contains(line.order, s) /\ Tolerance > 0
                      THEN disconnects \cup {a} ELSE disconnects
    /\ sessions' = [sessions EXCEPT ![a] = NoSession]
    /\ Delete({s})
    /\ closed' = closed \ {s}
    /\ UNCHANGED <<arrived, limit, phase, stopping>>

AllUpdated ==
    /\ phase = "updating"
    /\ todo = {}
    /\ phase' = IF stopping THEN "stopped" ELSE "idle"
    /\ UNCHANGED <<sessionVars, arrived, sessions, line, limit, disconnects, todo, stopping>>

\* .server plimit
SetPlayerAmountLimit(n) ==
    /\ phase = "idle"
    /\ n # limit
    /\ limit' = n
    /\ UNCHANGED <<sessionVars, arrived, sessions, line, disconnects, threadVars>>

KickAll ==
    /\ phase = "idle"
    /\ line' = [line EXCEPT !.order = << >>]
    /\ closed' = closed \cup {sessions[a] : a \in InWorld}
    /\ UNCHANGED <<alive, player, arrived, sessions, limit, disconnects, todo>>

\* The shutdown timer comes to five seconds.
KickBeforeShutdown == KickAll /\ UNCHANGED <<phase, stopping>>

\* The world loop has ended: KickAll and one more UpdateSessions.
StopWorld ==
    /\ KickAll
    /\ phase' = "adding"
    /\ stopping' = TRUE

Stopped == phase = "stopped" /\ UNCHANGED vars

WorldThread ==
    \/ BeginUpdateSessions
    \/ AddSession
    \/ AllAdded
    \/ \E a \in todo : HandlePackets(a) \/ RemoveSession(a)
    \/ AllUpdated

Next ==
    \/ WorldThread
    \/ \E a \in Accounts : HandleAuthSession(a)
    \/ \E s \in Session : CloseSocket(s)
    \/ \E n \in Limits : SetPlayerAmountLimit(n)
    \/ KickBeforeShutdown
    \/ StopWorld
    \/ Stopped

\* WorldRunnable::run calls UpdateSessions again and again, and each call
\* returns: a network thread sleeps SessionAddDelay after each client, so that
\* addSessQueue runs empty, and the loop over m_sessions is finite.
UpdatesBegin == []<>(phase # "idle")
UpdatesReturn == []<>(phase \in {"idle", "stopped"})
Fairness == UpdatesBegin /\ UpdatesReturn

Spec == Init /\ [][Next]_vars /\ Fairness

-----------------------------------------------------------------------------
Queued(s) == Contains(line.order, s)
Active == {a \in Accounts : sessions[a] # NoSession /\ ~Queued(sessions[a])}

\* Only sessions in m_sessions wait, each once; a session whose client is still
\* there is held back (m_inQueue) exactly while it waits, and was last told the
\* position it has now.
QueueIsExact ==
    /\ \A i \in 1..Len(line.order) :
        /\ sessions[Account(line.order[i])] = line.order[i]
        /\ line.told[line.order[i]] = i
        /\ \A j \in 1..(i - 1) : line.order[i] # line.order[j]
    /\ \A a \in InWorld :
        sessions[a] \notin closed => (Queued(sessions[a]) <=> sessions[a] \in line.flagged)

Room == limit = 0 \/ Cardinality(Active) < limit

\* Nobody is made to wait while there is room and nobody to wait behind, and
\* whenever a session leaves while there is room somebody who waits is let in:
\* also after the limit was raised (HandleServerPLimitCommand admits nobody).
NobodyWaitsForNothing ==
    [][/\ line.order = << >> /\ line'.order # << >> => ~Room'
       /\ (\E a \in InWorld : sessions'[a] = NoSession) /\ Room' /\ line'.order # << >>
             => Len(line'.order) < Len(line.order)]_vars

\* Connected players who have no privilege and do not wait.
Counted == {a \in Active : sessions[a] \notin closed /\ ~Privileged(sessions[a])}

\* No step brings more of them into the world than the limit has room for, after
\* the limit was lowered either.
LimitKept ==
    [][Cardinality(Counted') > Cardinality(Counted) /\ limit' > 0
         => Cardinality(Counted') <= limit']_vars

IsActive(s) == sessions[Account(s)] = s /\ ~Queued(s)
Ahead(s) == {w \in ToSet(line.order) : Queued(s) => Position(line.order, w) < Position(line.order, s)}

\* A player without privilege never enters past somebody who waited before and
\* still waits after, unless the limit has been raised, or lifted, so far that
\* there is room for all who wait as well (the command moves none of them).
RoomForAll == limit = 0 \/ Cardinality(InWorld) <= limit

NoOvertaking ==
    [][\A s \in Session :
        ~IsActive(s) /\ IsActive(s)' /\ ~Privileged(s) /\ ~RoomForAll'
            => Ahead(s) \cap ToSet(line'.order) = {}]_vars

\* A session whose client is gone before the world thread has begun the round of
\* updates is deleted in the end, and its player saved: in the last round, after
\* KickAll, too. Only a session handed over after that KickAll can be left over.
ClosedSessionsGo ==
    \A s \in Session : s \in closed /\ phase \in {"idle", "adding"} ~> s \notin alive
=============================================================================
