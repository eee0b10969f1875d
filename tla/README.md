# Verification of the WS548 server core

TLA+ models, TLC checks and TLAPS proofs for the concurrent core of the world
server (a TrinityCore descendant for the 5.4.8 client): the world tick and its
map threads, the sessions and the waiting queue, the packets of a client in both
directions, the database layer, instance ids; and for two pieces of its game
logic in which players deal with one another: the auction house with its mail,
and trade. Paths below are relative to
`src/src/server/`; the models keep the names of the source where TLA+ allows.

1. [Inventory](#1-inventory)
2. [Modules](#2-modules)
3. [Runs: what is checked, bounds, fairness](#3-runs)
4. [Proofs](#4-proofs)
5. [Findings and remarks](#5-findings-and-remarks)
6. [Not modelled, and the plan](#6-not-modelled-and-the-plan)

## 1. Inventory

The repository holds about 870 000 lines of server code. Most of it is game
content and rules (scripts, spells, entities): large sequential data processing
on which a model checker has no grip. What makes the server correct or not, and
what tests hardly reach, is a comparatively small core in which threads meet:

| thread | does | started by |
|---|---|---|
| main | starts and joins the others, closes the databases | `Master::Run` |
| world thread (one) | sessions, scheduling of maps, everything game-wide | `WorldRunnable::run` |
| map threads (16 shipped) | `Map::Update` of one map at a time | `MapUpdater::activate` |
| network threads | sockets, authentication, putting packets into sessions | `WorldSocketMgr` |
| database workers (per pool) | delayed SQL operations | `DatabaseWorkerPool::Open` |
| console, RA, SOAP | queue commands for the world thread and wait | `Master::Run` |
| log worker | writes log messages | `Log` |

They interact through locked queues (`LockedQueue` for packets, new sessions
and commands; `ACE_Activation_Queue` for map updates, SQL and log messages), one
barrier (`MapUpdater::wait`), mutexes on SQL connections, two locks of a socket,
and otherwise by convention: *while map threads run, the world thread waits.*

| component | state | operations | hard about it | correct when |
|---|---|---|---|---|
| **Activation queue** (`ACE_Activation_Queue`, used by `DelayExecutor`, `DatabaseWorker`, `LogWorker`) | requests, state, sleeping readers | enqueue, dequeue, deactivate, close | wake-ups, full queue, shutdown | no request lost while open, no reader asleep for nothing |
| **World tick and map updater** (`Maps/MapManager.cpp`, `MapUpdater.cpp`, `MapInstanced.cpp`, `Threading/DelayExecutor.cpp`) | `pending_requests`, `m_InstancedMaps` | schedule, update, finish, wait, create and destroy instances, shutdown | map threads schedule further maps and delete instances while the world thread decides whether to sleep | the tick is a barrier, complete, and ends |
| **Instance ids** (`MapManager.cpp:488-552`) | `_instanceIds`, `_nextInstanceId` | register, generate, free; delete a save without freeing | sizes in chunks; map threads free ids without a lock | no id held twice, no freed id lost |
| **Transactions** (`Database/MySQLConnection.cpp`, `Transaction.cpp`) | the server session, the retry loop | begin, statement, commit, rollback, reconnect | refused statements, deadlock victims, lost sessions, lost answers | all or nothing, connection left clean |
| **Database pool** (`Database/DatabaseWorkerPool.h`, `DatabaseWorker.cpp`) | queue, connection mutexes | delayed and direct operations, keep-alive, close | exclusive connections, order, blocking, closing while work waits | exclusive use, nothing lost or doubled, close ends |
| **Sessions and waiting queue** (`World/World.cpp`) | `m_sessions`, `addSessQueue`, `m_QueuedPlayer`, `m_disconnects` | add, replace, queue, admit, update, delete, kick | replacing a waiting or loading session; counting around the limit | limit kept, order kept, positions told, closed sessions go |
| **Packet pipeline** (`Server/WorldSocket.cpp`, `WorldSession.cpp`) | `_recvQueue`, `closing_`, `m_Session`, `_player`, `_logoutTime` | receive, take by filter, handle, delay, close, delete | two threads and two locks; packets before their player; two kinds of Update | no packet lost, doubled or stuck; no deleted session used |
| Command queue and shutdown countdown (`World.cpp`, `CliRunnable`, `RASocket`, `TCSoap`, `Master`) | `cliCmdQueue`, `m_ShutdownTimer`, `m_stopEvent` | queue, execute, wait; count down, cancel | a command after the last Update; exact seconds that may be skipped | every waiter is answered, players saved before the end |
| **Output path of a socket** (`WorldSocket.cpp`) | output buffer, overflow queue, `m_OutActive`, cipher | send, flush, wake up, close | partial writes, full queue, many senders | the client reads what was sent, in order, and all of it |
| **Auction house and mail** (`AuctionHouse/AuctionHouseMgr.cpp`, `Handlers/AuctionHouseHandler.cpp`, `MailHandler.cpp`, `Mails/Mail.cpp`) | auctions, bids, letters; each in memory, in the queue and in the tables | sell, bid, buy out, cancel, expire; send, list, take, return | long sequences by several players who come and go; a process that ends between two transactions | gold and items conserved, exchanges fair, memory what will be saved |
| **Saving of players** (`Player.cpp`, `CharacterHandler.cpp`) | a player in memory, in the queue, in the tables | log in, log out, save inventory and gold | queries that go past the queue, workers that do not take turns | as above |
| **Trade** (`Handlers/TradeHandler.cpp`, `Player.cpp:339-438`) | offers, acceptances, purses, inventories | initiate, offer, accept, withdraw, cancel, exchange | offers that change under an acceptance, items that leave meanwhile | trades of two, acceptances for what was seen, exchange whole |
| Black market, guild bank | bids, tabs, money | bid, deposit, withdraw | limits per day | money and items conserved |
| Groups, dungeon finder, battleground queue, instance saves | members, votes, invitations, bindings | join, leave, vote, time out | several players and a timer | nobody in two places, nobody forgotten |
| Authentication server, logging, grids, event processor, static data, game rules, scripts | | | | see section 6 |

`PROJECT.json` lists every component with its status and every hazard at its
line, with the properties that would catch it.

## 2. Modules

| module | models | composed from |
|---|---|---|
| `ActivationQueue` | the queue under all worker pools: each operation runs under the queue's lock and is one step; a reader that finds it empty sleeps until it is signalled | |
| `MapUpdater` | one world tick: `ScheduleBaseMap`, `TakeRequest`, `UpdateMap`, `VisitInstance`, `UnloadInstance`, `UpdateFinished`, `Wait`, `DelayedUpdate`; shutdown by `UnloadAll`, `DeactivateUpdater`, `JoinWorkers` | extends `ActivationQueue` |
| `InstanceIds` | `LoadInstances`, `GenerateInstanceId`, `ResetInstance`, `DeleteSaves` (of which no id is freed), and freeing by map threads in steps (`DestroyBattleground`, `SetNextInstanceId`, `ReadWord`, `WriteWord`) | |
| `AtomicTransactions` | abstract: transactions take effect whole and once, or never, until a session is lost or starts no transaction | |
| `MySQLTransaction` | `ExecuteTransaction` and the deadlock loop statement by statement, over a server that answers, refuses a statement, `START TRANSACTION` or `COMMIT`, or is gone | instantiates `AtomicTransactions` as its refinement |
| `DatabasePool` | callers (delayed and direct operations), workers, `KeepAlive`, `Close` | extends `ActivationQueue` |
| `WorldSessions` | `World::UpdateSessions` with `AddSession_`, `RemoveQueuedPlayer`, `WorldSession::Update` reduced to what the world sees; network threads between its steps | |
| `SessionPackets` | one session and its socket: `ProcessIncoming`, `WorldSession::Update` with both filters, `CloseSocket` and `handle_close` in two critical sections, reports that test and use `m_Session` without a lock in two steps (`ReadSession`, `ReportSession`), deletion | uses that updates of a session do not overlap, which `MapProofs` shows |
| `PacketStream` | abstract: what is sent is read, whole and in order, until the stream overflows or closes | |
| `SocketOutput` | `SendPacket` from any thread, `handle_output` and `handle_output_queue` over a kernel that takes part of what it is given, the wake-ups of the reactor, `Update`, `CloseSocket` | instantiates `PacketStream` as its refinement |
| `CharacterDatabase` | the tables, the queue of operations before them, workers of which any may be the first to finish, queries that go past the queue | rests on `DelayedKeepsOrder` of `DatabasePoolProofs` (operations are taken in order) and `TransactionsAreAtomic` of `MySQLTransactionProofs` |
| `AuctionHouse` | the handlers of auctions and of mail, `Update` of the auctions, login and logout, the end of the process and loading | extends `CharacterDatabase` |
| `Trade` | the handlers of `TradeHandler.cpp`, and inventories that change for other reasons | |
| `MapProofs` (of `MapUpdater` and of `InstanceIds`, whose specification is `IdsSpec`), `MySQLTransactionProofs`, `DatabasePoolProofs`, `WorldSessionsProofs`, `SessionPacketsProofs`, `SocketOutputProofs`, `AuctionHouseProofs`, `TradeProofs` | theorems | extend their components |
| `MCMapUpdater`, `MCInstanceIds`, `MCMySQLTransaction`, `MCDatabasePool`, `MCWorldSessions`, `MCSessionPackets`, `MCSocketOutput`, `MCAuctionHouse`, `MCTrade` | the small instances TLC checks | extend their component |

Correspondence with the code:

- A critical section is one step; the points where a thread can be overtaken
  (a wait, the gap between two critical sections, an unlocked read and the write
  that depends on it) separate steps. `FreeInstanceId` is four steps because
  clearing a bit of a `vector<bool>` reads and writes a word without a lock;
  `CloseSocket` is two because `closing_` and `m_Session` have a lock each;
  `GetFreeConnection` takes a step per connection it probes.
- The handlers of packets are modelled by what they do to the session
  (`Effect`): start a login, transfer the player, log it out, request or cancel
  a logout, clear `m_playerRecentlyLogout`, kick. There is one kind of packet
  for each combination of `SessionStatus` and `PacketProcessing` in use and for
  each handler of the first sort.
- In `SocketOutput` each critical section of `m_OutBufferLock` is a step, and
  what the kernel takes of a write is chosen in it.
- In `AuctionHouse` and `Trade` a handler is one step: all of them run in the
  world thread. A transaction is the contents it will leave in the tables, so
  `Planned`, the last of the queue, is what the database will hold. An exchange
  in `Trade` is one step because everything it does is in memory and saved by
  one transaction.
- In `CharacterDatabase` operations leave the queue in order, but any of the
  first `WorkerThreads` may be the next to take effect, as when workers execute
  side by side (`DatabaseWorker::svc`). `queue` is kept in the order of effect:
  a worker that is faster than the one before it exchanges two operations
  (`Faster`). If they have no row in common (`Conflict`), the tables between
  them are computed row by row (`Between`) and the model goes on. If they have,
  `overtaken` is set and the behaviour ends: what the tables then hold depends
  on statements of both, and no property claims anything of it (section 5).
- In `MySQLTransaction` the server is external: it can execute, refuse with a
  deadlock, refuse otherwise, or be gone before or after it has executed. A
  refused `ROLLBACK` is left out.
- Variables marked "history" are not in the program. They record what
  properties refer to and no guard of a code action reads them, apart from the
  counters that implement the bounds named in section 3 and the holders of ids
  in `InstanceIds`, which stand for saves and maps: only what exists is reset.
- Definitions whose comment begins with "Mutant" are variants of the
  definition below them with a plausible bug. No specification uses them; each
  documents a change of the code that the property named in `PROJECT.json`
  detects.

Assumptions the models make: the ACE queue, `std::vector` and the MySQL client
library behave as documented; all map requests have one priority; a request
weighs one (the water mark of the code is in bytes: 16 KiB are 1024 requests of
the size ACE gives them); `Rate.Online`, which scales session counts, is 1.

`AuctionHouse` further assumes that characters are not deleted and that
`GM.LogTrade` is on, as the shipped `worldserver.conf.dist` has it. (The default
in `World.cpp:931` is off, and then `SendAuctionWonMail` looks up no account for
a winner who is offline and his item is deleted instead of mailed.) The two
transactions with which a sale of several stacks removes them are taken as one;
the answer to the login query and `HandlePlayerLogin` are one step, and the queries
of a login read the tables at one moment. Transactions do not fail here, and a
deadlock between two workers is left out (`MySQLTransaction` has it). Time is left
out: any auction may run out and any letter arrive at any moment. Left out are
deleting a letter by its receiver, the expiry of old letters
(`ReturnOrDeleteOldMails`), letters with nothing in them, the return of letters
sent by the house, stacks (an item is a unit) and the limits on gold, which sums
in the instance do not reach. `Trade` leaves out the seventh slot and its spell;
there the limit on gold is reached.

## 3. Runs

Deadlock is checked everywhere; a program that has ended has a stuttering step
of its own (`Stopped`, `AllDone`, `Closed`, `Gone`).

| run | instance | shows |
|---|---|---|
| `map_updater` | 2 map threads, a continent, a dungeon with 2 instances, a queue of 2 | `Barrier`, `NoDeletedMapInUse`, `OneUpdatePerMap`, `TickIsComplete`, and the liveness property `WorldThreadReturns` (the tick ends, and so does shutdown) |
| `instance_ids` | 2 map threads, chunk 2, word 4, any stored ids up to 4, ids up to 5 | saves deleted without freeing their ids: `CollidesOnlyAtChunk` under the race of both threads, `NextIsLowest` until there is one, of all ids but those |
| `transactions` | transactions of 3, 2 and 0 statements, 2 losses or refusals of `START TRANSACTION`, any `COMMIT` may be refused, 2 retries | `NothingLeftOpen`, `NoGaps`, the refinement `IsAtomic`, and `TransactionsEnd` |
| `transactions_deadlock` | the same, no loss | `DeadlockIsRetried` is **violated** (section 5) |
| `database_pool` | world thread and another caller, 2 workers, 2 connections, queue of 2, 2 operations of each kind | `ConnectionsAccounted`, `DelayedInOrder`, and the liveness property `NobodySleepsForEver` (delayed operations are executed, `Close` returns) |
| `database_pool_close` | the same | `SubmittedIsSaved` is **violated** (section 5) |
| `sessions` | 3 accounts, one with 2 logins, limit 1, 2 or none, changed at run time, no tolerance | `QueueIsExact` (who waits, and at which position he was told), `NobodyWaitsForNothing`, `LimitKept`, `NoOvertaking`, and the liveness property `ClosedSessionsGo` |
| `session_packets` | 3 packets of 7 kinds, 2 packets to an Update | `NothingGoneIsUsed`, `PacketsAccounted`, `OvertakenOnlyIfDelayed`, `OncePerUpdate`, `EveryPacketIsTaken` |
| `socket_output` | 5 packets of 1 to 3 units, buffer of 2, water mark 4, a kernel that holds 2 | the refinement `ImplementsStream`, safety and liveness |
| `auction_house` | a seller and two bidders, 1 item, 3 gold each, prices 1 and 2, deposit 1, postage 3, cut 50 %, queue of 3, 2 workers, one end of the process | `Conservation`, `MemoryIsSaved`, `FairExchange`, until operations on the same rows change places |
| `auctions_expired_while_down` | the same, auctions run out while the server is down | `UnitsKept` is **violated** (section 5) |
| `trade` | 3 players, 3 items, 2 slots, inventories of 2, sums 0 and 1, a limit of 2 gold | `Paired`, `AcceptedAsSeen`, `ExchangeIsWhole` |

Each passing run also checks the `TypeOK` of its module (`IdsTypeOK` in `InstanceIds`). `auction_house` and
`trade` use symmetry; they check safety only.

**Bounds, and why they are enough.**

- `HighWaterMark` 2 (1024 requests in the code): smaller than the number of
  maps, and of operations, of the instance, so that the queue does fill and
  requests are refused or callers blocked.
- Two map threads and two instances: one thread deletes or schedules an instance
  while the other updates one and the world thread is about to sleep. The proofs
  cover any number.
- `Chunk` 2 and `Word` 4 for 32 and 64: all that the code uses is that a word
  holds whole chunks. `MaxStored` 4 gives sizes below, at and above a multiple,
  `MaxId` 5 growths to a third chunk and a second word.
- `LoopBreaker` 2 for 5 and `MaxLosses` up to 2: a first, a middle and a last
  retry; a loss, and a loss while recovering from it. The sizes 3, 2, 0 have a
  first, middle and last statement and an empty transaction.
- `MaxLogins` 2 for one account: its session is replaced once while it is new,
  waiting, loading or in the world. With three accounts and room for one, two
  wait, so that one can overtake and positions move; the limit is raised,
  lowered and lifted. A tolerance above 0 only adds accounts that are never refused.
- `MaxOps` 2 and two callers: four delayed operations meet a queue of two.
- `MaxPackets` 3 and `UpdateLimit` 1 (250 in the code; the loop ends *after* the
  packet that exceeds the limit, so an Update takes two): one packet put back,
  one that arrives meanwhile, one left for the next Update.
  `MCSessionPackets` leaves out one kind whose effects others have together.
- `socket_output`: packets smaller than, as large as and larger than the buffer
  and what the kernel holds, so that a packet fits, is cut once, or twice; five
  of them fill kernel, buffer and queue and overflow it.
- `auction_house`: a buyout, a bid below it, outbidding and bidding again, with
  more gold among three players than one has; half of a bid of 1 is rounded. The
  queue of 3 takes the two transactions of a sale and one more, and is full in
  between. One end of the process reaches every state of the queue; what a
  second would meet is again any state of tables and queue. One auction at a
  time: two touch each other only in the gold of their bidders. Two workers:
  with more, operations further apart change places, one exchange at a time;
  the proofs cover any number.
- `trade`: two trade and the third asks either; inventories of two are filled by
  an exchange that does not fit unless what is given is counted; a limit of 2
  gold is passed by receiving 1.

**Fairness.** Only what the scheduling of the code justifies:

- map threads and database workers run (weak fairness of each): they are
  dedicated threads in an endless loop, and a statement ends;
- the world thread finishes a tick it has begun (weak fairness), and
  `UpdateSessions` begins and returns again and again: each network thread
  sleeps `SessionAddDelay` after a client, so `addSessQueue` runs empty;
- a session goes on being updated, by the world or by its map (`UpdateStep`);
- the network thread of a socket goes round (`NetworkThread`), and the reactor
  reports a socket that becomes writable again and again (`WritableEvent`,
  strong fairness: it is disabled whenever no wake-up is wanted or the kernel is
  full); the client of `socket_output` goes on reading what has arrived;
- no fairness for other clients and network threads, for callers that block in
  `enqueue` or spin in `GetFreeConnection`, for starting another tick, for
  shutdown, or for the timers of logouts.

## 4. Proofs

Theorems hold for every value of the constants that satisfies the named
assumptions (`HighWaterMarkAssumption`, `MapAssumption`, `SizeAssumption`,
`TransactionAssumption`, `PoolAssumption`, `SessionsAssumption`,
`PacketsAssumption`, `OutputAssumption`, `AuctionAssumption`,
`TradeAssumption`, `NoTradeAssumption`): finite sets of threads and accounts, disjoint kinds of
maps, an instance has one dungeon, positive capacities, sizes of packets and
numbers of logins, at least one attempt in the deadlock loop, a word of whole
chunks, no sum below 0, finitely many players and units.

Two theorems about auctions take more for granted, and say so in their
statement. `ProfitsFit`: for every price there is, bid and deposit less the cut
are neither negative nor more than 32 bits hold. They are not negative because
`cutPercent`, a percentage, is at most 100; that they fit is not ensured by the
code (section 5), and with `Word = 1` TLC finds `Conservation` violated.
`SalesPay`: the cut is less than bid and deposit, so that the owner gets
something for his units; with a cut of 100 and no deposit TLC finds `FairExchange` violated.
`MCAuctionHouse` assumes both of its instances (`SalesExample`), so TLC
evaluates them. `TypeCorrect`, `MemoryIsWhatIsSaved` and `NoUnitIsLost` need
neither. `OneWorkerTakesTurns` assumes `WorkerThreads = 1`, the default of
`Master.cpp:387` but not what `worldserver.conf.dist:109` ships; the other
theorems take any number.

| module | theorem | statement |
|---|---|---|
| `MapProofs` | `TypeCorrect`, `BarrierHolds`, `NoUseAfterDelete`, `ExclusiveUpdate`, `PendingExact`, `TickComplete` | the safety invariants of `map_updater`, for any number of threads, maps and instances |
| | `InstanceIdsTypeCorrect` | the marks lie inside the vector, the vector inside its memory |
| | `OnlyMultiplesCollide` | an id is handed out twice only if it is a multiple of the chunk, whatever any number of threads free side by side |
| | `FreedIdsComeBack` | until two threads have freed ids at once, every id nobody holds is the next or will be found, but for ids of saves deleted without freeing them |
| `MySQLTransactionProofs` | `TransactionTypeCorrect`, `ConnectionLeftClean` | types; no transaction stays open between two, however often the server goes away |
| | `TransactionsAreAtomic` | `Spec => Abstract!Spec`, the refinement: whole or not at all until the session is first lost or refuses `START TRANSACTION`, also when `COMMIT` is refused |
| | `NothingIsRetried` | no transaction is attempted twice, for any `LoopBreaker` |
| | `NoStatementIsSkipped` | the statements of a transaction that took effect are consecutive, wherever sessions are lost |
| `DatabasePoolProofs` | `PoolTypeCorrect`, `ConnectionsAreExclusive` | the connections, for any number of callers and connections |
| | `DelayedKeepsOrder`, `OneWorkerKeepsOrder` | the queue and the workers; with one worker, effects in order of submission |
| `WorldSessionsProofs` | `WorldSessionsTypeCorrect`, `QueueStaysExact` | who waits is in `m_sessions`, stands in the queue once and knows his position, for any accounts, logins and limits |
| | `RoomIsUsed`, `LimitIsKept`, `NobodyIsOvertaken` | the three action properties of `sessions`: the queue is not idle, not too generous, and fair |
| `SessionPacketsProofs` | `SessionPacketsTypeCorrect`; `SessionsOutliveTheirUse`, `LogoutsHavePlayers`, and both as `GoneIsNotUsed` | for any kinds and number of packets; a report without `m_SessionLock` may use a deleted session, but only one whose socket the server closed after the report tested `m_Session` |
| | `EveryPacketIsAccounted`, `OrderIsKept`, `PacketsAreSeenOnce` | none lost or doubled, none overtaken unless put back, none taken twice by one `Update`, for any `UpdateLimit` |
| `SocketOutputProofs` | `SocketOutputTypeCorrect` | neither buffer nor kernel holds more than it can |
| | `SocketImplementsStream` | the safety part of the refinement: `PacketStream`'s initial states, and every step its step or a stutter |
| `AuctionHouseProofs` | `TypeCorrect`, `MemoryIsWhatIsSaved` | until operations on the same rows change places, what handlers find in memory is what the database will hold, for any players, units and prices, any number of workers and any length of the queue |
| | `NoUnitIsLost`, `GoldIsConserved` | `Conservation`, until then: units without, gold with `ProfitsFit` |
| | `TradeIsFair` | `FairExchange`, until then, with `ProfitsFit` and `SalesPay` |
| | `OneWorkerTakesTurns` | with one worker operations never change places: the above holds always |
| `TradeProofs` | `TradeTypeCorrect`, `TradesArePaired`, `AcceptancesAreForWhatWasSeen` | for any players, items, slots and sums |
| | `ExchangesAreWhole` | an exchange moves what was offered and is still there, both ways |

*Map updater.* `Barrier` is not inductive: it follows from
`pending = Len(queue) + Cardinality(Busy)` (`PendingIsExact`) and "quiet implies
nothing pending" (`WorldInv`). That no deleted instance is used needs
`VisitInv` (what the loop of a `MapInstanced` has yet to visit is alive, its own
and not in flight) and `OrderInv` (a map is updated at most once in a tick, an
instance after its dungeon: only then can no second thread hold the instance
that is being unloaded). Completeness needs `CoverInv`: every map is still to be
scheduled, in flight, done or skipped. `IInv` is their conjunction; the lemmas
`EnqueueEffect`, `DequeueEffect`, `BusyCount`, `ScheduleEffect` say once what
scheduling and taking a request do to queue and count.

*Instance ids.* The scan for the next id is the minimum of a set; `MinFacts`
takes it from the well-foundedness of the order on `Nat`, `MaxFacts` and
`RoundUpFacts` do the same for the sizes. `CollidesOnlyAtChunk` is far from
inductive. `SizeInv`: sizes are whole chunks, and the only id held that the
vector has no place for is its size. `MarkInv`: an id that is no multiple of the
chunk has one holder, is marked while it is held, and is marked too in any word
that a map thread has read and is about to write. The last part is why the race
of two threads cannot take the mark of an id somebody holds: a mark is made only
by the world thread, while no map thread runs, so a word in hand can only hold
marks too many. `FreedIdsComeBack` needs `LowInv`, which speaks of the ids that
neither anybody holds nor a deleted save has left marked (`Kept`) and holds
until two threads have freed at once (`raced`): the single thread that frees has not yet cleared
the mark, or has already lowered the next id.

*Transactions.* `SessionInv`: no transaction is open outside the statements of
an attempt, nor without a handle. For the refinement, `StableInv` describes
tables and session as long as no session was lost and none refused to begin: done transactions are in the
tables once, the others not at all, the open transaction holds the statements
sent so far. `COMMIT` is then `Commit`, every other step stutters; a loss is
`SessionLost`, and so is a refused `START TRANSACTION`, whose statements commit
themselves; after either nothing is claimed (`AtomicInv`). A refused `COMMIT`
rolls back and stutters. `OneAttempt` adds
to the types that a transaction still waiting has no attempt, and any other
exactly one: because `ROLLBACK` resets the error, the branch that would repeat
it is never reached (`NothingIsRetried`, the run `transactions_deadlock` for all
constants). For `NoGaps`, `GapInv` says what a loss leaves: statements take
effect alone only outside a transaction, and then up to the one being sent or
the one before it, so that what is durable stays a run (`Consecutive`) as it
grows.

*Pool.* `LockInv` and `CallerInv` tie the mutexes to where each caller stands.
`WorkInv` consists of `Numbered` (operations are numbered as they are submitted,
so none is submitted twice) and `Placed`, which is `DelayedInOrder` for one
operation. `OneWorkerKeepsOrder` adds `HoldsNewest`: the single worker has the
newest operation taken; with two workers the statement is false.

*Sessions.* `SessionsInv` is inductive by itself: `LineOK` (nobody stands in the
queue twice, everybody in it is held back and has been told his place),
`SessionsApart` (sessions in `m_sessions`, under their account, are not those
still to be added), and `LineInv` (who is held back is in `m_sessions`, and
waits or was closed by `KickAll`). `RemovedFacts`, `ForgetFacts` and
`AddedFacts` say once what the three operations on the queue do. The action
properties count: `Cardinality(Active) + Len(order) = Cardinality(InWorld)`
(`ActiveCount`), and `RemoveArithmetic` and `AcceptArithmetic` compare with the
limit what `RemoveQueuedPlayer` counts, which is called twice when a waiting
session is replaced. Order is `FromTheFront`: those a removal admits stood
before all who still wait, also after two of them. `StepKinds` leaves the four
kinds of steps that touch the queue.

*Packets.* `CloseInv`: a closed socket points to its session only while the
network thread or the closing thread is between the two critical sections, and
only a thread that found or made the socket closed deletes the session. It
follows that the socket can point to a session that is gone only while the
network thread is itself about to clear the pointer and reads it no more. A
report, which tests `m_Session` without the lock and then uses it, can be
overtaken in between; by the same invariant that takes a thread of the server
that closed the socket and cleared the pointer. `LineInv` puts the
packets that are done, the one in hand and the queue in one line, in which a
packet stands behind a later one only if it has been delayed; from it follow
`PacketsAccounted` and `OvertakenOnlyIfDelayed`. `OnceInv` is what makes
`firstDelayedPacket` work: while `Update` takes packets, none of the queue, or
none before that packet, has been seen by it.

*Output.* As long as nothing overflowed, `StreamInv` lays out what was read, the
kernel, the buffer and the blocks of the queue in `sent`, one behind the other
without a gap (`Agrees`, `Follows`; the places where blocks begin are a function
`offs`, since a concatenation of blocks would be a fold). The lemmas say what
each movement of bytes does to that layout: a part of a block or of the buffer
taken by the kernel, a block done or put back, a packet copied or queued. What
the client reads then extends `received` along `sent`, which is `Receive` of
`PacketStream`; a block that is lost is `Overflow`.

*Auction house.* The proof is about stores: `At(j)` is what the tables hold
after the first `j` operations that wait. `At(0)` is what an end of the process
falls back to, `At(i)` what the query queued at `i` will read, and the last is
`Planned`. `Seen` defines them without recursion, by the last transaction up to
`j`, and `CommitSeen`, `DelaySeen`, `ExecuteSeen` say what the three operations
on the queue do to all of them. A worker that is faster than the one before it
puts another store between two: `Mixed`, row by row from these two and the one
they stand about. `MixedContents`, `MixedRight` and `MixedViews` show that it has
every property of a store as long as the two operations have no row in common
(`Apart`); `TurnsInv` is what one worker adds. `AuctionInv` is inductive: every store is sound
(`StoresSound`: of its type, no two auctions with the same item, the next
number unused); mailboxes show letters of `Planned` only (`BoxesRight`); from the
place of a login's query on, the gold and the inventory of that player no longer
change, and no letter to him goes (`LoadsRight`); for a player who has
not opened his mailbox, a letter to him in any store is still in `Planned`
(`UnreadRight`), so that reading the tables past the queue shows nothing that is
gone; and `MemoryIsSaved`. The last three are what a crash, a login and a mailbox
need, and none is inductive without the others. An offer never has its owner as
bidder and a letter never its sender as receiver (`Offers`, `Posted`), without
which a step could give back to the wrong player.

Sums are folds, and the prover has no induction over data. So sums are not
computed but characterised: `SumFunction` has the equation "the sum over a set is
that of one element and that over the rest"; `SolutionExists` and
`SolutionUnique` show by a least counterexample among subsets of a finite set
that the equation has one solution, whichever elements are taken
(`SumWith`, `SumChanged`, `SumAdded` follow). `Mass` and `Stake` weigh the
letters of a bag and the offers of the house with any function of them, so one
set of lemmas serves both units (weight 1 for those that contain `u`) and gold.
Each transaction then keeps both sums from the store it is planned on to the
store it makes (`Balanced`), one lemma for each of the handlers; by `Right` every
store holds each unit once and the gold there was, and so does whatever a crash
leaves (`BalanceInv`). It is needed of every store, not only of `Planned`,
because of that crash. `TradeIsFair` compares the same two stores by player
(`Fair`): weights that count what is his (`GoldTo`, `BidOf`), and for units that
`BalanceInv` puts each of them in one place, so what leaves an auction can only
have been its owner's.

*Trade.* `TradeInv` is the type of the trades with `Paired` and
`AcceptedAsSeen`. The pointers make it: a step changes the trades of one pair,
and by `Paired` nobody outside points into it, so the others keep what they had
(`OthersStay`). Inside the pair every step either ends both trades, makes two
new ones without acceptances, withdraws both acceptances with the offer it
changes, or records what is accepted. `ExchangesAreWhole` follows from that
invariant with `TypeOK`: the offers exchanged are those both saw, and what
`Fits` counts before the exchange is what it then moves.

Model-checked only:

- liveness, which is outside the prover's reach: `WorldThreadReturns`,
  `TransactionsEnd`, `NobodySleepsForEver`, `ClosedSessionsGo`,
  `EveryPacketIsTaken`, and of `ImplementsStream` the fairness of
  `PacketStream`.

All safety properties of the passing runs are proved. What is proved of
`AuctionHouse` is proved of `Spec`; under `ExpiringSpec` units are lost
(`UnitsKept`, section 5).

Preparing `NobodyIsOvertaken` showed that an earlier form of `NoOvertaking` was
false for limits the run did not have: a limit that is lifted, or raised by more
than one, makes room without moving the queue (section 5). The run now has a
limit that is lifted, and the property names the exception (`RoomForAll`).

## 5. Findings and remarks

The three runs expected to fail show where the code does something else than a
comment or a message next to it says. Each is a finding in `PROJECT.json`:

- `transactions_deadlock`: the `ROLLBACK` before the return resets the error the
  retry loop looks for, so deadlock victims are never retried.
- `database_pool_close`: closing the pool drops delayed saves.
- `auctions_expired_while_down`: an auction that ran out while the server was
  down is deleted at startup, and its item is sent to nobody.

Seen while modelling and kept by the models as the code has it, but stated as no
property because no document promises otherwise:

- *Ids.* The vector of ids is sized to a multiple of 32 that does not include
  the largest id if that is itself a multiple of 32 (`MapManager.cpp:498`); its
  mark is lost at the next resize and the id handed out again while held.
  `CollidesOnlyAtChunk` shows these are the only ids concerned. Two map threads
  that free ids at once can lose the clearing of a mark or the lower next id,
  and an id is then never used again. The saves that the scheduled reset of a map
  (`InstanceSaveMgr.cpp:558-604`) and `ResetInstances` of players and groups
  delete do not free their ids, which stay marked until a later reset of that
  instance frees them or the server starts again. (`MapInstanced.cpp:297-299`
  frees the ids of battlegrounds only.)
- *Transactions.* After a reconnect inside a transaction the remaining statements
  are committed one at a time (`MySQLConnection.cpp:497`); the answers to
  `START TRANSACTION` and to `COMMIT` are ignored: refused, the first leaves the
  statements to commit themselves, the second loses them unnoticed.
- *Sessions.* Premium accounts enter above the player limit; raising or
  lifting the limit by command admits nobody until a session leaves, so that a
  newcomer enters past those who wait; an account that disconnected
  once is let in for ever (`difftime` with its arguments swapped,
  `World.cpp:329`); a session handed over between `KickAll` and the last
  `UpdateSessions` is added and not kicked.
- *Packets.* A packet delayed makes the same Update leak the packets after it
  (`WorldSession.cpp:356`); delayed packets can change places among themselves
  (`OvertakenOnlyIfDelayed` says what does hold); handlers with `STATUS_AUTHED`
  also run while a player is in the world, against the comment at
  `Opcodes.h:1525`; the network thread
  tests and uses `m_Session`, and the player behind it, without `m_SessionLock`
  when it reports a malformed header (`WorldSocket.cpp:563-567`, `593-597`), a
  second `CMSG_AUTH_SESSION` (`850-852`) or a packet that cannot be read (`936`):
  a server that closes the socket and deletes the session in between leaves it
  with freed memory. `World.cpp:254` notes the race; `NothingGoneIsUsed` says
  that it is the only one, and what it takes.
- *Output.* A block that cannot be put back when the kernel would block is lost
  and the socket goes on (`WorldSocket.cpp:470`); a packet refused by the full
  queue has advanced the cipher. The stream of `PacketStream` is over with
  either (`Overflow`).
- *Workers of the character database.* `worldserver.conf.dist:109` ships four,
  and nothing keeps operations on the same rows apart. A login's queries
  (`CharacterHandler.cpp:886`) can be executed before the save of the logout
  that precedes them, and two saves of a player can change places; gold and
  items are then doubled or lost, which `SaveInventoryAndGoldToDB` is there to
  prevent (`Player.cpp:22222`). `Conservation`, `MemoryIsSaved` and
  `FairExchange` are claimed only of the time before; only with one worker is
  that always (`OneWorkerTakesTurns`). That it takes a conflict is what the runs
  and theorems show: workers that change the order of operations on different
  rows do no harm.
- *Auctions and mail.* `LoadAuctions` and `_LoadMail` read past the queue: an
  auction just deleted at startup can be loaded once more, and a letter still
  queued is seen at the next login only. The end of the process between the
  transactions of a split sale loses units (`UnitsKept` allows for it). Profits
  and the money of a letter are computed in 32 bits (`AuctionHouseMgr.cpp:177`,
  `Player.cpp:22514`), the largest sum of gold is 9999999999; `GoldIsConserved`
  holds as long as profits fit (`ProfitsFit`).
- *Trade.* An item that has left the inventory since it was offered is left out
  of the exchange while the acceptance stands (`Player.cpp:341`), so that who
  accepted it pays the whole price for what is left; gold above
  `MAX_MONEY_AMOUNT` is lost; an acceptance carries no version of the offer it
  is for, so one sent before a change arrives counts for the offer after it.
- *Logging.* The log worker writes through a pool already closed
  (`AppenderDB.cpp:47`).

## 6. Not modelled, and the plan

Not modelled, with the reason, in `PROJECT.json`: game rules and content
(combat, spells, entities, AI, achievements, quests, scripts, pools, events,
weather), geometry, static data, Warden, the single-threaded authentication
server, logging (its queue is `ActivationQueue`), grids, the calendar, channels
and tickets, vendored code. Inside the modelled parts: the contents of packets
and SQL results, the opcodes a network thread answers itself (but for their use of
`m_Session`), what a server does after it has read a deleted session, the tables
after conflicting operations have changed places, chained query callbacks, prepared statements.

The order of work is: what every other part relies on first (tick, database),
then sessions, then what runs on top of them.

1. done: `ActivationQueue`, `MapUpdater`, `InstanceIds`, `AtomicTransactions`,
   `MySQLTransaction`, `WorldSessions`, `DatabasePool`, `SessionPackets`;
   `PacketStream`, `SocketOutput`; `CharacterDatabase`, `AuctionHouse`; `Trade`;
   with their runs, and the proof modules of section 4.
2. `Shutdown`: command queue (console, RA, SOAP), the countdown of
   `_UpdateGameTime`, `ShutdownServ` and `ShutdownMsg` (`World.cpp:2960-3065`),
   `ProcessCliCommands`, `WorldRunnable::run` and `Master`'s joins. Abstract:
   every command queued is answered; every player in the world is saved before
   the process ends. Bounds: two commands, a countdown from 6, ticks of 1 to 3
   seconds.
3. Black market (a variant of `AuctionHouse` with one seller), then roll loot of a
   group, dungeon finder proposals, battleground invitations: several players
   against a timer.

The number of runs is kept small. Properties that ask one question are one
property (`WorldThreadReturns`, `NobodySleepsForEver`, `NothingGoneIsUsed`), and
what a run only confirms of a remark in section 5 has no run of its own.
