---------------------------- MODULE InstanceIds ----------------------------
(***************************************************************************)
(* The instance ids of MapManager: a vector<bool> of used ids and the next *)
(* id to hand out. Ids are registered at startup from the instance table,  *)
(* handed out to new dungeon and battleground maps, and freed when one     *)
(* instance is reset (world thread) or when a map thread destroys a        *)
(* battleground. Two other ways to end a dungeon do not free its id: the   *)
(* reset of all instances of a map and the reset players and groups ask    *)
(* for delete the save and leave the mark. Such an id comes back with a    *)
(* reset that was scheduled for the instance before, or with a restart.    *)
(*                                                                         *)
(* The world thread never runs while a map thread does (the barrier of     *)
(* MapUpdater), but map threads run side by side and FreeInstanceId takes  *)
(* no lock: its reads and writes are steps of their own, and clearing a    *)
(* bit of a vector<bool> reads and writes the whole word that holds it.    *)
(*                                                                         *)
(* operator[] of vector does not check its index: a write at or past       *)
(* size() changes no element, and resize() later fills the new elements    *)
(* with false.                                                             *)
(***************************************************************************)
EXTENDS Naturals, FiniteSetsExt

CONSTANTS
    Threads,    \* the map threads
    Chunk,      \* 32, the multiple that sizes are rounded up to
    Word,       \* bits in a word of vector<bool>, 64 on the built platforms
    MaxStored,  \* bound: the greatest id found in the instance table
    MaxId       \* bound: the greatest id handed out

ASSUME SizeAssumption ==
    /\ Chunk \in Nat \ {0}
    /\ Word \in Nat \ {0}
    /\ Word % Chunk = 0
    /\ MaxId \in Nat
    /\ MaxStored \in 0..MaxId

VARIABLES
    size,       \* _instanceIds.size()
    capacity,   \* _instanceIds.capacity()
    used,       \* the ids i < size with _instanceIds[i]
    next,       \* _nextInstanceId
    dungeons,   \* history: ids held by the saves of dungeon instances
    battles,    \* history: ids held by battleground maps
    orphans,    \* the instances of deleted saves, whose ids were not freed
    collided,   \* history: ids handed out while somebody held them
    freeing,    \* where each map thread is in FreeInstanceId
    raced       \* history: two map threads have been in it at once

vectorVars == <<size, capacity, used>>
idsVars == <<vectorVars, next, dungeons, battles, orphans, collided, freeing, raced>>

Idle == [step |-> "idle"]
Live == dungeons \cup battles
Kept == Live \cup orphans
Ids == 0..(MaxId + 1)

\* (n / 32) * 32 + (n % 32 > 0 ? 32 : 0)
RoundUp(n, k) == (n \div k) * k + (IF n % k > 0 THEN k ELSE 0)

\* The size InitInstanceIds and GenerateInstanceId ask for to hold an id.
SizeFor(id) == RoundUp(id, Chunk)

\* vector<bool>::resize: growing past the capacity at least doubles it, in
\* whole words.
Grown(n) == IF n <= capacity THEN capacity
            ELSE RoundUp(IF 2 * size > n THEN 2 * size ELSE n, Word)

IdsTypeOK ==
    /\ size \in Nat /\ capacity \in Nat /\ size <= capacity
    /\ used \subseteq 0..(size - 1)
    /\ next \in 1..(MaxId + 1)
    /\ dungeons \subseteq Ids /\ battles \subseteq Ids
    /\ orphans \subseteq Ids /\ collided \subseteq Ids
    /\ raced \in BOOLEAN
    /\ freeing \in [Threads ->
            {Idle}
            \cup [step : {"setNext", "read"}, id : Ids]
            \cup [step : {"write"}, id : Ids, word : SUBSET Ids]]

\* InitInstanceIds, then LoadResetTimes over the stored ids in ascending order:
\* NextInstanceId moves past the ids it meets, every id is registered.
LoadInstances(stored) ==
    /\ size = IF stored = {} THEN 0 ELSE SizeFor(Max(stored))
    /\ capacity = RoundUp(size, Word)
    /\ used = {i \in stored : i < size}
    /\ next = Min((1..(MaxStored + 1)) \ stored)
    /\ dungeons = stored

IdsInit ==
    /\ \E stored \in SUBSET (1..MaxStored) : LoadInstances(stored)
    /\ battles = {}
    /\ orphans = {}
    /\ collided = {}
    /\ freeing = [t \in Threads |-> Idle]
    /\ raced = FALSE

-----------------------------------------------------------------------------
WorldRuns == \A t \in Threads : freeing[t] = Idle

\* Mutant: the scan takes the following id without looking at its mark.
NextAvailable_Unchecked == next + 1

\* The scan from NextInstanceId + 1: the first id that is past the vector or
\* not marked.
NextAvailable == Min({i \in (next + 1)..(MaxId + 1) : i >= size \/ i \notin used})

\* GenerateInstanceId: hand out next, search the one after it, make room, mark.
GenerateInstanceId ==
    /\ WorldRuns
    /\ next <= MaxId
    /\ next' = NextAvailable
    /\ size' = IF next < size THEN size
               ELSE IF size < capacity THEN capacity ELSE SizeFor(next)
    /\ capacity' = Grown(size')
    /\ used' = used \cup ({next} \cap 0..(size' - 1))
    /\ \/ dungeons' = dungeons \cup {next} /\ UNCHANGED battles
       \/ battles' = battles \cup {next} /\ UNCHANGED dungeons
    /\ orphans' = orphans \ {next}
    /\ collided' = collided \cup ({next} \cap Live)
    /\ UNCHANGED <<freeing, raced>>

\* Mutant: the freed id never becomes the next one.
ResetInstance_KeepNext(id) ==
    /\ WorldRuns
    /\ id \in dungeons \cup orphans
    /\ dungeons' = dungeons \ {id}
    /\ orphans' = orphans \ {id}
    /\ used' = used \ {id}
    /\ UNCHANGED <<size, capacity, next, battles, collided, freeing, raced>>

\* _ResetInstance on the world thread frees the id of a dungeon, also of one
\* whose save has been deleted meanwhile.
ResetInstance(id) ==
    /\ WorldRuns
    /\ id \in dungeons \cup orphans
    /\ dungeons' = dungeons \ {id}
    /\ orphans' = orphans \ {id}
    /\ next' = IF id < next THEN id ELSE next
    /\ used' = used \ {id}
    /\ UNCHANGED <<size, capacity, battles, collided, freeing, raced>>

\* The saves of all instances of a map (_ResetOrWarnAll) or of one (ResetInstances
\* of a player or a group) are deleted; their ids stay marked.
DeleteSaves(gone) ==
    /\ WorldRuns
    /\ gone # {}
    /\ dungeons' = dungeons \ gone
    /\ orphans' = orphans \cup gone
    /\ UNCHANGED <<vectorVars, next, battles, collided, freeing, raced>>

\* A map thread destroys a battleground: FreeInstanceId compares the id ...
DestroyBattleground(t, id) ==
    /\ freeing[t] = Idle
    /\ id \in battles
    /\ battles' = battles \ {id}
    /\ freeing' = [freeing EXCEPT ![t] =
                      [step |-> IF id < next THEN "setNext" ELSE "read", id |-> id]]
    /\ raced' = (raced \/ ~WorldRuns)
    /\ UNCHANGED <<vectorVars, next, dungeons, orphans, collided>>

\* Mutant: one too low.
SetNextInstanceId_OffByOne(t) ==
    /\ freeing[t].step = "setNext"
    /\ next' = freeing[t].id - 1
    /\ freeing' = [freeing EXCEPT ![t].step = "read"]
    /\ UNCHANGED <<vectorVars, dungeons, battles, orphans, collided, raced>>

\* ... makes it the next one ...
SetNextInstanceId(t) ==
    /\ freeing[t].step = "setNext"
    /\ next' = freeing[t].id
    /\ freeing' = [freeing EXCEPT ![t].step = "read"]
    /\ UNCHANGED <<vectorVars, dungeons, battles, orphans, collided, raced>>

WordOf(id) == {i \in Ids : i \div Word = id \div Word}

\* ... reads the word its bit is in ...
ReadWord(t) ==
    /\ freeing[t].step = "read"
    /\ freeing' = [freeing EXCEPT ![t] =
                      [step |-> "write", id |-> @.id, word |-> used \cap WordOf(@.id)]]
    /\ UNCHANGED <<vectorVars, next, dungeons, battles, orphans, collided, raced>>

\* ... and writes it back without the bit.
WriteWord(t) ==
    /\ freeing[t].step = "write"
    /\ used' = (used \ WordOf(freeing[t].id)) \cup (freeing[t].word \ {freeing[t].id})
    /\ freeing' = [freeing EXCEPT ![t] = Idle]
    /\ UNCHANGED <<size, capacity, next, dungeons, battles, orphans, collided, raced>>

IdsNext ==
    \/ GenerateInstanceId
    \/ \E id \in Ids : ResetInstance(id)
    \/ \E gone \in SUBSET dungeons : DeleteSaves(gone)
    \/ \E t \in Threads :
          \/ \E id \in Ids : DestroyBattleground(t, id)
          \/ SetNextInstanceId(t)
          \/ ReadWord(t)
          \/ WriteWord(t)

IdsSpec == IdsInit /\ [][IdsNext]_idsVars

-----------------------------------------------------------------------------
\* The only ids that GenerateInstanceId hands out while a dungeon or a
\* battleground still holds them are multiples of 32: for any other id the mark
\* made by GenerateInstanceId or RegisterInstanceId survives every resize, and
\* map threads that free ids side by side lose the clearing of a mark at most.
CollidesOnlyAtChunk == \A id \in collided : id % Chunk = 0

\* Between two map ticks _nextInstanceId is at or below every id nobody holds,
\* and the scan will stop at each of them, so every id that was freed is handed
\* out again ("which should be the lowest according to the logic in
\* FreeInstanceId()"). Two exceptions: the ids of deleted saves were not freed,
\* and two threads that free ids at once can lose some, by the clearing of a
\* shared word or by the lower of two next ids.
NextIsLowest ==
    WorldRuns /\ ~raced =>
        \A id \in 1..MaxId : id \notin Kept => id = next \/ (next < id /\ id \notin used)
=============================================================================
