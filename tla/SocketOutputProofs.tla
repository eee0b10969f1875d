------------------------- MODULE SocketOutputProofs -------------------------
(***************************************************************************)
(* Theorems about the output path of a socket, for any sizes of packets,   *)
(* buffers and marks, and however the kernel splits what it is given.      *)
(***************************************************************************)
EXTENDS SocketOutput, TLAPS

\* The bytes of a packet are bytes, as many as its size says.
LEMMA PacketFacts ==
    ASSUME NEW n \in 1..MaxPackets, NEW size \in Sizes
    PROVE  /\ PacketBytes(n, size) \in Seq(Byte)
           /\ Len(PacketBytes(n, size)) = size /\ size \in Nat \ {0}
           /\ PacketBytes(n, size) # << >>
<1>1. size \in Nat \ {0}
  BY OutputAssumption
<1>2. \A i \in 1..size : <<n, i>> \in Byte
  BY DEF Byte
<1>3. PacketBytes(n, size) \in [1..size -> Byte]
  BY <1>2 DEF PacketBytes
<1> QED
  BY <1>1, <1>3

\* Cutting a sequence after n elements.
LEMMA CutFacts ==
    ASSUME NEW S, NEW s \in Seq(S), NEW n \in 0..Len(s)
    PROVE  LET front == SubSeq(s, 1, n)
               rest  == SubSeq(s, n + 1, Len(s))
           IN  /\ front \in Seq(S) /\ Len(front) = n /\ \A i \in 1..n : front[i] = s[i]
               /\ rest \in Seq(S) /\ Len(rest) = Len(s) - n
               /\ \A i \in 1..(Len(s) - n) : rest[i] = s[n + i]
<1>1. SubSeq(s, 1, n) \in Seq(S) /\ Len(SubSeq(s, 1, n)) = n /\ \A i \in 1..n : SubSeq(s, 1, n)[i] = s[i]
  OBVIOUS
<1> DEFINE rest == SubSeq(s, n + 1, Len(s))
<1>2. Len(s) \in Nat /\ n \in Nat /\ n <= Len(s)
  OBVIOUS
<1>3. rest \in Seq(S) /\ Len(rest) = Len(s) - n
  OBVIOUS
<1>4. ASSUME NEW i \in 1..(Len(s) - n) PROVE rest[i] = s[n + i]
  OBVIOUS
<1> QED
  BY <1>1, <1>3, <1>4
-----------------------------------------------------------------------------
Bytes == Seq(Byte)
Blocks(q) == q \in Seq(Bytes) /\ \A i \in 1..Len(q) : q[i] # << >>

\* A queue of blocks that are not empty, with a block taken out or put in.
LEMMA BlocksFacts ==
    ASSUME NEW q, Blocks(q)
    PROVE  /\ q # << >> => /\ Head(q) \in Bytes /\ Head(q) # << >> /\ Len(Head(q)) \in Nat \ {0}
                           /\ Blocks(Tail(q))
           /\ \A b \in Bytes : b # << >> => Blocks(Append(q, b)) /\ Blocks(<<b>> \o q)
<1>1. q \in Seq(Bytes) /\ \A i \in 1..Len(q) : q[i] # << >>
  BY DEF Blocks
<1> HIDE DEF Bytes
<1>2. ASSUME q # << >>
      PROVE  Head(q) \in Bytes /\ Head(q) # << >> /\ Blocks(Tail(q))
  <2>1. Head(q) = q[1] /\ 1 \in 1..Len(q) /\ Head(q) \in Bytes
    BY <1>1, <1>2
  <2>2. Tail(q) \in Seq(Bytes) /\ \A i \in 1..Len(Tail(q)) : Tail(q)[i] = q[i + 1] /\ i + 1 \in 1..Len(q)
    BY <1>1, <1>2
  <2> QED
    BY <1>1, <2>1, <2>2 DEF Blocks
<1>3. \A b \in Bytes : b # << >> => Len(b) \in Nat \ {0}
  BY DEF Bytes
<1>4. ASSUME NEW b \in Bytes, b # << >>
      PROVE  Blocks(Append(q, b)) /\ Blocks(<<b>> \o q)
  <2>1. Append(q, b) \in Seq(Bytes) /\ <<b>> \o q \in Seq(Bytes)
    BY <1>1
  <2>2. \A i \in 1..Len(Append(q, b)) : Append(q, b)[i] # << >>
    BY <1>1, <1>4
  <2>3. \A i \in 1..Len(<<b>> \o q) : (<<b>> \o q)[i] # << >>
    BY <1>1, <1>4
  <2> QED
    BY <2>1, <2>2, <2>3 DEF Blocks
<1> QED
  BY <1>2, <1>3, <1>4

NetPcs == {"reactor", "event", "update", "output", "gone"}

-----------------------------------------------------------------------------
(* What handle_output_queue does to the kernel and to the queue, with k in *)
(* the kernel and, but for the first case, a block at the head.            *)

Block == Head(queue)

Moves(k, n) == Takes(k, Block, n)

\* A wake-up that the reactor refuses closes the socket, whatever has moved.
MayClose == closing' \in {closing, TRUE}

NothingMoves(k) == kernel' = k /\ UNCHANGED <<queue, overflowed>> /\ MayClose

BlockDropped(k) ==
    kernel' = k /\ queue' = Tail(queue) /\ overflowed' = TRUE /\ MayClose

PartMoves(k, n) ==
    /\ n \in 1..(Len(Block) - 1) /\ Moves(k, n)
    /\ queue' = <<SubSeq(Block, n + 1, Len(Block))>> \o Tail(queue)
    /\ UNCHANGED overflowed /\ MayClose

BlockMoves(k) ==
    Moves(k, Len(Block)) /\ queue' = Tail(queue) /\ UNCHANGED overflowed /\ MayClose

ConnectionBreaks(k) ==
    /\ kernel' = k \/ \E n \in 1..(Len(Block) - 1) : Moves(k, n)
    /\ queue' = Tail(queue) /\ closing' = TRUE /\ UNCHANGED overflowed

QueueMoves(k) ==
    \/ NothingMoves(k)
    \/ queue # << >> /\ \/ BlockDropped(k)
                        \/ \E n \in 1..(Len(Block) - 1) : PartMoves(k, n)
                        \/ BlockMoves(k)
                        \/ ConnectionBreaks(k)

LEMMA QueueCases ==
    ASSUME NEW k, HandleOutputQueue(k), overflowed \in BOOLEAN
    PROVE  QueueMoves(k)
<1> USE DEF WakeUp, Done, Again, Failed, Block, Moves, MayClose
<1>1. CASE queue = << >>
  BY <1>1 DEF HandleOutputQueue, QueueMoves, NothingMoves
<1>2. CASE queue # << >>
  <2>1. CASE /\ Len(k) = KernelSize
             /\ kernel' = k
             /\ queue' = IF IsFull(Tail(queue)) THEN Tail(queue) ELSE queue
             /\ overflowed' = (overflowed \/ IsFull(Tail(queue)))
             /\ WakeUp(TRUE)
    <3>1. CASE IsFull(Tail(queue))
      BY <1>2, <2>1, <3>1 DEF QueueMoves, BlockDropped
    <3>2. CASE ~IsFull(Tail(queue))
      <4>1. overflowed' = (overflowed \/ FALSE)
        BY <2>1, <3>2
      <4> QED
        BY <2>1, <3>2, <4>1 DEF QueueMoves, NothingMoves
    <3> QED
      BY <3>1, <3>2
  <2>2. ASSUME NEW n \in 1..(Len(Block) - 1),
               Takes(k, Block, n),
               IF IsFull(Tail(queue))
               THEN queue' = Tail(queue) /\ Failed /\ UNCHANGED outActive
               ELSE /\ queue' = <<SubSeq(Block, n + 1, Len(Block))>> \o Tail(queue)
                    /\ WakeUp(TRUE),
               UNCHANGED overflowed
        PROVE  QueueMoves(k)
    BY <1>2, <2>2 DEF QueueMoves, PartMoves, ConnectionBreaks
  <2>3. CASE /\ Takes(k, Block, Len(Block))
             /\ queue' = Tail(queue)
             /\ IF Tail(queue) = << >> THEN WakeUp(FALSE) ELSE Again /\ UNCHANGED outActive
             /\ UNCHANGED overflowed
    BY <1>2, <2>3 DEF QueueMoves, BlockMoves
  <2>4. CASE /\ kernel' = k
             /\ queue' = Tail(queue)
             /\ Failed
             /\ UNCHANGED <<outActive, overflowed>>
    BY <1>2, <2>4 DEF QueueMoves, ConnectionBreaks
  <2> QED
    BY <1>2, <2>1, <2>2, <2>3, <2>4 DEF HandleOutputQueue
<1> QED
  BY <1>1, <1>2

LEMMA QueuePcs ==
    ASSUME NEW k, HandleOutputQueue(k), netPc \in NetPcs, outActive \in BOOLEAN
    PROVE  netPc' \in NetPcs /\ outActive' \in BOOLEAN
<1> USE DEF WakeUp, Done, Again, Failed, NetPcs
<1>1. CASE queue = << >>
  BY <1>1 DEF HandleOutputQueue
<1>2. CASE queue # << >>
  BY <1>2 DEF HandleOutputQueue
<1> QED
  BY <1>1, <1>2

\* handle_output: part of the buffer moves, or all of it and then from the queue,
\* or nothing.
NothingIsSent == UNCHANGED <<outBuffer, queue, kernel, overflowed>> /\ MayClose

PartOfBuffer(n) ==
    /\ ~closing
    /\ n \in 1..(Len(outBuffer) - 1) /\ Takes(kernel, outBuffer, n)
    /\ outBuffer' = SubSeq(outBuffer, n + 1, Len(outBuffer))
    /\ UNCHANGED <<queue, overflowed>> /\ MayClose

AllOfBuffer ==
    /\ ~closing
    /\ Len(kernel \o outBuffer) <= KernelSize
    /\ outBuffer' = << >>
    /\ QueueMoves(kernel \o outBuffer)

LEMMA OutputCases ==
    ASSUME TypeOK, HandleOutput
    PROVE  /\ NothingIsSent \/ (\E n \in 1..(Len(outBuffer) - 1) : PartOfBuffer(n)) \/ AllOfBuffer
           /\ netPc' \in NetPcs /\ outActive' \in BOOLEAN
           /\ UNCHANGED <<encrypted, sent, received>>
<1> USE DEF WakeUp, Done, Failed, NetPcs, MayClose
<1>0. /\ netPc \in NetPcs /\ outActive \in BOOLEAN /\ overflowed \in BOOLEAN /\ closing \in BOOLEAN
      /\ outBuffer \in Bytes /\ kernel \in Bytes /\ Len(kernel) <= KernelSize
      /\ Len(kernel \o outBuffer) = Len(kernel) + Len(outBuffer)
  BY DEF TypeOK, Bytes
<1>1. CASE closing
  BY <1>0, <1>1 DEF HandleOutput, NothingIsSent
<1>2. CASE ~closing /\ outBuffer = << >>
  <2>1. HandleOutputQueue(kernel) /\ outBuffer' = outBuffer /\ UNCHANGED <<encrypted, sent, received>>
    BY <1>2 DEF HandleOutput
  <2>2. kernel \o outBuffer = kernel
    BY <1>0, <1>2 DEF Bytes
  <2>3. QueueMoves(kernel)
    BY <1>0, <2>1, QueueCases
  <2>4. netPc' \in NetPcs /\ outActive' \in BOOLEAN
    BY <1>0, <2>1, QueuePcs
  <2>5. AllOfBuffer
    BY <1>0, <1>2, <2>1, <2>2, <2>3 DEF AllOfBuffer
  <2> QED
    BY <2>1, <2>4, <2>5
<1>3. CASE ~closing /\ outBuffer # << >>
  <2>1. CASE /\ Len(kernel) = KernelSize
             /\ WakeUp(TRUE)
             /\ UNCHANGED <<outBuffer, queue, kernel, overflowed>>
             /\ UNCHANGED <<encrypted, sent, received>>
    BY <1>0, <2>1 DEF NothingIsSent
  <2>2. ASSUME NEW n \in 1..(Len(outBuffer) - 1),
               Takes(kernel, outBuffer, n),
               outBuffer' = SubSeq(outBuffer, n + 1, Len(outBuffer)),
               WakeUp(TRUE),
               UNCHANGED <<queue, overflowed>>
        PROVE  PartOfBuffer(n) /\ netPc' \in NetPcs /\ outActive' \in BOOLEAN
    BY <1>3, <2>2 DEF PartOfBuffer
  <2>3. CASE /\ Len(kernel) + Len(outBuffer) <= KernelSize
             /\ outBuffer' = << >>
             /\ HandleOutputQueue(kernel \o outBuffer)
    <3>1. QueueMoves(kernel \o outBuffer)
      BY <1>0, <2>3, QueueCases
    <3>2. netPc' \in NetPcs /\ outActive' \in BOOLEAN
      BY <1>0, <2>3, QueuePcs
    <3>3. AllOfBuffer
      BY <1>0, <1>3, <2>3, <3>1 DEF AllOfBuffer
    <3> QED
      BY <3>2, <3>3 DEF HandleOutput
  <2>4. CASE Failed /\ UNCHANGED <<outBuffer, queue, outActive, kernel, overflowed>>
    BY <1>0, <2>4 DEF NothingIsSent, HandleOutput
  <2> QED
    BY <1>3, <2>1, <2>2, <2>3, <2>4 DEF HandleOutput
<1> QED
  BY <1>0, <1>1, <1>2, <1>3

-----------------------------------------------------------------------------
(* Types.                                                                  *)

KernelOK(k) == k \in Bytes /\ Len(k) <= KernelSize

\* send() leaves no more in the kernel than it holds.
LEMMA TakesFacts ==
    ASSUME NEW k \in Bytes, NEW data \in Bytes, NEW n \in 1..Len(data), Takes(k, data, n)
    PROVE  KernelOK(kernel')
<1>1. SubSeq(data, 1, n) \in Bytes /\ Len(SubSeq(data, 1, n)) = n
  BY CutFacts DEF Bytes
<1>2. kernel' = k \o SubSeq(data, 1, n) /\ Len(k) + n <= KernelSize
  BY DEF Takes
<1>3. k \o SubSeq(data, 1, n) \in Bytes /\ Len(k \o SubSeq(data, 1, n)) = Len(k) + n
  BY <1>1 DEF Bytes
<1> QED
  BY <1>2, <1>3 DEF KernelOK

\* What is left of a block, or of the buffer, that was sent in part.
LEMMA RestFacts ==
    ASSUME NEW data \in Bytes, NEW n \in 1..(Len(data) - 1)
    PROVE  LET rest == SubSeq(data, n + 1, Len(data))
           IN  n \in 1..Len(data) /\ rest \in Bytes /\ rest # << >> /\ Len(rest) = Len(data) - n
<1>1. Len(data) \in Nat /\ n \in 0..Len(data) /\ n \in 1..Len(data)
  BY DEF Bytes
<1>2. SubSeq(data, n + 1, Len(data)) \in Bytes /\ Len(SubSeq(data, n + 1, Len(data))) = Len(data) - n
  BY <1>1, CutFacts DEF Bytes
<1> DEFINE rest == SubSeq(data, n + 1, Len(data))
<1>3. Len(rest) # 0
  <2>1. Len(rest) = Len(data) - n
    BY <1>2
  <2> HIDE DEF rest
  <2> QED
    BY <1>1, <2>1
<1>4. rest # << >>
  <2> HIDE DEF rest
  <2> QED
    BY <1>3
<1> QED
  BY <1>1, <1>2, <1>4

LEMMA QueueTypes ==
    ASSUME NEW k, KernelOK(k), Blocks(queue), closing \in BOOLEAN, overflowed \in BOOLEAN,
           QueueMoves(k)
    PROVE  KernelOK(kernel') /\ Blocks(queue') /\ closing' \in BOOLEAN /\ overflowed' \in BOOLEAN
<1> USE DEF MayClose
<1>0. k \in Bytes
  BY DEF KernelOK
<1>1. CASE NothingMoves(k)
  BY <1>1 DEF NothingMoves
<1>2. CASE queue # << >>
  <2>1. Block \in Bytes /\ Block # << >> /\ Len(Block) \in Nat \ {0} /\ Blocks(Tail(queue))
    BY <1>2, BlocksFacts DEF Block
  <2>2. \A n \in 1..Len(Block) : Moves(k, n) => KernelOK(kernel')
    BY <1>0, <2>1, TakesFacts DEF Moves
  <2>3. CASE BlockDropped(k)
    BY <2>1, <2>3 DEF BlockDropped
  <2>4. ASSUME NEW n \in 1..(Len(Block) - 1), PartMoves(k, n)
        PROVE  KernelOK(kernel') /\ Blocks(queue') /\ closing' \in BOOLEAN /\ overflowed' \in BOOLEAN
    <3>1. KernelOK(kernel')
      BY <2>1, <2>2, <2>4, RestFacts DEF PartMoves
    <3>2. SubSeq(Block, n + 1, Len(Block)) \in Bytes /\ SubSeq(Block, n + 1, Len(Block)) # << >>
      BY <2>1, RestFacts
    <3>3. Blocks(queue')
      BY <2>1, <2>4, <3>2, BlocksFacts DEF PartMoves
    <3> QED
      BY <2>4, <3>1, <3>3 DEF PartMoves
  <2>5. CASE BlockMoves(k)
    <3>1. Len(Block) \in 1..Len(Block)
      BY <2>1
    <3>2. KernelOK(kernel')
      BY <2>2, <2>5, <3>1 DEF BlockMoves
    <3> QED
      BY <2>1, <2>5, <3>2 DEF BlockMoves
  <2>6. CASE ConnectionBreaks(k)
    BY <2>1, <2>2, <2>6, RestFacts DEF ConnectionBreaks
  <2> QED
    BY <1>1, <1>2, <2>3, <2>4, <2>5, <2>6 DEF QueueMoves
<1> QED
  BY <1>1, <1>2 DEF QueueMoves

\* The parts of the type invariant a step can disturb.
BufferOK(b) == b \in Bytes /\ Len(b) <= OutBufferSize

Types(c, oa, ov, ob, q, k, e, pc, s, r) ==
    /\ c \in BOOLEAN /\ oa \in BOOLEAN /\ ov \in BOOLEAN
    /\ BufferOK(ob) /\ Blocks(q) /\ KernelOK(k)
    /\ e \in 0..MaxPackets /\ pc \in NetPcs
    /\ s \in Bytes /\ r \in Bytes

LEMMA TypeParts ==
    /\ TypeOK <=> Types(closing, outActive, overflowed, outBuffer, queue, kernel,
                        encrypted, netPc, sent, received)
    /\ TypeOK' <=> Types(closing', outActive', overflowed', outBuffer', queue', kernel',
                         encrypted', netPc', sent', received')
BY DEF TypeOK, Types, BufferOK, Blocks, KernelOK, Bytes, NetPcs

LEMMA HandleOutputTypes ==
    ASSUME TypeOK, HandleOutput
    PROVE  TypeOK'
<1>1. /\ closing \in BOOLEAN /\ outActive \in BOOLEAN /\ overflowed \in BOOLEAN
      /\ BufferOK(outBuffer) /\ Blocks(queue) /\ KernelOK(kernel)
      /\ encrypted \in 0..MaxPackets /\ netPc \in NetPcs
      /\ sent \in Bytes /\ received \in Bytes
  BY TypeParts DEF Types
<1>2. netPc' \in NetPcs /\ outActive' \in BOOLEAN /\ UNCHANGED <<encrypted, sent, received>>
  BY OutputCases
<1>3. CASE NothingIsSent
  BY <1>1, <1>2, <1>3, TypeParts DEF NothingIsSent, MayClose, Types
<1>4. ASSUME NEW n \in 1..(Len(outBuffer) - 1), PartOfBuffer(n)
      PROVE  TypeOK'
  <2>1. outBuffer \in Bytes /\ Len(outBuffer) <= OutBufferSize /\ kernel \in Bytes
    BY <1>1 DEF BufferOK, KernelOK
  <2>2. /\ n \in 1..Len(outBuffer) /\ n \in 1..(Len(outBuffer) - 1)
        /\ outBuffer' \in Bytes /\ Len(outBuffer') = Len(outBuffer) - n
    BY <1>4, <2>1, RestFacts DEF PartOfBuffer
  <2>3. KernelOK(kernel')
    BY <1>4, <2>1, <2>2, TakesFacts DEF PartOfBuffer
  <2>4. Len(outBuffer') <= OutBufferSize
    <3>1. PICK b, l : b = Len(outBuffer') /\ l = Len(outBuffer)
      OBVIOUS
    <3>2. b = l - n /\ l <= OutBufferSize /\ n \in 1..l /\ l \in Nat
      BY <2>1, <2>2, <3>1 DEF Bytes
    <3>3. b <= OutBufferSize
      BY <3>2, OutputAssumption
    <3> QED
      BY <3>1, <3>3
  <2>5. BufferOK(outBuffer')
    BY <2>2, <2>4 DEF BufferOK
  <2> QED
    BY <1>1, <1>2, <1>4, <2>3, <2>5, TypeParts DEF PartOfBuffer, MayClose, Types
<1>5. CASE AllOfBuffer
  <2>1. KernelOK(kernel \o outBuffer)
    BY <1>1, <1>5 DEF AllOfBuffer, KernelOK, BufferOK, Bytes
  <2>2. KernelOK(kernel') /\ Blocks(queue') /\ closing' \in BOOLEAN /\ overflowed' \in BOOLEAN
    BY <1>1, <1>5, <2>1, QueueTypes DEF AllOfBuffer
  <2>3. BufferOK(outBuffer')
    BY <1>5, OutputAssumption DEF AllOfBuffer, BufferOK, Bytes
  <2> QED
    BY <1>1, <1>2, <2>2, <2>3, TypeParts DEF Types
<1> QED
  BY <1>3, <1>4, <1>5, OutputCases

LEMMA SendPacketTypes ==
    ASSUME TypeOK, NEW size \in Sizes, SendPacket(size)
    PROVE  TypeOK'
<1> DEFINE packet == PacketBytes(encrypted + 1, size)
<1>1. /\ closing \in BOOLEAN /\ outActive \in BOOLEAN /\ overflowed \in BOOLEAN
      /\ BufferOK(outBuffer) /\ Blocks(queue) /\ KernelOK(kernel)
      /\ encrypted \in 0..MaxPackets /\ netPc \in NetPcs
      /\ sent \in Bytes /\ received \in Bytes
  BY TypeParts DEF Types
<1>2. encrypted + 1 \in 1..MaxPackets /\ encrypted' = encrypted + 1
  BY <1>1, OutputAssumption DEF SendPacket
<1>3. packet \in Bytes /\ packet # << >> /\ Len(packet) = size /\ size \in Nat \ {0}
  BY <1>2, PacketFacts DEF Bytes
<1>4. encrypted' \in 0..MaxPackets
  BY <1>2
<1> HIDE DEF packet
<1>5. sent \o packet \in Bytes
  BY <1>1, <1>3 DEF Bytes
<1>6. Blocks(Append(queue, packet))
  BY <1>1, <1>3, BlocksFacts
<1>7. UNCHANGED <<closing, outActive, kernel, netPc, received>>
  BY DEF SendPacket
<1>8. CASE /\ OutBufferSize - Len(outBuffer) >= size
           /\ outBuffer' = outBuffer \o packet
           /\ sent' = sent \o packet
           /\ UNCHANGED <<queue, overflowed>>
  <2>1. BufferOK(outBuffer \o packet)
    BY <1>1, <1>3, <1>8, OutputAssumption DEF BufferOK, Bytes
  <2> QED
    BY <1>1, <1>4, <1>5, <1>7, <1>8, <2>1, TypeParts DEF Types
<1>9. CASE /\ queue' = Append(queue, packet)
           /\ sent' = sent \o packet
           /\ UNCHANGED <<outBuffer, overflowed>>
  BY <1>1, <1>4, <1>5, <1>6, <1>7, <1>9, TypeParts DEF Types
<1>10. CASE overflowed' = TRUE /\ UNCHANGED <<outBuffer, queue, sent>>
  BY <1>1, <1>4, <1>7, <1>10, TypeParts DEF Types
<1> QED
  BY <1>8, <1>9, <1>10 DEF SendPacket, packet

LEMMA TypeStep ==
    ASSUME TypeOK, [Next]_vars
    PROVE  TypeOK'
<1> USE TypeParts DEF Types, bufferVars, historyVars
<1>1. /\ closing \in BOOLEAN /\ outActive \in BOOLEAN /\ overflowed \in BOOLEAN
      /\ BufferOK(outBuffer) /\ Blocks(queue) /\ KernelOK(kernel)
      /\ encrypted \in 0..MaxPackets /\ netPc \in NetPcs
      /\ sent \in Bytes /\ received \in Bytes
  OBVIOUS
<1>2. CASE \E size \in Sizes : SendPacket(size)
  BY <1>2, SendPacketTypes
<1>3. CASE HandleOutput
  BY <1>3, HandleOutputTypes
<1>4. CASE WritableEvent
  BY <1>1, <1>4 DEF WritableEvent, NetPcs
<1>5. CASE EventLoopReturns
  BY <1>1, <1>5 DEF EventLoopReturns, NetPcs
<1>6. CASE Update
  <2>1. netPc' \in NetPcs
    BY <1>6 DEF Update, NetPcs
  <2> QED
    BY <1>1, <1>6, <2>1 DEF Update
<1>7. CASE CloseSocket
  BY <1>1, <1>7 DEF CloseSocket
<1>8. CASE ClientReads
  <2>1. kernel \in Bytes /\ Len(kernel) <= KernelSize /\ kernel # << >>
    BY <1>1, <1>8 DEF ClientReads, KernelOK
  <2>2. Tail(kernel) \in Bytes /\ Len(Tail(kernel)) = Len(kernel) - 1 /\ Head(kernel) \in Byte
    BY <2>1 DEF Bytes
  <2>3. KernelOK(Tail(kernel)) /\ Append(received, Head(kernel)) \in Bytes
    BY <1>1, <2>1, <2>2, OutputAssumption DEF KernelOK, Bytes
  <2> QED
    BY <1>1, <1>8, <2>3 DEF ClientReads
<1>9. CASE Gone \/ UNCHANGED vars
  BY <1>1, <1>9 DEF Gone, vars
<1> QED
  BY <1>2, <1>3, <1>4, <1>5, <1>6, <1>7, <1>8, <1>9 DEF Next, NetworkThread

LEMMA InitTypes == Init => TypeOK
<1>1. << >> \in Bytes /\ Len(<< >>) = 0 /\ 0 \in 0..MaxPackets
  BY OutputAssumption DEF Bytes
<1>2. Blocks(<< >>) /\ KernelOK(<< >>) /\ BufferOK(<< >>)
  BY <1>1, OutputAssumption DEF Blocks, KernelOK, BufferOK
<1> QED
  BY <1>1, <1>2, TypeParts DEF Init, Types, NetPcs

\* Every variable keeps its type: neither the buffer nor the kernel takes more
\* than it holds, and no block of the queue is empty, however handle_output cuts
\* and puts back what it could not send.
THEOREM SocketOutputTypeCorrect == Spec => []TypeOK
<1>1. TypeOK /\ [Next]_vars => TypeOK'
  BY TypeStep
<1> QED
  BY <1>1, InitTypes, PTL DEF Spec

-----------------------------------------------------------------------------
(* The order of the stream. Everything on its way to the client lies in    *)
(* sent without a gap: what the client has read, what is in the kernel,    *)
(* the buffer, and then the blocks of the queue, one after the other.      *)

\* s is what stands in whole after its first from bytes.
Agrees(s, from, whole) ==
    from + Len(s) <= Len(whole) /\ \A i \in 1..Len(s) : s[i] = whole[from + i]

\* Block i of q lies behind offs[i] bytes of whole, and the last one ends it.
Offsets(offs, q, from, whole) ==
    /\ offs[1] = from /\ offs[Len(q) + 1] = Len(whole)
    /\ \A i \in 1..Len(q) : offs[i + 1] = offs[i] + Len(q[i]) /\ Agrees(q[i], offs[i], whole)

Follows(q, from, whole) ==
    \E offs \in [1..(Len(q) + 1) -> 0..Len(whole)] : Offsets(offs, q, from, whole)

InOrder ==
    /\ Agrees(received, 0, sent)
    /\ Agrees(kernel, Len(received), sent)
    /\ ~closing => /\ Agrees(outBuffer, Len(received) + Len(kernel), sent)
                   /\ Follows(queue, Len(received) + Len(kernel) + Len(outBuffer), sent)

StreamInv == ~overflowed => InOrder

LEMMA AgreesConcat ==
    ASSUME NEW s \in Bytes, NEW t \in Bytes, NEW whole \in Bytes, NEW from \in Nat,
           Agrees(s, from, whole), Agrees(t, from + Len(s), whole)
    PROVE  Agrees(s \o t, from, whole)
<1>1. /\ Len(s) \in Nat /\ Len(t) \in Nat /\ Len(whole) \in Nat
      /\ Len(s \o t) = Len(s) + Len(t)
      /\ \A i \in 1..(Len(s) + Len(t)) :
            (s \o t)[i] = IF i <= Len(s) THEN s[i] ELSE t[i - Len(s)]
  BY DEF Bytes
<1>2. from + Len(s \o t) <= Len(whole)
  BY <1>1 DEF Agrees
<1>3. ASSUME NEW i \in 1..(Len(s) + Len(t))
      PROVE  (s \o t)[i] = whole[from + i]
  <2>1. CASE i <= Len(s)
    <3>1. i \in 1..Len(s)
      BY <1>1, <2>1
    <3> QED
      BY <1>1, <2>1, <3>1 DEF Agrees
  <2>2. CASE ~(i <= Len(s))
    <3>1. i - Len(s) \in 1..Len(t) /\ from + Len(s) + (i - Len(s)) = from + i
      BY <1>1, <2>2
    <3>2. t[i - Len(s)] = whole[from + Len(s) + (i - Len(s))]
      BY <3>1 DEF Agrees
    <3> QED
      BY <1>1, <2>2, <3>1, <3>2
  <2> QED
    BY <2>1, <2>2
<1> QED
  BY <1>1, <1>2, <1>3 DEF Agrees

LEMMA AgreesCut ==
    ASSUME NEW s \in Bytes, NEW whole \in Bytes, NEW from \in Nat, NEW n \in 0..Len(s),
           Agrees(s, from, whole)
    PROVE  /\ Agrees(SubSeq(s, 1, n), from, whole)
           /\ Agrees(SubSeq(s, n + 1, Len(s)), from + n, whole)
<1> DEFINE front == SubSeq(s, 1, n)
           rest  == SubSeq(s, n + 1, Len(s))
<1>1. /\ front \in Bytes /\ Len(front) = n /\ \A i \in 1..n : front[i] = s[i]
      /\ rest \in Bytes /\ Len(rest) = Len(s) - n
      /\ \A i \in 1..(Len(s) - n) : rest[i] = s[n + i]
  BY CutFacts DEF Bytes
<1>2. Len(s) \in Nat /\ n \in Nat /\ n <= Len(s) /\ Len(whole) \in Nat
  BY DEF Bytes
<1> HIDE DEF front, rest
<1>3. Agrees(front, from, whole)
  BY <1>1, <1>2 DEF Agrees
<1>4. Agrees(rest, from + n, whole)
  <2>1. from + n + Len(rest) <= Len(whole)
    BY <1>1, <1>2 DEF Agrees
  <2>2. ASSUME NEW i \in 1..Len(rest) PROVE rest[i] = whole[from + n + i]
    <3>1. n + i \in 1..Len(s) /\ from + (n + i) = from + n + i /\ i \in 1..(Len(s) - n)
      BY <1>1, <1>2
    <3>2. s[n + i] = whole[from + (n + i)]
      BY <3>1 DEF Agrees
    <3> QED
      BY <1>1, <3>1, <3>2
  <2> QED
    BY <2>1, <2>2 DEF Agrees
<1> QED
  BY <1>3, <1>4 DEF front, rest

\* What stands in whole stands there when p is put behind it, and so does p.
LEMMA AgreesGrows ==
    ASSUME NEW whole \in Bytes, NEW p \in Bytes
    PROVE  /\ Agrees(p, Len(whole), whole \o p)
           /\ \A s \in Bytes, from \in Nat : Agrees(s, from, whole) => Agrees(s, from, whole \o p)
<1>1. /\ Len(p) \in Nat /\ Len(whole) \in Nat /\ Len(whole \o p) = Len(whole) + Len(p)
      /\ \A i \in 1..Len(whole) : (whole \o p)[i] = whole[i]
      /\ \A i \in 1..Len(p) : (whole \o p)[Len(whole) + i] = p[i]
  BY DEF Bytes
<1>2. Agrees(p, Len(whole), whole \o p)
  BY <1>1 DEF Agrees
<1>3. ASSUME NEW s \in Bytes, NEW from \in Nat, Agrees(s, from, whole)
      PROVE  Agrees(s, from, whole \o p)
  <2>1. Len(s) \in Nat
    BY DEF Bytes
  <2>2. \A i \in 1..Len(s) : from + i \in 1..Len(whole)
    BY <1>1, <1>3, <2>1 DEF Agrees
  <2> QED
    BY <1>1, <1>3, <2>1, <2>2 DEF Agrees
<1> QED
  BY <1>2, <1>3

\* The first byte of b moves to the end of s.
LEMMA AgreesHead ==
    ASSUME NEW s \in Bytes, NEW b \in Bytes, NEW whole \in Bytes, b # << >>,
           Agrees(s, 0, whole), Agrees(b, Len(s), whole)
    PROVE  /\ Len(s) < Len(whole) /\ Head(b) = whole[Len(s) + 1]
           /\ Len(Append(s, Head(b))) = Len(s) + 1 /\ Len(Tail(b)) = Len(b) - 1
           /\ Agrees(Append(s, Head(b)), 0, whole)
           /\ Agrees(Tail(b), Len(s) + 1, whole)
<1>1. /\ Len(s) \in Nat /\ Len(b) \in Nat \ {0} /\ Len(whole) \in Nat
      /\ Head(b) = b[1] /\ 1 \in 1..Len(b) /\ Len(Tail(b)) = Len(b) - 1
      /\ \A i \in 1..(Len(b) - 1) : Tail(b)[i] = b[i + 1]
      /\ Len(Append(s, Head(b))) = Len(s) + 1
      /\ \A i \in 1..Len(s) : Append(s, Head(b))[i] = s[i]
      /\ Append(s, Head(b))[Len(s) + 1] = Head(b)
  BY DEF Bytes
<1>2. Len(s) < Len(whole) /\ Head(b) = whole[Len(s) + 1]
  BY <1>1 DEF Agrees
<1>3. Agrees(Append(s, Head(b)), 0, whole)
  <2>1. 0 + Len(Append(s, Head(b))) <= Len(whole)
    BY <1>1, <1>2
  <2>2. ASSUME NEW i \in 1..(Len(s) + 1)
        PROVE  Append(s, Head(b))[i] = whole[0 + i]
    <3>1. CASE i \in 1..Len(s)
      BY <1>1, <3>1 DEF Agrees
    <3>2. CASE i = Len(s) + 1
      BY <1>1, <1>2, <3>2
    <3> QED
      BY <1>1, <3>1, <3>2
  <2> QED
    BY <1>1, <2>1, <2>2 DEF Agrees
<1>4. Agrees(Tail(b), Len(s) + 1, whole)
  <2>1. Len(s) + 1 + Len(Tail(b)) <= Len(whole)
    BY <1>1 DEF Agrees
  <2>2. ASSUME NEW i \in 1..(Len(b) - 1)
        PROVE  Tail(b)[i] = whole[Len(s) + 1 + i]
    <3>1. i + 1 \in 1..Len(b) /\ Len(s) + (i + 1) = Len(s) + 1 + i
      BY <1>1
    <3>2. b[i + 1] = whole[Len(s) + (i + 1)]
      BY <3>1 DEF Agrees
    <3> QED
      BY <1>1, <3>1, <3>2
  <2> QED
    BY <1>1, <2>1, <2>2 DEF Agrees
<1> QED
  BY <1>1, <1>2, <1>3, <1>4

LEMMA FollowsEmpty ==
    ASSUME NEW whole \in Bytes, NEW from \in Nat
    PROVE  Follows(<< >>, from, whole) <=> from = Len(whole)
<1>1. Len(whole) \in Nat /\ Len(<< >>) = 0 /\ 1..(0 + 1) = {1}
  BY DEF Bytes
<1>2. Follows(<< >>, from, whole) => from = Len(whole)
  BY <1>1 DEF Follows, Offsets
<1>3. ASSUME from = Len(whole) PROVE Follows(<< >>, from, whole)
  <2> DEFINE offs == [i \in 1..(Len(<< >>) + 1) |-> from]
  <2>1. offs \in [1..(Len(<< >>) + 1) -> 0..Len(whole)]
    BY <1>1, <1>3
  <2>2. Offsets(offs, << >>, from, whole)
    BY <1>1, <1>3 DEF Offsets
  <2> QED
    BY <2>1, <2>2 DEF Follows
<1> QED
  BY <1>2, <1>3

\* A packet is put behind the queue.
LEMMA FollowsGrows ==
    ASSUME NEW q, Blocks(q), NEW whole \in Bytes, NEW p \in Bytes, NEW from \in Nat,
           Follows(q, from, whole)
    PROVE  Follows(Append(q, p), from, whole \o p)
<1>1. PICK offs \in [1..(Len(q) + 1) -> 0..Len(whole)] : Offsets(offs, q, from, whole)
  BY DEF Follows
<1>2. /\ Len(q) \in Nat /\ Len(Append(q, p)) = Len(q) + 1
      /\ \A i \in 1..Len(q) : Append(q, p)[i] = q[i] /\ q[i] \in Bytes
      /\ Append(q, p)[Len(q) + 1] = p
  BY DEF Blocks
<1>3. Len(whole) \in Nat /\ Len(p) \in Nat /\ Len(whole \o p) = Len(whole) + Len(p)
  BY DEF Bytes
<1> DEFINE end == Len(whole) + Len(p)
           more == [i \in 1..(Len(q) + 2) |-> IF i <= Len(q) + 1 THEN offs[i] ELSE end]
<1>4. more \in [1..(Len(Append(q, p)) + 1) -> 0..Len(whole \o p)]
  BY <1>2, <1>3
<1>5. \A i \in 1..(Len(q) + 1) : more[i] = offs[i]
  BY <1>2
<1>6. more[Len(q) + 2] = end
  BY <1>2
<1> HIDE DEF more
<1>7. offs[1] = from /\ offs[Len(q) + 1] = Len(whole)
  BY <1>1 DEF Offsets
<1>8. ASSUME NEW i \in 1..(Len(q) + 1)
      PROVE  /\ more[i + 1] = more[i] + Len(Append(q, p)[i])
             /\ Agrees(Append(q, p)[i], more[i], whole \o p)
  <2>1. CASE i \in 1..Len(q)
    <3>1. i + 1 \in 1..(Len(q) + 1)
      BY <1>2, <2>1
    <3>2. offs[i + 1] = offs[i] + Len(q[i]) /\ Agrees(q[i], offs[i], whole)
      BY <1>1, <2>1 DEF Offsets
    <3>a. offs[i] \in Nat
      BY <1>2, <1>3, <2>1
    <3>3. Agrees(q[i], offs[i], whole \o p)
      BY <1>2, <2>1, <3>2, <3>a, AgreesGrows
    <3> QED
      BY <1>2, <1>5, <2>1, <3>1, <3>2, <3>3
  <2>2. CASE i = Len(q) + 1
    <3>1. more[i] = Len(whole) /\ i + 1 = Len(q) + 2
      BY <1>2, <1>5, <1>7, <2>2
    <3>2. Agrees(p, Len(whole), whole \o p)
      BY AgreesGrows
    <3> QED
      BY <1>2, <1>6, <2>2, <3>1, <3>2
  <2> QED
    BY <1>2, <2>1, <2>2
<1>9. Offsets(more, Append(q, p), from, whole \o p)
  <2>1. more[1] = from /\ more[Len(Append(q, p)) + 1] = Len(whole \o p)
    BY <1>2, <1>3, <1>5, <1>6, <1>7
  <2> QED
    BY <1>2, <1>8, <2>1 DEF Offsets
<1> QED
  BY <1>4, <1>9 DEF Follows

\* The block at the head is taken out.
LEMMA FollowsHead ==
    ASSUME NEW q, Blocks(q), q # << >>, NEW whole \in Bytes, NEW from \in Nat,
           Follows(q, from, whole)
    PROVE  /\ Agrees(Head(q), from, whole)
           /\ Follows(Tail(q), from + Len(Head(q)), whole)
<1>1. PICK offs \in [1..(Len(q) + 1) -> 0..Len(whole)] : Offsets(offs, q, from, whole)
  BY DEF Follows
<1>2. /\ Len(q) \in Nat \ {0} /\ Head(q) = q[1] /\ 1 \in 1..Len(q) /\ Len(Tail(q)) = Len(q) - 1
      /\ \A i \in 1..(Len(q) - 1) : Tail(q)[i] = q[i + 1]
  BY DEF Blocks
<1>3. /\ offs[1] = from /\ offs[Len(q) + 1] = Len(whole)
      /\ \A i \in 1..Len(q) : offs[i + 1] = offs[i] + Len(q[i]) /\ Agrees(q[i], offs[i], whole)
  BY <1>1 DEF Offsets
<1> DEFINE less == [i \in 1..Len(q) |-> offs[i + 1]]
<1>4. less \in [1..(Len(Tail(q)) + 1) -> 0..Len(whole)]
  BY <1>2
<1>5. \A i \in 1..Len(q) : less[i] = offs[i + 1]
  OBVIOUS
<1> HIDE DEF less
<1>6. Agrees(Head(q), from, whole) /\ less[1] = from + Len(Head(q))
  <2>1. offs[1 + 1] = offs[1] + Len(q[1]) /\ Agrees(q[1], offs[1], whole)
    BY <1>2, <1>3
  <2> QED
    BY <1>2, <1>3, <1>5, <2>1
<1>7. ASSUME NEW i \in 1..(Len(q) - 1)
      PROVE  /\ less[i + 1] = less[i] + Len(Tail(q)[i])
             /\ Agrees(Tail(q)[i], less[i], whole)
  <2>1. i \in 1..Len(q) /\ i + 1 \in 1..Len(q)
    BY <1>2
  <2> QED
    BY <1>2, <1>3, <1>5, <2>1
<1>8. less[Len(Tail(q)) + 1] = Len(whole)
  BY <1>2, <1>3, <1>5
<1>9. Offsets(less, Tail(q), from + Len(Head(q)), whole)
  BY <1>2, <1>6, <1>7, <1>8 DEF Offsets
<1> QED
  BY <1>4, <1>6, <1>9 DEF Follows

\* A block is put back at the head.
LEMMA FollowsCons ==
    ASSUME NEW q, Blocks(q), NEW whole \in Bytes, NEW from \in Nat, NEW b \in Bytes,
           Agrees(b, from, whole), Follows(q, from + Len(b), whole)
    PROVE  Follows(<<b>> \o q, from, whole)
<1>1. PICK offs \in [1..(Len(q) + 1) -> 0..Len(whole)] : Offsets(offs, q, from + Len(b), whole)
  BY DEF Follows
<1>2. /\ Len(q) \in Nat /\ Len(<<b>> \o q) = Len(q) + 1
      /\ \A i \in 1..Len(q) : (<<b>> \o q)[i + 1] = q[i]
      /\ (<<b>> \o q)[1] = b
  BY DEF Blocks
<1>3. Len(b) \in Nat /\ Len(whole) \in Nat /\ from \in 0..Len(whole)
  BY DEF Bytes, Agrees
<1>4. /\ offs[1] = from + Len(b) /\ offs[Len(q) + 1] = Len(whole)
      /\ \A i \in 1..Len(q) : offs[i + 1] = offs[i] + Len(q[i]) /\ Agrees(q[i], offs[i], whole)
  BY <1>1 DEF Offsets
<1> DEFINE more == [i \in 1..(Len(q) + 2) |-> IF i = 1 THEN from ELSE offs[i - 1]]
<1>5. more \in [1..(Len(<<b>> \o q) + 1) -> 0..Len(whole)]
  BY <1>2, <1>3
<1>6. more[1] = from
  BY <1>2
<1>7. \A i \in 1..(Len(q) + 1) : more[i + 1] = offs[i]
  BY <1>2
<1> HIDE DEF more
<1>8. ASSUME NEW i \in 1..(Len(q) + 1)
      PROVE  /\ more[i + 1] = more[i] + Len((<<b>> \o q)[i])
             /\ Agrees((<<b>> \o q)[i], more[i], whole)
  <2>1. CASE i = 1
    BY <1>2, <1>4, <1>6, <1>7, <2>1
  <2>2. CASE i # 1
    <3>1. PICK j \in 1..Len(q) : i = j + 1
      <4>1. i - 1 \in 1..Len(q) /\ i = (i - 1) + 1
        BY <1>2, <2>2
      <4> QED
        BY <4>1
    <3>2. j \in 1..(Len(q) + 1) /\ j + 1 \in 1..(Len(q) + 1)
      BY <1>2
    <3>3. more[j + 1] = offs[j] /\ more[j + 1 + 1] = offs[j + 1] /\ (<<b>> \o q)[j + 1] = q[j]
      BY <1>2, <1>7, <3>2
    <3> QED
      BY <1>4, <3>1, <3>3
  <2> QED
    BY <2>1, <2>2
<1>9. Offsets(more, <<b>> \o q, from, whole)
  <2>1. more[Len(<<b>> \o q) + 1] = Len(whole)
    BY <1>2, <1>4, <1>7
  <2> QED
    BY <1>2, <1>6, <1>8, <2>1 DEF Offsets
<1> QED
  BY <1>5, <1>9 DEF Follows

-----------------------------------------------------------------------------
(* Every step keeps what is under way in order.                            *)

\* The first n bytes of a block, or of the buffer, go to the kernel.
LEMMA MovesInOrder ==
    ASSUME NEW k \in Bytes, NEW data \in Bytes, NEW whole \in Bytes, NEW from \in Nat,
           NEW n \in 1..Len(data), Takes(k, data, n),
           Agrees(k, from, whole), Agrees(data, from + Len(k), whole)
    PROVE  /\ kernel' \in Bytes /\ Len(kernel') = Len(k) + n /\ Len(k) \in Nat
           /\ Agrees(kernel', from, whole)
           /\ Agrees(SubSeq(data, n + 1, Len(data)), from + Len(k) + n, whole)
<1>1. Len(k) \in Nat /\ Len(data) \in Nat /\ n \in 0..Len(data) /\ from + Len(k) \in Nat
  BY DEF Bytes
<1>2. /\ Agrees(SubSeq(data, 1, n), from + Len(k), whole)
      /\ Agrees(SubSeq(data, n + 1, Len(data)), from + Len(k) + n, whole)
  BY <1>1, AgreesCut
<1>3. SubSeq(data, 1, n) \in Bytes /\ Len(SubSeq(data, 1, n)) = n
  BY <1>1, CutFacts DEF Bytes
<1>4. kernel' = k \o SubSeq(data, 1, n)
  BY DEF Takes
<1>5. Agrees(k \o SubSeq(data, 1, n), from, whole)
  BY <1>2, <1>3, AgreesConcat
<1>6. k \o SubSeq(data, 1, n) \in Bytes /\ Len(k \o SubSeq(data, 1, n)) = Len(k) + n
  BY <1>3 DEF Bytes
<1> QED
  BY <1>1, <1>2, <1>4, <1>5, <1>6

LEMMA QueueInOrder ==
    ASSUME NEW k \in Bytes, Blocks(queue), NEW from \in Nat, sent \in Bytes,
           Agrees(k, from, sent), Follows(queue, from + Len(k), sent),
           ~closing, QueueMoves(k), ~overflowed'
    PROVE  /\ Agrees(kernel', from, sent)
           /\ ~closing' => Follows(queue', from + Len(kernel'), sent)
<1>0. Len(k) \in Nat /\ from + Len(k) \in Nat
  BY DEF Bytes
<1>1. CASE NothingMoves(k)
  BY <1>1 DEF NothingMoves
<1>2. CASE queue # << >>
  <2>1. Block \in Bytes /\ Len(Block) \in Nat \ {0} /\ Blocks(Tail(queue))
    BY <1>2, BlocksFacts DEF Block
  <2>2. /\ Agrees(Block, from + Len(k), sent)
        /\ Follows(Tail(queue), from + Len(k) + Len(Block), sent)
    BY <1>0, <1>2, FollowsHead DEF Block
  <2>3. ASSUME NEW n \in 1..Len(Block), Moves(k, n)
        PROVE  /\ Len(kernel') = Len(k) + n /\ from + Len(kernel') = from + Len(k) + n
               /\ Agrees(kernel', from, sent)
               /\ Agrees(SubSeq(Block, n + 1, Len(Block)), from + Len(k) + n, sent)
    <3>1. /\ Len(kernel') = Len(k) + n
          /\ Agrees(kernel', from, sent)
          /\ Agrees(SubSeq(Block, n + 1, Len(Block)), from + Len(k) + n, sent)
      BY <2>1, <2>2, <2>3, MovesInOrder DEF Moves
    <3>2. \A l : l = Len(k) + n => from + l = from + Len(k) + n
      BY <1>0
    <3> QED
      BY <3>1, <3>2
  <2>4. CASE BlockDropped(k)
    BY <2>4 DEF BlockDropped
  <2>5. ASSUME NEW n \in 1..(Len(Block) - 1), PartMoves(k, n)
        PROVE  Agrees(kernel', from, sent) /\ Follows(queue', from + Len(kernel'), sent)
    <3> DEFINE rest == SubSeq(Block, n + 1, Len(Block))
    <3>1. n \in 1..Len(Block) /\ rest \in Bytes /\ Len(rest) = Len(Block) - n
      BY <2>1, RestFacts
    <3>2. /\ from + Len(kernel') = from + Len(k) + n
          /\ Agrees(kernel', from, sent) /\ Agrees(rest, from + Len(k) + n, sent)
      BY <2>3, <2>5, <3>1 DEF PartMoves
    <3>3. queue' = <<rest>> \o Tail(queue)
      BY <2>5 DEF PartMoves
    <3> HIDE DEF rest
    <3>4. from + Len(k) + n + Len(rest) = from + Len(k) + Len(Block) /\ from + Len(k) + n \in Nat
      BY <1>0, <2>1, <3>1
    <3>5. Follows(<<rest>> \o Tail(queue), from + Len(k) + n, sent)
      BY <2>1, <2>2, <3>1, <3>2, <3>4, FollowsCons
    <3> QED
      BY <3>2, <3>3, <3>5
  <2>6. CASE BlockMoves(k)
    <3>1. Len(Block) \in 1..Len(Block)
      BY <2>1
    <3>2. Agrees(kernel', from, sent) /\ from + Len(kernel') = from + Len(k) + Len(Block)
      BY <2>3, <2>6, <3>1 DEF BlockMoves
    <3> QED
      BY <2>2, <2>6, <3>2 DEF BlockMoves
  <2>7. CASE ConnectionBreaks(k)
    <3>1. \A n \in 1..(Len(Block) - 1) : n \in 1..Len(Block)
      BY <2>1
    <3> QED
      BY <2>3, <2>7, <3>1 DEF ConnectionBreaks
  <2> QED
    BY <1>1, <1>2, <2>4, <2>5, <2>6, <2>7 DEF QueueMoves
<1> QED
  BY <1>1, <1>2 DEF QueueMoves

\* An empty buffer stands anywhere.
LEMMA NothingFacts ==
    ASSUME NEW whole \in Bytes, NEW from \in Nat, NEW k \in Bytes, Agrees(k, from, whole)
    PROVE  Agrees(<< >>, from + Len(k), whole) /\ from + Len(k) + Len(<< >>) = from + Len(k)
<1>1. Len(k) \in Nat /\ Len(whole) \in Nat /\ Len(<< >>) = 0
  BY DEF Bytes
<1> QED
  BY <1>1 DEF Agrees

LEMMA HandleOutputInOrder ==
    ASSUME TypeOK, InOrder, HandleOutput, ~overflowed'
    PROVE  InOrder'
<1>1. /\ closing \in BOOLEAN /\ Blocks(queue) /\ sent \in Bytes /\ received \in Bytes
      /\ kernel \in Bytes /\ outBuffer \in Bytes
      /\ Len(received) \in Nat /\ Len(kernel) \in Nat /\ Len(outBuffer) \in Nat
  BY TypeParts DEF Types, KernelOK, BufferOK, Bytes
<1>2. UNCHANGED <<sent, received>>
  BY OutputCases
<1>3. Agrees(received, 0, sent) /\ Agrees(kernel, Len(received), sent)
  BY DEF InOrder
<1>4. CASE NothingIsSent
  BY <1>2, <1>4 DEF NothingIsSent, MayClose, InOrder
<1>5. CASE ~closing
  <2>1. /\ Agrees(outBuffer, Len(received) + Len(kernel), sent)
        /\ Follows(queue, Len(received) + Len(kernel) + Len(outBuffer), sent)
    BY <1>5 DEF InOrder
  <2>2. ASSUME NEW n \in 1..(Len(outBuffer) - 1), PartOfBuffer(n)
        PROVE  InOrder'
    <3>1. n \in 1..Len(outBuffer) /\ Len(outBuffer') = Len(outBuffer) - n
      BY <1>1, <2>2, RestFacts DEF PartOfBuffer
    <3>2. /\ Len(kernel') = Len(kernel) + n
          /\ Agrees(kernel', Len(received), sent)
          /\ Agrees(outBuffer', Len(received) + Len(kernel) + n, sent)
      BY <1>1, <1>3, <2>1, <2>2, <3>1, MovesInOrder DEF PartOfBuffer
    <3>3. \A l, b : l = Len(kernel) + n /\ b = Len(outBuffer) - n =>
                /\ Len(received) + l = Len(received) + Len(kernel) + n
                /\ Len(received) + l + b = Len(received) + Len(kernel) + Len(outBuffer)
      BY <1>1
    <3>4. /\ Agrees(outBuffer', Len(received) + Len(kernel'), sent)
          /\ Follows(queue, Len(received) + Len(kernel') + Len(outBuffer'), sent)
      BY <2>1, <3>1, <3>2, <3>3
    <3> QED
      BY <1>2, <1>3, <2>2, <3>2, <3>4 DEF InOrder, PartOfBuffer
  <2>3. CASE AllOfBuffer
    <3> DEFINE k == kernel \o outBuffer
    <3>1. k \in Bytes /\ Len(k) = Len(kernel) + Len(outBuffer)
      BY <1>1 DEF Bytes
    <3>2. Agrees(k, Len(received), sent)
      BY <1>1, <1>3, <2>1, AgreesConcat
    <3>3. Len(received) + Len(k) = Len(received) + Len(kernel) + Len(outBuffer)
      BY <1>1, <3>1
    <3>4. QueueMoves(k) /\ outBuffer' = << >>
      BY <2>3 DEF AllOfBuffer
    <3> HIDE DEF k
    <3>5. /\ Agrees(kernel', Len(received), sent)
          /\ ~closing' => Follows(queue', Len(received) + Len(kernel'), sent)
      BY <1>1, <1>5, <2>1, <3>1, <3>2, <3>3, <3>4, QueueInOrder
    <3>6. kernel' \in Bytes
      BY HandleOutputTypes DEF TypeOK, Bytes
    <3>7. /\ Agrees(<< >>, Len(received) + Len(kernel'), sent)
          /\ Len(received) + Len(kernel') + Len(<< >>) = Len(received) + Len(kernel')
      BY <1>1, <3>5, <3>6, NothingFacts
    <3> QED
      BY <1>2, <1>3, <3>4, <3>5, <3>7 DEF InOrder
  <2> QED
    BY <1>4, <2>2, <2>3, OutputCases
<1>6. CASE closing
  BY <1>4, <1>6, OutputCases DEF PartOfBuffer, AllOfBuffer
<1> QED
  BY <1>5, <1>6

LEMMA SendPacketInOrder ==
    ASSUME TypeOK, InOrder, NEW size \in Sizes, SendPacket(size), ~overflowed'
    PROVE  /\ InOrder'
           /\ sent' = sent \o PacketBytes(encrypted + 1, size) /\ overflowed' = overflowed
<1> DEFINE packet == PacketBytes(encrypted + 1, size)
           behind == Len(received) + Len(kernel)
<1>1. /\ closing \in BOOLEAN /\ Blocks(queue) /\ sent \in Bytes /\ received \in Bytes
      /\ kernel \in Bytes /\ outBuffer \in Bytes /\ encrypted \in 0..MaxPackets
      /\ Len(received) \in Nat /\ Len(kernel) \in Nat /\ Len(outBuffer) \in Nat
  BY TypeParts DEF Types, KernelOK, BufferOK, Bytes
<1>2. encrypted + 1 \in 1..MaxPackets
  BY <1>1, OutputAssumption DEF SendPacket
<1>3. packet \in Bytes /\ Len(packet) \in Nat
  BY <1>2, PacketFacts DEF Bytes
<1>4. UNCHANGED <<closing, kernel, received>> /\ ~closing
  BY DEF SendPacket
<1> HIDE DEF packet
<1>5. /\ Agrees(received, 0, sent) /\ Agrees(kernel, Len(received), sent)
      /\ Agrees(outBuffer, behind, sent) /\ Follows(queue, behind + Len(outBuffer), sent)
  BY <1>4 DEF InOrder
<1>6. /\ Agrees(received, 0, sent \o packet) /\ Agrees(kernel, Len(received), sent \o packet)
      /\ Agrees(outBuffer, behind, sent \o packet)
  BY <1>1, <1>3, <1>5, AgreesGrows
<1>7. CASE /\ queue = << >>
           /\ outBuffer' = outBuffer \o packet
           /\ sent' = sent \o packet
           /\ UNCHANGED <<queue, overflowed>>
  <2>1. /\ sent \o packet \in Bytes /\ Len(sent \o packet) = Len(sent) + Len(packet)
        /\ Len(outBuffer \o packet) = Len(outBuffer) + Len(packet) /\ Len(sent) \in Nat
    BY <1>1, <1>3 DEF Bytes
  <2>2. behind + Len(outBuffer) = Len(sent)
    BY <1>1, <1>5, <1>7, FollowsEmpty
  <2>3. Agrees(packet, behind + Len(outBuffer), sent \o packet)
    BY <1>1, <1>3, <2>2, AgreesGrows
  <2>4. Agrees(outBuffer \o packet, behind, sent \o packet)
    BY <1>1, <1>3, <1>6, <2>1, <2>3, AgreesConcat
  <2>5. behind + Len(outBuffer \o packet) = Len(sent \o packet) /\ Len(sent \o packet) \in Nat
    BY <1>1, <1>3, <2>1, <2>2
  <2>6. Follows(<< >>, behind + Len(outBuffer \o packet), sent \o packet)
    BY <2>1, <2>5, FollowsEmpty
  <2> QED
    BY <1>4, <1>6, <1>7, <2>4, <2>6 DEF InOrder, packet
<1>8. CASE /\ queue' = Append(queue, packet)
           /\ sent' = sent \o packet
           /\ UNCHANGED <<outBuffer, overflowed>>
  <2>1. Follows(Append(queue, packet), behind + Len(outBuffer), sent \o packet)
    BY <1>1, <1>3, <1>5, FollowsGrows
  <2> QED
    BY <1>4, <1>6, <1>8, <2>1 DEF InOrder, packet
<1> QED
  BY <1>7, <1>8 DEF SendPacket, packet

LEMMA ClientReadsInOrder ==
    ASSUME TypeOK, InOrder, ClientReads
    PROVE  /\ InOrder'
           /\ Len(received) < Len(sent)
           /\ received' = Append(received, sent[Len(received) + 1])
<1>1. /\ sent \in Bytes /\ received \in Bytes /\ kernel \in Bytes /\ outBuffer \in Bytes
      /\ Len(received) \in Nat /\ Len(kernel) \in Nat /\ Len(outBuffer) \in Nat
      /\ kernel # << >>
  BY TypeParts DEF ClientReads, Types, KernelOK, BufferOK, Bytes
<1>2. Agrees(received, 0, sent) /\ Agrees(kernel, Len(received), sent)
  BY DEF InOrder
<1>3. /\ Len(received) < Len(sent) /\ Head(kernel) = sent[Len(received) + 1]
      /\ Len(Append(received, Head(kernel))) = Len(received) + 1
      /\ Len(Tail(kernel)) = Len(kernel) - 1
      /\ Agrees(Append(received, Head(kernel)), 0, sent)
      /\ Agrees(Tail(kernel), Len(received) + 1, sent)
  BY <1>1, <1>2, AgreesHead
<1>4. Len(received) + 1 + (Len(kernel) - 1) = Len(received) + Len(kernel)
  BY <1>1
<1>5. /\ kernel' = Tail(kernel) /\ received' = Append(received, Head(kernel))
      /\ UNCHANGED <<closing, outBuffer, queue, sent>>
  BY DEF ClientReads, bufferVars
<1>6. /\ Agrees(received', 0, sent) /\ Agrees(kernel', Len(received'), sent)
      /\ Len(received') + Len(kernel') = Len(received) + Len(kernel)
  BY <1>3, <1>4, <1>5
<1> QED
  BY <1>3, <1>5, <1>6 DEF InOrder

LEMMA StreamStep ==
    ASSUME TypeOK, StreamInv, [Next]_vars
    PROVE  StreamInv'
<1>1. SUFFICES ASSUME ~overflowed' PROVE InOrder'
  BY DEF StreamInv
<1>2. overflowed \in BOOLEAN
  BY DEF TypeOK
<1> USE DEF bufferVars, historyVars
<1>3. ASSUME NEW size \in Sizes, SendPacket(size) PROVE InOrder'
  <2>1. ~overflowed
    BY <1>1, <1>2, <1>3 DEF SendPacket
  <2> QED
    BY <1>1, <1>3, <2>1, SendPacketInOrder DEF StreamInv
<1>4. CASE HandleOutput
  <2>1. ~overflowed
    BY <1>1, <1>2, <1>4, OutputCases
       DEF NothingIsSent, PartOfBuffer, AllOfBuffer, QueueMoves, NothingMoves, BlockDropped,
           PartMoves, BlockMoves, ConnectionBreaks, MayClose
  <2> QED
    BY <1>1, <1>4, <2>1, HandleOutputInOrder DEF StreamInv
<1>5. CASE ClientReads
  BY <1>1, <1>5, ClientReadsInOrder DEF StreamInv, ClientReads
<1>6. CASE CloseSocket
  BY <1>1, <1>6 DEF StreamInv, CloseSocket, InOrder
<1>7. CASE WritableEvent \/ EventLoopReturns \/ Update \/ Gone \/ UNCHANGED vars
  BY <1>1, <1>7 DEF StreamInv, WritableEvent, EventLoopReturns, Update, Gone, vars, InOrder
<1> QED
  BY <1>3, <1>4, <1>5, <1>6, <1>7 DEF Next, NetworkThread

LEMMA InitStream == Init => StreamInv
<1>1. SUFFICES ASSUME Init PROVE InOrder
  BY DEF StreamInv
<1>2. << >> \in Bytes /\ Len(<< >>) = 0
  BY DEF Bytes
<1>3. Agrees(<< >>, 0, << >>) /\ Follows(<< >>, 0, << >>)
  BY <1>2, FollowsEmpty DEF Agrees
<1>4. received = << >> /\ kernel = << >> /\ outBuffer = << >> /\ queue = << >> /\ sent = << >>
  BY <1>1 DEF Init
<1>5. Len(received) = 0 /\ Len(received) + Len(kernel) = 0
      /\ Len(received) + Len(kernel) + Len(outBuffer) = 0
  BY <1>2, <1>4
<1> QED
  BY <1>3, <1>4, <1>5 DEF InOrder

-----------------------------------------------------------------------------
(* The socket implements the stream.                                       *)

LEMMA StreamInit == Init => Stream!Init
BY DEF Init, Stream!Init

\* What a step of handle_output is to the stream: nothing, the end of the
\* connection, or an overflow.
LEMMA OutputMaps ==
    ASSUME TypeOK, HandleOutput
    PROVE  [Stream!Next]_(Stream!streamVars)
<1>1. UNCHANGED <<encrypted, sent, received>>
  BY OutputCases
<1>2. closing \in BOOLEAN /\ overflowed \in BOOLEAN
  BY DEF TypeOK
<1>3. \/ UNCHANGED <<closing, overflowed>>
      \/ overflowed' = TRUE
      \/ closing' = TRUE /\ UNCHANGED overflowed
  BY <1>2, OutputCases
     DEF NothingIsSent, PartOfBuffer, AllOfBuffer, QueueMoves, NothingMoves, BlockDropped,
         PartMoves, BlockMoves, ConnectionBreaks, MayClose
<1>4. CASE UNCHANGED <<closing, overflowed>>
  BY <1>1, <1>4 DEF Stream!streamVars
<1>5. CASE overflowed' = TRUE
  BY <1>5 DEF Stream!Next, Stream!Overflow
<1>6. CASE closing' = TRUE /\ UNCHANGED overflowed
  <2>1. CASE closing
    BY <1>1, <1>2, <1>6, <2>1 DEF Stream!streamVars
  <2>2. CASE overflowed
    BY <1>6, <2>2 DEF Stream!Next, Stream!Overflow
  <2>3. CASE ~closing /\ ~overflowed
    BY <1>1, <1>6, <2>3 DEF Stream!Next, Stream!Close
  <2> QED
    BY <2>1, <2>2, <2>3
<1> QED
  BY <1>3, <1>4, <1>5, <1>6

LEMMA StepMaps ==
    ASSUME TypeOK, StreamInv, [Next]_vars
    PROVE  [Stream!Next]_(Stream!streamVars)
<1> USE DEF bufferVars, historyVars
<1>1. closing \in BOOLEAN /\ overflowed \in BOOLEAN
  BY DEF TypeOK
<1>2. ASSUME overflowed' = TRUE PROVE [Stream!Next]_(Stream!streamVars)
  BY <1>2 DEF Stream!Next, Stream!Overflow
<1>3. ASSUME NEW size \in Sizes, SendPacket(size)
      PROVE  [Stream!Next]_(Stream!streamVars)
  <2>1. overflowed' \in BOOLEAN /\ (overflowed => overflowed')
    BY <1>1, <1>3 DEF SendPacket
  <2>2. CASE ~overflowed'
    <3>1. ~overflowed /\ InOrder
      BY <2>1, <2>2 DEF StreamInv
    <3>2. sent' = sent \o PacketBytes(encrypted + 1, size) /\ overflowed' = overflowed
      BY <1>3, <2>2, <3>1, SendPacketInOrder
    <3>3. ~closing /\ encrypted' = encrypted + 1 /\ UNCHANGED <<closing, received>>
      BY <1>3 DEF SendPacket
    <3>4. sent' = sent \o Stream!PacketBytes(encrypted', size)
      BY <3>2, <3>3 DEF PacketBytes, Stream!PacketBytes
    <3>5. Stream!Send
      BY <3>2, <3>3, <3>4 DEF Stream!Send
    <3> QED
      BY <3>1, <3>5 DEF Stream!Next
  <2> QED
    BY <1>2, <2>1, <2>2
<1>4. CASE HandleOutput
  BY <1>4, OutputMaps
<1>5. CASE ClientReads
  <2>1. UNCHANGED <<sent, encrypted, closing, overflowed>>
    BY <1>5 DEF ClientReads
  <2>2. CASE ~overflowed
    <3>1. Len(received) < Len(sent) /\ received' = Append(received, sent[Len(received) + 1])
      BY <1>5, <2>2, ClientReadsInOrder DEF StreamInv
    <3> QED
      BY <2>1, <2>2, <3>1 DEF Stream!Next, Stream!Receive
  <2> QED
    BY <1>1, <1>2, <2>1, <2>2
<1>6. CASE CloseSocket
  <2>1. CASE ~overflowed
    BY <1>6, <2>1 DEF CloseSocket, Stream!Next, Stream!Close
  <2> QED
    BY <1>1, <1>2, <1>6, <2>1 DEF CloseSocket
<1>7. CASE WritableEvent \/ EventLoopReturns \/ Update \/ Gone \/ UNCHANGED vars
  BY <1>7 DEF WritableEvent, EventLoopReturns, Update, Gone, vars, Stream!streamVars
<1> QED
  BY <1>3, <1>4, <1>5, <1>6, <1>7 DEF Next, NetworkThread

\* The safety part of ImplementsStream. Until the queue overflows, the client
\* reads the bytes of the packets SendPacket accepted, in the order of their
\* encryption, none missing, none twice: whatever threads send, however
\* handle_output splits what the kernel does not take, and whenever it closes.
THEOREM SocketImplementsStream == Spec => Stream!Init /\ [][Stream!Next]_(Stream!streamVars)
<1>1. Init => TypeOK /\ StreamInv
  BY InitTypes, InitStream
<1>2. (TypeOK /\ StreamInv) /\ [Next]_vars => (TypeOK /\ StreamInv)'
  BY TypeStep, StreamStep
<1>3. (TypeOK /\ StreamInv) /\ [Next]_vars => [Stream!Next]_(Stream!streamVars)
  BY StepMaps
<1> QED
  BY <1>1, <1>2, <1>3, StreamInit, PTL DEF Spec

=============================================================================
