---------------------------- MODULE SocketOutput ----------------------------
(***************************************************************************)
(* The output path of a WorldSocket. SendPacket, called by any thread,     *)
(* encrypts the header and puts the packet into the output buffer or, once *)
(* that is full, into a queue of message blocks. The network thread writes *)
(* both to the kernel: from Update, or from the reactor when the socket    *)
(* becomes writable after the kernel took less than it was given.          *)
(*                                                                         *)
(* Each critical section of m_OutBufferLock is one step.                   *)
(***************************************************************************)
EXTENDS Naturals, SequencesExt

CONSTANTS
    Sizes,              \* the sizes of packets, header included
    OutBufferSize,      \* m_OutBufferSize
    HighWaterMark,      \* msg_queue()->high_water_mark
    KernelSize,         \* what the kernel takes before send() would block
    MaxPackets          \* bound: packets sent

ASSUME OutputAssumption ==
    /\ Sizes \subseteq Nat \ {0} /\ Sizes # {}
    /\ OutBufferSize \in Nat \ {0}
    /\ HighWaterMark \in Nat \ {0}
    /\ KernelSize \in Nat \ {0}
    /\ MaxPackets \in Nat

VARIABLES
    closing,        \* closing_
    outBuffer,      \* the bytes in m_OutBuffer
    queue,          \* msg_queue(): a block is the bytes of a packet still to send
    outActive,      \* m_OutActive: the reactor waits for the socket to be writable
    encrypted,      \* headers m_Crypt has encrypted
    kernel,         \* bytes the kernel has taken and the client has not read
    netPc,          \* where the network thread is
    sent,           \* history: the bytes of the packets SendPacket accepted
    received,       \* history: the bytes the client has read
    overflowed      \* history: a block was dropped

bufferVars == <<outBuffer, queue, encrypted>>
historyVars == <<sent, received, overflowed>>
vars == <<closing, bufferVars, outActive, kernel, netPc, historyVars>>

Byte == (1..MaxPackets) \X UNION {1..size : size \in Sizes}

TypeOK ==
    /\ closing \in BOOLEAN
    /\ outBuffer \in Seq(Byte) /\ Len(outBuffer) <= OutBufferSize
    /\ queue \in Seq(Seq(Byte)) /\ \A i \in 1..Len(queue) : queue[i] # << >>
    /\ outActive \in BOOLEAN
    /\ encrypted \in 0..MaxPackets
    /\ kernel \in Seq(Byte) /\ Len(kernel) <= KernelSize
    /\ netPc \in {"reactor", "event", "update", "output", "gone"}
    /\ sent \in Seq(Byte)
    /\ received \in Seq(Byte)
    /\ overflowed \in BOOLEAN

\* open() sets m_OutActive before anything is sent: the first writable event
\* resets it.
Init ==
    /\ closing = FALSE
    /\ outBuffer = << >>
    /\ queue = << >>
    /\ outActive = TRUE
    /\ encrypted = 0
    /\ kernel = << >>
    /\ netPc = "reactor"
    /\ sent = << >>
    /\ received = << >>
    /\ overflowed = FALSE

-----------------------------------------------------------------------------
(* The message queue refuses a block when it already holds that many bytes *)
(* or more: the timeout of every call is zero. A block counts with the     *)
(* size it was made with, which is the index of its last byte.             *)

IsFull(q) == FoldLeft(LAMBDA bytes, block : bytes + Last(block)[2], 0, q) >= HighWaterMark

PacketBytes(n, size) == [i \in 1..size |-> <<n, i>>]

\* Mutant: a small packet is put into the buffer while others wait in the queue.
SendPacket_PastQueue(size) ==
    LET packet == PacketBytes(encrypted + 1, size) IN
    /\ ~closing
    /\ encrypted < MaxPackets
    /\ encrypted' = encrypted + 1
    /\ IF OutBufferSize - Len(outBuffer) >= size
       THEN /\ outBuffer' = outBuffer \o packet
            /\ sent' = sent \o packet
            /\ UNCHANGED <<queue, overflowed>>
       ELSE IF ~IsFull(queue)
       THEN /\ queue' = Append(queue, packet)
            /\ sent' = sent \o packet
            /\ UNCHANGED <<outBuffer, overflowed>>
       ELSE /\ overflowed' = TRUE
            /\ UNCHANGED <<outBuffer, queue, sent>>
    /\ UNCHANGED <<closing, outActive, kernel, netPc, received>>

\* SendPacket. The header is encrypted first: a packet the full queue refuses
\* leaves a gap that the cipher of the client cannot follow.
SendPacket(size) ==
    LET packet == PacketBytes(encrypted + 1, size) IN
    /\ ~closing
    /\ encrypted < MaxPackets
    /\ encrypted' = encrypted + 1
    /\ IF OutBufferSize - Len(outBuffer) >= size /\ queue = << >>
       THEN /\ outBuffer' = outBuffer \o packet
            /\ sent' = sent \o packet
            /\ UNCHANGED <<queue, overflowed>>
       ELSE IF ~IsFull(queue)
       THEN /\ queue' = Append(queue, packet)
            /\ sent' = sent \o packet
            /\ UNCHANGED <<outBuffer, overflowed>>
       ELSE /\ overflowed' = TRUE
            /\ UNCHANGED <<outBuffer, queue, sent>>
    /\ UNCHANGED <<closing, outActive, kernel, netPc, received>>

\* The first critical section of CloseSocket, called by another thread, and of
\* handle_close when the reactor gives the socket up.
CloseSocket ==
    /\ ~closing
    /\ closing' = TRUE
    /\ UNCHANGED <<bufferVars, outActive, kernel, netPc, historyVars>>

-----------------------------------------------------------------------------
(* handle_output. It returns to Update ("output") or to the reactor        *)
(* ("event"): a positive value means call again.                           *)

Again == UNCHANGED <<netPc, closing>>
Done == netPc' = "reactor" /\ UNCHANGED closing

\* A network error or a closed connection: Update's caller closes the socket
\* and drops it, the reactor calls handle_close.
Failed ==
    /\ closing' = TRUE
    /\ netPc' = IF netPc = "output" THEN "gone" ELSE "reactor"

\* schedule_wakeup_output and cancel_wakeup_output: the reactor may refuse.
WakeUp(wanted) ==
    /\ outActive' = wanted
    /\ \/ Done
       \/ outActive # wanted /\ Failed

\* send() with k in the kernel takes the first n bytes of what it is given.
Takes(k, data, n) ==
    /\ n \in 1..Len(data)
    /\ Len(k) + n <= KernelSize
    /\ kernel' = k \o SubSeq(data, 1, n)

\* Mutant: a block that was sent completely is put back like one sent in part.
HandleOutputQueue_KeepEmpty(k) ==
    IF queue = << >>
    THEN kernel' = k /\ WakeUp(FALSE) /\ UNCHANGED <<queue, overflowed>>
    ELSE \E n \in 0..Len(Head(queue)) :
         /\ Len(k) + n <= KernelSize
         /\ kernel' = k \o SubSeq(Head(queue), 1, n)
         /\ queue' = <<SubSeq(Head(queue), n + 1, Len(Head(queue)))>> \o Tail(queue)
         /\ WakeUp(TRUE)
         /\ UNCHANGED overflowed

\* handle_output_queue after k is in the kernel: the block at the head is taken
\* out and, if the kernel does not take all of it, what is left is put back. A
\* queue that is over its mark without the block refuses that.
HandleOutputQueue(k) ==
    IF queue = << >>
    THEN /\ kernel' = k
         /\ WakeUp(FALSE)
         /\ UNCHANGED <<queue, overflowed>>
    ELSE LET block == Head(queue)
             rest  == Tail(queue)
         IN
         \/ /\ Len(k) = KernelSize
            /\ kernel' = k
            /\ queue' = IF IsFull(rest) THEN rest ELSE queue
            /\ overflowed' = (overflowed \/ IsFull(rest))
            /\ WakeUp(TRUE)
         \/ \E n \in 1..(Len(block) - 1) :
            /\ Takes(k, block, n)
            /\ IF IsFull(rest)
               THEN queue' = rest /\ Failed /\ UNCHANGED outActive
               ELSE /\ queue' = <<SubSeq(block, n + 1, Len(block))>> \o rest
                    /\ WakeUp(TRUE)
            /\ UNCHANGED overflowed
         \/ /\ Takes(k, block, Len(block))
            /\ queue' = rest
            /\ IF rest = << >> THEN WakeUp(FALSE) ELSE Again /\ UNCHANGED outActive
            /\ UNCHANGED overflowed
         \/ /\ kernel' = k
            /\ queue' = rest
            /\ Failed
            /\ UNCHANGED <<outActive, overflowed>>

\* handle_output: the buffer comes before the queue.
HandleOutput ==
    /\ netPc \in {"output", "event"}
    /\ IF closing
       THEN Failed /\ UNCHANGED <<outBuffer, queue, outActive, kernel, overflowed>>
       ELSE IF outBuffer = << >>
       THEN HandleOutputQueue(kernel) /\ UNCHANGED outBuffer
       ELSE \/ /\ Len(kernel) = KernelSize
               /\ WakeUp(TRUE)
               /\ UNCHANGED <<outBuffer, queue, kernel, overflowed>>
            \/ \E n \in 1..(Len(outBuffer) - 1) :
               /\ Takes(kernel, outBuffer, n)
               /\ outBuffer' = SubSeq(outBuffer, n + 1, Len(outBuffer))
               /\ WakeUp(TRUE)
               /\ UNCHANGED <<queue, overflowed>>
            \/ /\ Len(kernel) + Len(outBuffer) <= KernelSize
               /\ outBuffer' = << >>
               /\ HandleOutputQueue(kernel \o outBuffer)
            \/ Failed /\ UNCHANGED <<outBuffer, queue, outActive, kernel, overflowed>>
    /\ UNCHANGED <<encrypted, sent, received>>

-----------------------------------------------------------------------------
(* The rest of the network thread, and the client.                         *)

\* The reactor reports that the socket is writable. (If it was closed meanwhile
\* handle_output returns at once and handle_close removes the handler.)
WritableEvent ==
    /\ netPc = "reactor"
    /\ outActive /\ ~closing
    /\ Len(kernel) < KernelSize
    /\ netPc' = "event"
    /\ UNCHANGED <<closing, bufferVars, outActive, kernel, historyVars>>

\* The event loop returns after 10 ms and Update is called for every socket.
EventLoopReturns ==
    /\ netPc = "reactor"
    /\ netPc' = "update"
    /\ UNCHANGED <<closing, bufferVars, outActive, kernel, historyVars>>

\* Update leaves a socket the reactor waits for alone.
Update ==
    /\ netPc = "update"
    /\ netPc' = CASE closing -> "gone"
                  [] ~closing /\ (outActive \/ outBuffer \o FlattenSeq(queue) = << >>) -> "reactor"
                  [] OTHER -> "output"
    /\ UNCHANGED <<closing, bufferVars, outActive, kernel, historyVars>>

ClientReads ==
    /\ kernel # << >>
    /\ kernel' = Tail(kernel)
    /\ received' = Append(received, Head(kernel))
    /\ UNCHANGED <<closing, bufferVars, outActive, netPc, sent, overflowed>>

\* The socket has been dropped.
Gone == netPc = "gone" /\ UNCHANGED vars

NetworkThread == HandleOutput \/ WritableEvent \/ EventLoopReturns \/ Update

Next ==
    \/ NetworkThread
    \/ \E size \in Sizes : SendPacket(size)
    \/ CloseSocket
    \/ ClientReads
    \/ Gone

\* The network thread goes round and its reactor passes over no socket that is
\* ready again and again; the client reads what has arrived.
Fairness == WF_vars(NetworkThread) /\ SF_vars(WritableEvent) /\ WF_vars(ClientReads)

Spec == Init /\ [][Next]_vars /\ Fairness

-----------------------------------------------------------------------------
Stream == INSTANCE PacketStream
    WITH count <- encrypted, open <- ~closing

\* Until the queue overflows, whatever threads call SendPacket and however the
\* kernel splits what it is given, the client reads what was sent, in order, with
\* a cipher that keeps up; and as long as the connection is open it reads all.
ImplementsStream == Stream!Spec
=============================================================================
