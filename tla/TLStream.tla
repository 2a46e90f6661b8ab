------------------------------ MODULE TLStream ------------------------------
(***************************************************************************)
(* A Transport Layer stream (common/tlstream.c, tlserver.c): a ring of     *)
(* packets from the writers in the driver to one reader in user space.  A  *)
(* writer reserves room, fills it and commits; ui32Pending is the lock it  *)
(* holds meanwhile.  When the ring is full the writer waits (BLOCK), gives *)
(* up and leaves a mark (DROP_NEWER), or moves the read offset past the    *)
(* oldest packets (DROP_OLDEST), unless bReadPending says that the reader  *)
(* is looking at them.  The reader takes no lock while it reads.           *)
(*                                                                         *)
(* Sizes and offsets count PVRSRVTL_PACKET_ALIGNMENT, the size of a packet *)
(* header; packets are told apart by their size.                           *)
(***************************************************************************)
EXTENDS Integers, Sequences

CONSTANTS
    Writers,
    PacketSizes,          \* what writers reserve, with the header
    ui32Size,             \* size of the ring
    FivePercent,          \* 5 * (ui32Size / 100)
    OpModes,              \* the modes the stream is ever in
    ReconfigureAnyTime    \* TLStreamReconfigure also while data is acquired

RESERVED == 2             \* BUFFER_RESERVED_SPACE

\* GET_TL_MAX_PACKET_SIZE keeps a packet and its padding smaller than the ring.
ASSUME TLStreamAssumption ==
    /\ ui32Size \in Nat /\ FivePercent \in 0..(ui32Size - RESERVED)
    /\ PacketSizes \subseteq {s \in Nat \ {0} : 2 * s - 1 <= ui32Size - RESERVED}
    /\ OpModes # {} /\ OpModes \subseteq {"BLOCK", "DROP_NEWER", "DROP_OLDEST"}
    /\ ReconfigureAnyTime \in BOOLEAN

Data(s)    == [type |-> "DATA", size |-> s]
Padding(s) == [type |-> "PADDING", size |-> s]
WriteFailed == [type |-> "MOST_RECENT_WRITE_FAILED", size |-> 1]
Packets    == {Data(s) : s \in PacketSizes} \cup {WriteFailed}
Headers    == Packets \cup {Padding(s) : s \in 1..ui32Size}
Body       == [type |-> "BODY", size |-> 0]
Garbage    == [type |-> "GARBAGE", size |-> 0]

NOTHING_PENDING == -1

VARIABLES
    buf,            \* pbyBuffer
    ui32Read,
    ui32Write,
    ui32Pending,
    eOpMode,
    bReadPending,
    pc,             \* where each writer is
    local,          \* its request and its copies of the offsets
    reader,         \* where the reader is
    acquired        \* what it has been given: offset and length

offsets == <<ui32Read, ui32Write>>
writerVars == <<pc, local>>
readerVars == <<reader, acquired>>
vars == <<buf, offsets, ui32Pending, eOpMode, bReadPending, writerVars, readerVars>>

Offsets == 0..(ui32Size - 1)
Nothing == [offset |-> 0, len |-> 0]
NoRequest == [size |-> 0, read |-> 0, write |-> 0]

\* Types.  The writer past the reservation is the one whose request
\* ui32Pending stands for.
TypeOK ==
    /\ buf \in [Offsets -> Headers \cup {Body, Garbage}]
    /\ ui32Read \in Offsets /\ ui32Write \in Offsets
    /\ ui32Pending \in PacketSizes \cup {0, NOTHING_PENDING}
    /\ eOpMode \in OpModes /\ bReadPending \in BOOLEAN
    /\ pc \in [Writers -> {"idle", "space", "wait", "readlock", "drop", "header", "commit"}]
    /\ local \in [Writers -> [size : PacketSizes \cup {0}, read : Offsets, write : Offsets]]
    /\ reader \in {"closed", "reset", "idle", "empty", "reading"}
    /\ acquired \in [offset : Offsets, len : 0..ui32Size]
    /\ \A w \in Writers : pc[w] = "commit" => ui32Pending = local[w].size

\* TLStreamCreate
Init ==
    /\ buf = [o \in Offsets |-> Garbage]
    /\ ui32Read = 0 /\ ui32Write = 0
    /\ ui32Pending = NOTHING_PENDING
    /\ eOpMode \in OpModes
    /\ bReadPending = FALSE
    /\ pc = [w \in Writers |-> "idle"] /\ local = [w \in Writers |-> NoRequest]
    /\ reader = "closed" /\ acquired = Nothing

-----------------------------------------------------------------------------
(* The ring.                                                               *)

\* circbufSpaceLeft: negative when a mark has used up the reserve.
SpaceLeft(r, w) == (IF r > w THEN r - w ELSE ui32Size - (w - r)) - RESERVED

\* A packet does not wrap: what is left before the end becomes padding.
Pad(q) == IF ui32Size < q.write + q.size THEN ui32Size - q.write ELSE 0

ReqSizeActual(q) == q.size + Pad(q)
HasSpace(q) == SpaceLeft(q.read, q.write) >= ReqSizeActual(q)

\* The memory with a packet written at o.
Written(mem, o, h) ==
    [i \in Offsets |-> CASE i = o                            -> h
                         [] i \in (o + 1)..(o + h.size - 1) -> Body
                         [] OTHER                            -> mem[i]]

\* Distance from a to b along the ring.
Distance(a, b) == (b - a) % ui32Size

\* What the reader is past is of no interest to anybody.
Forgotten(from, to) ==
    [o \in Offsets |-> IF Distance(from, o) < Distance(from, to) THEN Garbage ELSE buf[o]]

Goto(w, where) == pc' = [pc EXCEPT ![w] = where]

-----------------------------------------------------------------------------
(* DoTLStreamReserve, TLStreamCommit.                                      *)

\* Under hStreamWLock.  With a reservation pending the caller gets NOT_READY
\* and nothing changes.
MayReserve_mutant == ui32Pending # 0
MayReserve == ui32Pending = NOTHING_PENDING

Reserve(w, s) ==
    /\ pc[w] = "idle"
    /\ MayReserve
    /\ ui32Pending' = 0
    /\ local' = [local EXCEPT ![w] = [size |-> s, read |-> ui32Read, write |-> ui32Write]]
    /\ Goto(w, "space")
    /\ UNCHANGED <<buf, offsets, eOpMode, bReadPending, readerVars>>

LookForSpace(w) ==
    /\ pc[w] = "space"
    /\ HasSpace(local[w]) \/ eOpMode # "DROP_NEWER"
    /\ Goto(w, IF HasSpace(local[w]) THEN "header"
               ELSE IF eOpMode = "BLOCK" THEN "wait" ELSE "readlock")
    /\ UNCHANGED <<buf, offsets, ui32Pending, eOpMode, bReadPending, local, readerVars>>

\* The timed wait for the producer event ends, the offsets are read again.
Wake(w) ==
    /\ pc[w] = "wait"
    /\ local' = [local EXCEPT ![w].read = ui32Read, ![w].write = ui32Write]
    /\ HasSpace(local'[w])
    /\ Goto(w, "header")
    /\ UNCHANGED <<buf, offsets, ui32Pending, eOpMode, bReadPending, readerVars>>

\* hReadLock is taken, and dropped again for a timed wait while a read is
\* pending; it is kept only when packets have to go.
ReaderAway_mutant == TRUE
ReaderAway == ~bReadPending

LockRead(w) ==
    /\ pc[w] = "readlock"
    /\ ReaderAway
    /\ local' = [local EXCEPT ![w].read = ui32Read]
    /\ Goto(w, IF HasSpace(local'[w]) THEN "header" ELSE "drop")
    /\ UNCHANGED <<buf, offsets, ui32Pending, eOpMode, bReadPending, readerVars>>

\* ui32CreateFreeSpace has been reached.  The comparison is unsigned: a
\* negative space is larger than any request.
EnoughDropped(q) ==
    \/ SpaceLeft(q.read, q.write) < 0
    \/ SpaceLeft(q.read, q.write) >= ReqSizeActual(q)
       /\ SpaceLeft(q.read, q.write) >= FivePercent

\* The packet behind the one at o.
NextPacket(o) == IF o + buf[o].size >= ui32Size THEN 0 ELSE o + buf[o].size

DropOldest(w) ==
    /\ pc[w] = "drop"
    /\ ~EnoughDropped(local[w])
    /\ local' = [local EXCEPT ![w].read = NextPacket(@)]
    /\ UNCHANGED <<buf, offsets, ui32Pending, eOpMode, bReadPending, pc, readerVars>>

\* The read offset passes the dropped packets and hReadLock is released.
Dropped(w) ==
    /\ pc[w] = "drop"
    /\ EnoughDropped(local[w])
    /\ ui32Read' = local[w].read
    /\ buf' = Forgotten(ui32Read, local[w].read)
    /\ Goto(w, "header")
    /\ UNCHANGED <<ui32Write, ui32Pending, eOpMode, bReadPending, local, readerVars>>

\* DROP_NEWER: a mark is left unless there is one, or something that looks
\* like one, right before; or the caller does not want it.
DropNewer(w) ==
    /\ pc[w] = "space"
    /\ ~HasSpace(local[w]) /\ eOpMode = "DROP_NEWER"
    /\ LET o == local[w].write IN
       \/ /\ buf[(o - 1) % ui32Size] # WriteFailed
          /\ buf' = Written(buf, o, WriteFailed)
          /\ ui32Write' = (o + 1) % ui32Size
       \/ UNCHANGED <<buf, ui32Write>>
    /\ ui32Pending' = NOTHING_PENDING
    /\ local' = [local EXCEPT ![w] = NoRequest]
    /\ Goto(w, "idle")
    /\ UNCHANGED <<ui32Read, eOpMode, bReadPending, readerVars>>

\* Padding and header are written, the padding is published.
WriteHeader(w) ==
    /\ pc[w] = "header"
    /\ HasSpace(local[w])
    /\ LET q == local[w]
           o == IF Pad(q) > 0 THEN 0 ELSE q.write
           padded == IF Pad(q) > 0 THEN Written(buf, q.write, Padding(Pad(q))) ELSE buf
       IN  /\ buf' = Written(padded, o, Data(q.size))
           /\ ui32Write' = o
           /\ ui32Pending' = q.size
    /\ Goto(w, "commit")
    /\ UNCHANGED <<ui32Read, eOpMode, bReadPending, local, readerVars>>

\* PVRSRV_ERROR_STREAM_ERROR: no packet could be dropped.
ReserveFails(w) ==
    /\ pc[w] = "header"
    /\ ~HasSpace(local[w])
    /\ ui32Pending' = NOTHING_PENDING
    /\ local' = [local EXCEPT ![w] = NoRequest]
    /\ Goto(w, "idle")
    /\ UNCHANGED <<buf, offsets, eOpMode, bReadPending, readerVars>>

Commit(w) ==
    /\ pc[w] = "commit"
    /\ ui32Write' = (ui32Write + local[w].size) % ui32Size
    /\ ui32Pending' = NOTHING_PENDING
    /\ local' = [local EXCEPT ![w] = NoRequest]
    /\ Goto(w, "idle")
    /\ UNCHANGED <<buf, ui32Read, eOpMode, bReadPending, readerVars>>

\* TLStreamReconfigure
Reconfigure ==
    /\ MayReserve
    /\ ReconfigureAnyTime \/ reader \in {"closed", "reset", "idle"}
    /\ eOpMode' \in OpModes \ {eOpMode}
    /\ UNCHANGED <<buf, offsets, ui32Pending, bReadPending, writerVars, readerVars>>

-----------------------------------------------------------------------------
(* The reader: tlserver.c, TLStreamAcquireReadPos, TLStreamAdvanceReadPos. *)

\* TLServerOpenStreamKM: there is one reader at a time.
Open ==
    /\ reader = "closed"
    /\ reader' \in {"idle", "reset"}
    /\ UNCHANGED <<buf, offsets, ui32Pending, eOpMode, bReadPending, writerVars, acquired>>

\* TLStreamReset waits until no reservation is pending.
Reset ==
    /\ reader = "reset"
    /\ MayReserve
    /\ ui32Read' = 0 /\ ui32Write' = 0
    /\ buf' = [o \in Offsets |-> Garbage]
    /\ reader' = "idle"
    /\ UNCHANGED <<ui32Pending, eOpMode, bReadPending, writerVars, acquired>>

Lossy == eOpMode = "DROP_OLDEST"

\* hReadLock can be had, and is given back within the action; when it cannot
\* be had the caller is told that there is nothing.
ReadUnlocked == \A w \in Writers : pc[w] # "drop"

\* One contiguous piece: up to the end of the ring when it has wrapped.
Acquire ==
    /\ reader = "idle"
    /\ Lossy => ReadUnlocked
    /\ bReadPending' = (bReadPending \/ Lossy)
    /\ IF ui32Read = ui32Write
       THEN /\ reader' = IF Lossy THEN "empty" ELSE "idle"
            /\ UNCHANGED acquired
       ELSE /\ reader' = "reading"
            /\ acquired' = [offset |-> ui32Read,
                            len |-> IF ui32Read > ui32Write THEN ui32Size - ui32Read
                                    ELSE ui32Write - ui32Read]
    /\ UNCHANGED <<buf, offsets, ui32Pending, eOpMode, writerVars>>

PendingEnds_mutant == bReadPending' = bReadPending
PendingEnds == bReadPending' = (bReadPending /\ ~Lossy)

NothingThere ==
    /\ reader = "empty"
    /\ PendingEnds
    /\ reader' = "idle"
    /\ UNCHANGED <<buf, offsets, ui32Pending, eOpMode, writerVars, acquired>>

\* All that was acquired, or less of it up to a packet.
Release ==
    /\ reader = "reading"
    /\ \E n \in 1..acquired.len :
           /\ n = acquired.len \/ buf[(ui32Read + n) % ui32Size] \in Headers
           /\ ui32Read' = (ui32Read + n) % ui32Size
           /\ buf' = Forgotten(ui32Read, (ui32Read + n) % ui32Size)
    /\ PendingEnds
    /\ reader' = "idle"
    /\ acquired' = Nothing
    /\ UNCHANGED <<ui32Write, ui32Pending, eOpMode, writerVars>>

\* TLServerCloseStreamKM, also for a process that dies: bReadPending stays.
Close ==
    /\ reader \in {"idle", "reading"}
    /\ reader' = "closed"
    /\ acquired' = Nothing
    /\ UNCHANGED <<buf, offsets, ui32Pending, eOpMode, bReadPending, writerVars>>

-----------------------------------------------------------------------------
Write(w) ==
    \/ \E s \in PacketSizes : Reserve(w, s)
    \/ LookForSpace(w) \/ Wake(w) \/ LockRead(w) \/ DropOldest(w) \/ Dropped(w)
    \/ DropNewer(w) \/ WriteHeader(w) \/ ReserveFails(w) \/ Commit(w)

Next ==
    \/ \E w \in Writers : Write(w)
    \/ Reconfigure
    \/ Open \/ Reset \/ Acquire \/ NothingThere \/ Release \/ Close

Spec == Init /\ [][Next]_vars

\* A writer goes on; its look at bReadPending every 100 ms falls sooner or
\* later into the 168 ms for which a reader without data sleeps; a reader
\* that is there reads, and gives back what it holds or closes the stream.
Fairness ==
    /\ \A w \in Writers :
           /\ WF_vars(LookForSpace(w)) /\ WF_vars(Wake(w)) /\ SF_vars(LockRead(w))
           /\ WF_vars(DropOldest(w)) /\ WF_vars(Dropped(w)) /\ WF_vars(DropNewer(w))
           /\ WF_vars(WriteHeader(w)) /\ WF_vars(ReserveFails(w)) /\ WF_vars(Commit(w))
    /\ WF_vars(Acquire) /\ WF_vars(NothingThere) /\ WF_vars(Release)

LiveSpec == Spec /\ Fairness

-----------------------------------------------------------------------------
(* What makes a stream correct.                                            *)

\* The packets from the read offset over a distance of len, without padding.
Unread == Distance(ui32Read, ui32Write)
Walk(len) ==
    LET from[n \in 0..(2 * ui32Size)] ==
            IF n >= len THEN <<>>
            ELSE LET h == buf[(ui32Read + n) % ui32Size] IN
                 CASE h \in Packets           -> <<h>> \o from[n + h.size]
                   [] h \in Headers \ Packets -> from[n + h.size]
                   [] OTHER                   -> <<Garbage>>
    IN  from[0]

\* Packets that the reader has acquired; more than there are when the read
\* offset has moved under it.
HeldPackets ==
    IF acquired.len = 0 THEN 0
    ELSE IF acquired.offset = ui32Read THEN Len(Walk(acquired.len))
    ELSE ui32Size

\* What the reader gets are the committed packets, whole, once and in order;
\* packets are lost in drop-oldest mode only, the oldest first, and never
\* while the reader has acquired them (tlstream.c:754, 1499).
Fifo     == INSTANCE LossyFifo WITH queue <- Walk(Unread),
                                    held <- HeldPackets, mayDrop <- Lossy
FifoSpec == Fifo!Spec

\* A writer that found the ring full is not kept waiting for ever while there
\* is a reader: in BLOCK mode it waits for one, in drop-oldest mode only for
\* the successor of a reader that closed the stream with data acquired
\* (tlstream.c:804).  A reader that opens the stream and wants it reset is no
\* help: it waits for the writer (tlstream.c:401).
WritersProceed ==
    \A w \in Writers :
        pc[w] \in {"wait", "readlock"} ~>
            \/ pc[w] \notin {"wait", "readlock"}
            \/ reader \in {"closed", "reset"} /\ (eOpMode = "BLOCK" \/ bReadPending)

-----------------------------------------------------------------------------
(* What a comment of the code says and the code does not do.               *)

\* In drop-oldest mode, "there is enough space now to write the data" once
\* packets have been dropped (tlstream.c:846).
DropOldestAccepts ==
    \A w \in Writers : pc[w] = "header" /\ Lossy => HasSpace(local[w])
=============================================================================
