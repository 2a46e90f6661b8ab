---------------------------- MODULE TLStreamProofs ----------------------------
(***************************************************************************)
(* Proofs about TLStream for every set of writers, every ring and packet   *)
(* size: the types, and that the stream implements LossyFifo as long as    *)
(* its mode is not changed while a reader holds data.                      *)
(***************************************************************************)
EXTENDS TLStream, SequenceTheorems, WellFoundedInduction, TLAPS

-----------------------------------------------------------------------------
(* The inductive invariant.                                                *)

\* Where the cell at a distance of d behind an offset is, and the ring as the
\* reader sees it: cells counted from the read offset on.
At(r, d) == IF r + d < ui32Size THEN r + d ELSE r + d - ui32Size
Ahead(a, b) == IF a <= b THEN b - a ELSE b + ui32Size - a
View     == [d \in Offsets |-> buf[At(ui32Read, d)]]

\* The first u cells of a view are whole packets, padding and marks.
Framed(g, u) ==
    /\ u > 0 => g[0] \in Headers
    /\ \A d \in Offsets : d < u => g[d] \in Headers \cup {Body}
    /\ \A d \in Offsets : d < u /\ g[d] \in Headers =>
          /\ d + g[d].size <= u
          /\ \A j \in Offsets : d < j /\ j < d + g[d].size => g[j] = Body
          /\ d + g[d].size < u => g[d + g[d].size] \in Headers

\* Where one of them begins, or the last one ends.
Starts(g, u) == {d \in 0..u : d = u \/ g[d] \in Headers}

\* What can be read is framed and does not wrap within a packet, and the ring
\* is filled to the last cell but one by a mark only.
Ring ==
    /\ Framed(View, Unread)
    /\ buf[0] # Body
    /\ Unread + 1 = ui32Size => View[ui32Size - 2] = WriteFailed

\* One writer has a reservation at a time, and nothing else moves the write
\* offset or changes the mode meanwhile.
Busy(w) == pc[w] # "idle"
Alone == \A v, w \in Writers : Busy(v) /\ Busy(w) => v = w

Reserved ==
    \A w \in Writers : Busy(w) =>
        /\ local[w].size \in PacketSizes
        /\ pc[w] # "commit" => ui32Pending = 0

\* The offsets a writer has looked at: the read offset may have moved on since.
Sampled(w) ==
    /\ local[w].write = ui32Write
    /\ Ahead(local[w].read, ui32Read) + Unread = Ahead(local[w].read, ui32Write)

\* A writer that drops packets keeps the reader away, and looks for room at the
\* end of one of them.
Dropping(w) ==
    /\ Lossy /\ ~bReadPending
    /\ local[w].write = ui32Write
    /\ Ahead(ui32Read, local[w].read) \in Starts(View, Unread)

\* A packet that waits for its commit lies behind what can be read.
Room(u, s) == u + s + RESERVED <= ui32Size
Laid(g, u, h) == g[u] = h /\ \A j \in Offsets : u < j /\ j < u + h.size => g[j] = Body

Committing(w) ==
    /\ Room(Unread, local[w].size)
    /\ ui32Write + local[w].size <= ui32Size
    /\ Laid(View, Unread, Data(local[w].size))

Writing ==
    \A w \in Writers :
        /\ pc[w] \in {"space", "wait", "readlock", "header"} => Sampled(w)
        /\ pc[w] = "readlock" => Lossy
        /\ pc[w] = "drop" => Dropping(w)
        /\ pc[w] = "commit" => Committing(w)

\* What the reader has acquired is still there.
Reading ==
    /\ reader = "reading" =>
          /\ acquired.offset = ui32Read
          /\ acquired.len \in Starts(View, Unread) \ {0}
    /\ reader # "reading" => acquired.len = 0
    /\ reader \in {"reading", "empty"} /\ Lossy => bReadPending

ReservedInv == TypeOK /\ Alone /\ Reserved
StreamInv == ReservedInv /\ Ring /\ Writing /\ Reading

-----------------------------------------------------------------------------
(* Lemmas about the operators of the module.                               *)

\* The sizes of the ring and of packets.
LEMMA SizeIs ==
    /\ ui32Size \in Nat /\ ui32Size >= 2 /\ FivePercent \in 0..(ui32Size - 2)
    /\ \A s \in PacketSizes : s \in Nat \ {0} /\ 2 * s - 1 <= ui32Size - 2 /\ s < ui32Size
<1>1. ui32Size \in Nat /\ FivePercent \in 0..(ui32Size - 2)
  BY TLStreamAssumption DEF RESERVED
<1>2. \A s \in PacketSizes : s \in Nat \ {0} /\ 2 * s - 1 <= ui32Size - 2
  BY TLStreamAssumption DEF RESERVED
<1>3. QED
  BY <1>1, <1>2

\* Headers have a size, and are neither bodies nor garbage.
LEMMA HeadersAre ==
    /\ Body \notin Headers /\ Garbage \notin Headers /\ Body # Garbage
    /\ Packets \subseteq Headers
    /\ \A h \in Headers : h.size \in 1..ui32Size
    /\ WriteFailed \in Packets /\ WriteFailed.size = 1
    /\ \A s \in PacketSizes : Data(s) \in Packets /\ Data(s).size = s
    /\ \A s \in 1..ui32Size :
          Padding(s) \in Headers /\ Padding(s) \notin Packets /\ Padding(s).size = s
<1>1. /\ Body.type = "BODY" /\ Garbage.type = "GARBAGE"
      /\ \A s : Data(s).type = "DATA" /\ Data(s).size = s
      /\ \A s : Padding(s).type = "PADDING" /\ Padding(s).size = s
      /\ WriteFailed.type = "MOST_RECENT_WRITE_FAILED" /\ WriteFailed.size = 1
  BY DEF Body, Garbage, Data, Padding, WriteFailed
<1>2. /\ \A h \in Packets : h.type \in {"DATA", "MOST_RECENT_WRITE_FAILED"}
      /\ \A h \in Packets : h.size \in PacketSizes \cup {1}
      /\ WriteFailed \in Packets
      /\ \A s \in PacketSizes : Data(s) \in Packets
  BY <1>1 DEF Packets
<1>3. /\ \A h \in Headers : h \in Packets \/ \E s \in 1..ui32Size : h = Padding(s)
      /\ Packets \subseteq Headers
      /\ \A s \in 1..ui32Size : Padding(s) \in Headers
  BY DEF Headers
<1>4. \A h \in Headers : h.type \in {"DATA", "MOST_RECENT_WRITE_FAILED", "PADDING"}
  BY <1>1, <1>2, <1>3
<1>5. \A h \in Headers : h.size \in 1..ui32Size
  <2> SUFFICES ASSUME NEW h \in Headers PROVE h.size \in 1..ui32Size
    OBVIOUS
  <2>1. CASE h \in Packets
    <3>1. h.size \in PacketSizes \cup {1}
      BY <1>2, <2>1
    <3>2. QED
      BY <3>1, SizeIs
  <2>2. CASE h \notin Packets
    BY <1>1, <1>3, <2>2
  <2>3. QED
    BY <2>1, <2>2
<1>6. QED
  BY <1>1, <1>2, <1>3, <1>4, <1>5

\* Remainders of what is no more than one turn around the ring.
LEMMA RemainderIs ==
    /\ \A a \in Offsets : a % ui32Size = a /\ (a + ui32Size) % ui32Size = a
    /\ \A a \in Offsets : a # 0 => (a - ui32Size) % ui32Size = a
    /\ ui32Size % ui32Size = 0
<1>1. ui32Size \in Nat \ {0}
  BY SizeIs
<1>2. \A a \in 0..(ui32Size - 1) : a % ui32Size = a /\ (a + ui32Size) % ui32Size = a
  BY <1>1
<1>3. \A a \in 0..(ui32Size - 1) : a # 0 => (a - ui32Size) % ui32Size = a
  BY <1>1
<1>4. ui32Size % ui32Size = 0
  BY <1>1
<1>5. QED
  BY <1>2, <1>3, <1>4 DEF Offsets

\* Distances without remainders.
LEMMA DistanceIs ==
    ASSUME NEW a \in Offsets, NEW b \in Offsets
    PROVE  Distance(a, b) = Ahead(a, b) /\ Ahead(a, b) \in Offsets
<1>1. /\ a \in 0..(ui32Size - 1) /\ b \in 0..(ui32Size - 1) /\ ui32Size \in Nat
  BY SizeIs DEF Offsets
<1>2. CASE a <= b
  <2>1. b - a \in Offsets
    BY <1>1, <1>2 DEF Offsets
  <2>2. QED
    BY <1>2, <2>1, RemainderIs DEF Distance, Ahead
<1>3. CASE ~(a <= b)
  <2>1. PICK c : c = b + ui32Size - a
    OBVIOUS
  <2>2. c \in Offsets /\ c # 0 /\ b - a = c - ui32Size
    BY <1>1, <1>3, <2>1 DEF Offsets
  <2>3. QED
    BY <1>3, <2>1, <2>2, RemainderIs DEF Distance, Ahead
<1>4. QED
  BY <1>2, <1>3

\* The place at a distance.
LEMMA PlaceIs ==
    ASSUME NEW r \in Offsets, NEW d \in Offsets
    PROVE  /\ At(r, d) \in Offsets /\ (r + d) % ui32Size = At(r, d)
           /\ Ahead(r, At(r, d)) = d /\ At(r, Ahead(r, d)) = d
           /\ At(r, 0) = r /\ Ahead(r, r) = 0
<1>1. /\ r \in 0..(ui32Size - 1) /\ d \in 0..(ui32Size - 1) /\ ui32Size \in Nat
  BY SizeIs DEF Offsets
<1>2. At(r, d) \in Offsets
  BY <1>1 DEF At, Offsets
<1>3. (r + d) % ui32Size = At(r, d)
  <2>1. CASE r + d < ui32Size
    <3>1. r + d = At(r, d)
      BY <2>1 DEF At
    <3>2. QED
      BY <1>2, <3>1, RemainderIs
  <2>2. CASE ~(r + d < ui32Size)
    <3>1. PICK c : c = At(r, d)
      OBVIOUS
    <3>2. r + d = c + ui32Size
      BY <1>1, <2>2, <3>1 DEF At
    <3>3. QED
      BY <1>2, <3>1, <3>2, RemainderIs
  <2>3. QED
    BY <2>1, <2>2
<1>4. Ahead(r, At(r, d)) = d /\ At(r, Ahead(r, d)) = d
  BY <1>1 DEF At, Ahead
<1>5. At(r, 0) = r /\ Ahead(r, r) = 0
  BY <1>1 DEF At, Ahead
<1>6. QED
  BY <1>2, <1>3, <1>4, <1>5

\* Distances add up.
LEMMA SumIs ==
    ASSUME NEW r \in Offsets, NEW c \in Offsets, NEW d \in Nat, c + d < ui32Size
    PROVE  /\ c + d \in Offsets /\ d \in Offsets
           /\ At(At(r, c), d) = At(r, c + d)
           /\ \A x \in Offsets : Ahead(r, x) = c + d => Ahead(At(r, c), x) = d
<1>1. /\ r \in 0..(ui32Size - 1) /\ c \in 0..(ui32Size - 1) /\ ui32Size \in Nat
  BY SizeIs DEF Offsets
<1>2. c + d \in Offsets /\ d \in Offsets
  BY <1>1 DEF Offsets
<1>3. At(At(r, c), d) = At(r, c + d)
  BY <1>1 DEF At
<1>4. ASSUME NEW x \in Offsets, Ahead(r, x) = c + d PROVE Ahead(At(r, c), x) = d
  <2>1. x \in 0..(ui32Size - 1)
    BY DEF Offsets
  <2>2. QED
    BY <1>1, <1>4, <2>1 DEF At, Ahead
<1>5. QED
  BY <1>2, <1>3, <1>4

\* What can be read, as a distance.
LEMMA UnreadIs ==
    ASSUME TypeOK
    PROVE  /\ Unread = Ahead(ui32Read, ui32Write) /\ Unread \in Offsets
           /\ At(ui32Read, Unread) = ui32Write
           /\ ui32Read \in Offsets /\ ui32Write \in Offsets
           /\ \A x \in Offsets : Ahead(ui32Read, x) \in Offsets
           /\ (ui32Read = ui32Write) <=> (Unread = 0)
<1>1. ui32Read \in Offsets /\ ui32Write \in Offsets
  BY DEF TypeOK
<1>2. Unread = Ahead(ui32Read, ui32Write) /\ Unread \in Offsets
  BY <1>1, DistanceIs DEF Unread
<1>3. At(ui32Read, Unread) = ui32Write
  BY <1>1, <1>2, PlaceIs
<1>4. (ui32Read = ui32Write) <=> (Unread = 0)
  BY <1>1, <1>2, <1>3, PlaceIs
<1>5. QED
  BY <1>1, <1>2, <1>3, <1>4, DistanceIs

\* What a cell of the memory can hold.
Cells == Headers \cup {Body, Garbage}

LEMMA ViewIs ==
    ASSUME TypeOK
    PROVE  /\ View \in [Offsets -> Cells] /\ buf \in [Offsets -> Cells]
           /\ \A d \in Offsets : View[d] = buf[At(ui32Read, d)] /\ At(ui32Read, d) \in Offsets
           /\ \A o \in Offsets : View[Ahead(ui32Read, o)] = buf[o]
<1>1. buf \in [Offsets -> Cells] /\ ui32Read \in Offsets
  BY DEF TypeOK, Cells
<1>2. \A d \in Offsets : View[d] = buf[At(ui32Read, d)] /\ At(ui32Read, d) \in Offsets
  BY <1>1, PlaceIs DEF View
<1>3. View \in [Offsets -> Cells]
  BY <1>1, <1>2 DEF View
<1>4. \A o \in Offsets : View[Ahead(ui32Read, o)] = buf[o]
  <2> SUFFICES ASSUME NEW o \in Offsets PROVE View[Ahead(ui32Read, o)] = buf[o]
    OBVIOUS
  <2>1. Ahead(ui32Read, o) \in Offsets /\ At(ui32Read, Ahead(ui32Read, o)) = o
    BY <1>1, DistanceIs, PlaceIs
  <2>2. QED
    BY <1>2, <2>1
<1>5. QED
  BY <1>1, <1>2, <1>3, <1>4

\* A header and what follows it are written, where they fit before the end of
\* the ring, and nothing else.
LEMMA WrittenIs ==
    ASSUME NEW m \in [Offsets -> Cells], NEW o \in Offsets, NEW h \in Headers,
           o + h.size <= ui32Size
    PROVE  /\ Written(m, o, h) \in [Offsets -> Cells]
           /\ Written(m, o, h)[o] = h
           /\ \A i \in Offsets : o < i /\ i < o + h.size => Written(m, o, h)[i] = Body
           /\ \A i \in Offsets : i < o \/ i >= o + h.size => Written(m, o, h)[i] = m[i]
           /\ m[0] # Body => Written(m, o, h)[0] # Body
<1>1. h.size \in 1..ui32Size /\ ui32Size \in Nat /\ ui32Size >= 2 /\ Body \notin Headers
  BY HeadersAre, SizeIs
<1>2. \A i \in Offsets : i \in Nat
  BY <1>1 DEF Offsets
<1>3. \A i \in Offsets : i \in (o + 1)..(o + h.size - 1) <=> o < i /\ i < o + h.size
  BY <1>1, <1>2
<1>4. \A i \in Offsets : Written(m, o, h)[i] = IF i = o THEN h
                            ELSE IF o < i /\ i < o + h.size THEN Body ELSE m[i]
  BY <1>3 DEF Written
<1>5. Written(m, o, h) \in [Offsets -> Cells]
  <2>1. Written(m, o, h) = [i \in Offsets |-> Written(m, o, h)[i]]
    BY DEF Written
  <2>2. \A i \in Offsets : Written(m, o, h)[i] \in Cells
    BY <1>4 DEF Cells
  <2>3. QED
    BY <2>1, <2>2
<1>6. 0 \in Offsets
  BY <1>1 DEF Offsets
<1>7. m[0] # Body => Written(m, o, h)[0] # Body
  BY <1>1, <1>2, <1>4, <1>6
<1>8. QED
  BY <1>1, <1>2, <1>4, <1>5, <1>7

\* The same as the reader sees it.
LEMMA WrittenSeen ==
    ASSUME NEW m \in [Offsets -> Cells], NEW r \in Offsets, NEW e \in Offsets,
           NEW h \in Headers, At(r, e) + h.size <= ui32Size, e + h.size <= ui32Size,
           NEW d \in Offsets
    PROVE  /\ d = e => Written(m, At(r, e), h)[At(r, d)] = h
           /\ e < d /\ d < e + h.size => Written(m, At(r, e), h)[At(r, d)] = Body
           /\ d < e \/ d >= e + h.size => Written(m, At(r, e), h)[At(r, d)] = m[At(r, d)]
<1>1. /\ h.size \in 1..ui32Size /\ ui32Size \in Nat
      /\ r \in 0..(ui32Size - 1) /\ e \in 0..(ui32Size - 1) /\ d \in 0..(ui32Size - 1)
  BY HeadersAre, SizeIs DEF Offsets
<1>2. PICK o, i : o = At(r, e) /\ i = At(r, d)
  OBVIOUS
<1>3. o \in Offsets /\ i \in Offsets
  BY <1>2, PlaceIs
<1>4. /\ Written(m, o, h)[o] = h
      /\ o < i /\ i < o + h.size => Written(m, o, h)[i] = Body
      /\ i < o \/ i >= o + h.size => Written(m, o, h)[i] = m[i]
  BY <1>2, <1>3, WrittenIs
<1>5. /\ d = e => i = o
      /\ e < d /\ d < e + h.size => o < i /\ i < o + h.size
      /\ d < e \/ d >= e + h.size => i < o \/ i >= o + h.size
  BY <1>1, <1>2 DEF At
<1>6. QED
  BY <1>2, <1>4, <1>5

\* When the read offset moves on, the view moves along.
LEMMA ForgottenSeen ==
    ASSUME TypeOK, NEW c \in Offsets, ui32Read' = At(ui32Read, c),
           buf' = Forgotten(ui32Read, At(ui32Read, c))
    PROVE  /\ buf' \in [Offsets -> Cells] /\ ui32Read' \in Offsets
           /\ \A o \in Offsets : buf'[o] = buf[o] \/ buf'[o] = Garbage
           /\ \A d \in Nat : c + d < ui32Size => View'[d] = View[c + d]
<1>1. ui32Read \in Offsets /\ At(ui32Read, c) \in Offsets /\ buf \in [Offsets -> Cells]
  BY PlaceIs, ViewIs DEF TypeOK
<1>2. Distance(ui32Read, At(ui32Read, c)) = c
  BY <1>1, DistanceIs, PlaceIs
<1>3. \A o \in Offsets : buf'[o] = IF Ahead(ui32Read, o) < c THEN Garbage ELSE buf[o]
  BY <1>1, <1>2, DistanceIs DEF Forgotten
<1>4. buf' \in [Offsets -> Cells]
  <2>1. buf' = [o \in Offsets |-> buf'[o]]
    BY DEF Forgotten
  <2>2. \A o \in Offsets : buf'[o] \in Cells
    BY <1>1, <1>3 DEF Cells
  <2>3. QED
    BY <2>1, <2>2
<1>5. ASSUME NEW d \in Nat, c + d < ui32Size PROVE View'[d] = View[c + d]
  <2>1. /\ c + d \in Offsets /\ d \in Offsets
        /\ At(At(ui32Read, c), d) = At(ui32Read, c + d)
    BY <1>1, <1>5, SumIs
  <2>2. PICK o : o = At(ui32Read, c + d)
    OBVIOUS
  <2>3. o \in Offsets /\ Ahead(ui32Read, o) = c + d
    BY <1>1, <2>1, <2>2, PlaceIs
  <2>4. ~(c + d < c)
    BY SizeIs DEF Offsets
  <2>5. View'[d] = buf'[o]
    BY <2>1, <2>2 DEF View, At
  <2>6. View[c + d] = buf[o]
    BY <2>1, <2>2 DEF View
  <2>7. QED
    BY <1>3, <2>3, <2>4, <2>5, <2>6
<1>6. QED
  BY <1>1, <1>3, <1>4, <1>5

\* Padding and packet lie in the ring.
LEMMA PadIs ==
    ASSUME TypeOK, NEW q, q.write \in Offsets, q.size \in PacketSizes
    PROVE  /\ Pad(q) \in 0..(q.size - 1) /\ Pad(q) \in Nat
           /\ Pad(q) > 0 => q.write + Pad(q) = ui32Size /\ Pad(q) \in 1..ui32Size
           /\ Pad(q) = 0 => q.write + q.size <= ui32Size
           /\ q.size \in 1..(ui32Size - 1) /\ ReqSizeActual(q) = q.size + Pad(q)
           /\ ReqSizeActual(q) <= ui32Size - 2
<1>1. /\ ui32Size \in Nat /\ q.size \in Nat \ {0} /\ 2 * q.size - 1 <= ui32Size - 2
      /\ q.write \in 0..(ui32Size - 1) /\ q.size < ui32Size
  BY SizeIs DEF Offsets
<1>2. QED
  BY <1>1 DEF Pad, ReqSizeActual

-----------------------------------------------------------------------------
(* Types.                                                                  *)

Places   == {"idle", "space", "wait", "readlock", "drop", "header", "commit"}
Requests == [size : PacketSizes \cup {0}, read : Offsets, write : Offsets]

\* A writer that is at work is alone, and its reservation is pending.
LEMMA OnlyOne ==
    ASSUME ReservedInv, NEW w \in Writers, Busy(w)
    PROVE  /\ \A v \in Writers : v # w => pc[v] = "idle"
           /\ ~MayReserve
           /\ local[w].size \in PacketSizes /\ local[w] \in Requests
           /\ pc[w] # "commit" => ui32Pending = 0
           /\ pc[w] = "commit" => ui32Pending = local[w].size
<1>1. \A v \in Writers : v # w => pc[v] = "idle"
  BY DEF ReservedInv, Alone, Busy
<1>2. /\ local[w].size \in PacketSizes /\ local[w] \in Requests
      /\ pc[w] # "commit" => ui32Pending = 0
      /\ pc[w] = "commit" => ui32Pending = local[w].size
  BY DEF ReservedInv, Reserved, TypeOK, Requests
<1>3. local[w].size \in Nat
  BY <1>2, SizeIs
<1>4. ~MayReserve
  BY <1>2, <1>3 DEF MayReserve, NOTHING_PENDING
<1>5. QED
  BY <1>1, <1>2, <1>4

LEMMA NoneBusy ==
    ASSUME ReservedInv, MayReserve
    PROVE  \A w \in Writers : pc[w] = "idle"
  BY OnlyOne DEF Busy

\* A step of the only writer at work.
LEMMA WriterReserved ==
    ASSUME ReservedInv, NEW w \in Writers, \A v \in Writers : v # w => pc[v] = "idle",
           NEW x \in Places, pc' = [pc EXCEPT ![w] = x],
           local' = [local EXCEPT ![w] = local'[w]], local'[w] \in Requests,
           x = "idle" => ui32Pending' \in PacketSizes \cup {0, NOTHING_PENDING},
           x # "idle" => local'[w].size \in PacketSizes,
           x = "commit" => ui32Pending' = local'[w].size,
           x \notin {"idle", "commit"} => ui32Pending' = 0,
           buf' \in [Offsets -> Cells], ui32Read' \in Offsets, ui32Write' \in Offsets,
           UNCHANGED <<eOpMode, bReadPending, readerVars>>
    PROVE  ReservedInv'
<1>1. /\ pc \in [Writers -> Places] /\ local \in [Writers -> Requests]
      /\ eOpMode \in OpModes /\ bReadPending \in BOOLEAN
      /\ reader \in {"closed", "reset", "idle", "empty", "reading"}
      /\ acquired \in [offset : Offsets, len : 0..ui32Size]
  BY DEF ReservedInv, TypeOK, Places, Requests
<1>2. /\ pc' \in [Writers -> Places] /\ local' \in [Writers -> Requests]
      /\ pc'[w] = x /\ \A v \in Writers : v # w => pc'[v] = "idle"
  BY <1>1
<1>3. ui32Pending' \in PacketSizes \cup {0, NOTHING_PENDING}
  BY DEF Places
<1>4. TypeOK'
  <2>1. \A v \in Writers : pc'[v] = "commit" => ui32Pending' = local'[v].size
    BY <1>2
  <2>2. QED
    BY <1>1, <1>2, <1>3, <2>1 DEF TypeOK, Places, Requests, Cells, readerVars
<1>5. Alone' /\ Reserved'
  BY <1>2 DEF Alone, Reserved, Busy, Places
<1>6. QED
  BY <1>4, <1>5 DEF ReservedInv

\* A step that leaves the writers alone.
LEMMA OthersReserved ==
    ASSUME ReservedInv, UNCHANGED <<pc, local, ui32Pending>>,
           buf' \in [Offsets -> Cells], ui32Read' \in Offsets, ui32Write' \in Offsets,
           eOpMode' \in OpModes, bReadPending' \in BOOLEAN,
           reader' \in {"closed", "reset", "idle", "empty", "reading"},
           acquired' \in [offset : Offsets, len : 0..ui32Size]
    PROVE  ReservedInv'
<1>1. TypeOK'
  BY DEF ReservedInv, TypeOK, Cells
<1>2. QED
  BY <1>1 DEF ReservedInv, Alone, Reserved, Busy

LEMMA ReservedInit == Init => ReservedInv
<1> SUFFICES ASSUME Init PROVE ReservedInv
  OBVIOUS
<1>1. 0 \in Offsets /\ 0 \in 0..ui32Size
  BY SizeIs DEF Offsets
<1>2. TypeOK
  BY <1>1 DEF Init, TypeOK, NoRequest, Nothing
<1>3. QED
  BY <1>2 DEF Init, ReservedInv, Alone, Reserved, Busy

\* Requests with new copies of the offsets.
LEMMA LocalIs ==
    ASSUME TypeOK, NEW w \in Writers
    PROVE  /\ local[w] \in Requests /\ NoRequest \in Requests
           /\ \A r \in Offsets : [local EXCEPT ![w].read = r][w] \in Requests
           /\ \A r, o \in Offsets :
                 [local EXCEPT ![w].read = r, ![w].write = o][w] \in Requests
           /\ \A s \in PacketSizes, r, o \in Offsets :
                 [size |-> s, read |-> r, write |-> o] \in Requests
           /\ ui32Read \in Offsets /\ ui32Write \in Offsets /\ buf \in [Offsets -> Cells]
<1>1. 0 \in Offsets
  BY SizeIs DEF Offsets
<1>2. local \in [Writers -> Requests]
  BY DEF TypeOK, Requests
<1>3. PICK l : l = local[w]
  OBVIOUS
<1>4. l \in Requests /\ NoRequest \in Requests
  BY <1>1, <1>2, <1>3 DEF Requests, NoRequest
<1>5. \A r \in Offsets : [l EXCEPT !.read = r] \in Requests
  BY <1>4 DEF Requests
<1>6. \A r, o \in Offsets : [l EXCEPT !.read = r, !.write = o] \in Requests
  BY <1>4 DEF Requests
<1>7. \A r : [local EXCEPT ![w].read = r][w] = [l EXCEPT !.read = r]
  BY <1>2, <1>3
<1>8. \A s \in PacketSizes, r, o \in Offsets :
         [size |-> s, read |-> r, write |-> o] \in Requests
  BY DEF Requests
<1>9. ui32Read \in Offsets /\ ui32Write \in Offsets /\ buf \in [Offsets -> Cells]
  <2>1. ui32Read \in Offsets /\ ui32Write \in Offsets
    BY DEF TypeOK
  <2>2. buf \in [Offsets -> Cells]
    BY ViewIs
  <2>3. QED
    BY <2>1, <2>2
<1>10. \A r \in Offsets : [local EXCEPT ![w].read = r][w] \in Requests
  BY <1>5, <1>7
<1>11. \A r, o \in Offsets :
          [local EXCEPT ![w].read = r, ![w].write = o][w] \in Requests
  <2> SUFFICES ASSUME NEW r \in Offsets, NEW o \in Offsets
               PROVE  [local EXCEPT ![w].read = r, ![w].write = o][w] \in Requests
    OBVIOUS
  <2>1. PICK x, y : /\ x = [local EXCEPT ![w].read = r, ![w].write = o][w]
                    /\ y = [l EXCEPT !.read = r, !.write = o]
    OBVIOUS
  <2>2. y \in Requests
    BY <1>6, <2>1
  <2>3. x = y
    BY <1>2, <1>3, <2>1
  <2>4. QED
    BY <2>1, <2>2, <2>3
<1>12. local[w] \in Requests /\ NoRequest \in Requests
  BY <1>3, <1>4
<1>13. QED
  BY <1>8, <1>9, <1>10, <1>11, <1>12

\* The packet behind another one.
LEMMA NextIs ==
    ASSUME TypeOK, NEW o \in Offsets
    PROVE  NextPacket(o) \in Offsets
<1>1. buf[o] \in Cells
  BY ViewIs
<1>2. buf[o].size \in 0..ui32Size
  <2>1. Body.size = 0 /\ Garbage.size = 0 /\ ui32Size \in Nat
    BY SizeIs DEF Body, Garbage
  <2>2. QED
    BY <1>1, <2>1, HeadersAre DEF Cells
<1>3. QED
  BY <1>2, SizeIs DEF NextPacket, Offsets

\* The end of what fits before the end of the ring.
LEMMA EndIs ==
    ASSUME NEW a \in Nat, a <= ui32Size
    PROVE  /\ a % ui32Size = IF a = ui32Size THEN 0 ELSE a
           /\ a % ui32Size \in Offsets
<1>1. 0 \in Offsets /\ (a # ui32Size => a \in Offsets)
  BY SizeIs DEF Offsets
<1>2. QED
  BY <1>1, RemainderIs

\* A writer's steps that look at the offsets only.
LEMMA LookReserved ==
    ASSUME ReservedInv, NEW w \in Writers,
           \/ \E s \in PacketSizes : Reserve(w, s)
           \/ LookForSpace(w) \/ Wake(w) \/ LockRead(w) \/ DropOldest(w)
    PROVE  ReservedInv'
<1>1. TypeOK /\ pc \in [Writers -> Places] /\ local \in [Writers -> Requests]
  BY DEF ReservedInv, TypeOK, Places, Requests
<1>2. /\ ui32Read \in Offsets /\ ui32Write \in Offsets /\ buf \in [Offsets -> Cells]
      /\ local[w] \in Requests
  BY <1>1, LocalIs
<1>3. CASE \E s \in PacketSizes : Reserve(w, s)
  <2>1. PICK s \in PacketSizes : Reserve(w, s)
    BY <1>3
  <2>2. PICK x : x = "space"
    OBVIOUS
  <2>3. /\ pc' = [pc EXCEPT ![w] = x] /\ ui32Pending' = 0
        /\ local' = [local EXCEPT ![w] = [size |-> s, read |-> ui32Read, write |-> ui32Write]]
        /\ UNCHANGED <<buf, ui32Read, ui32Write, eOpMode, bReadPending, readerVars>>
    BY <2>1, <2>2 DEF Reserve, Goto, offsets
  <2>4. local' = [local EXCEPT ![w] = local'[w]] /\ local'[w] \in Requests
        /\ local'[w].size = s
    BY <1>1, <1>2, <2>3 DEF Requests
  <2>5. \A v \in Writers : v # w => pc[v] = "idle"
    BY <2>1, NoneBusy DEF Reserve
  <2>6. x \in Places /\ x \notin {"idle", "commit"}
    BY <2>2 DEF Places
  <2>7. QED
    BY <1>2, <2>3, <2>4, <2>5, <2>6, WriterReserved
<1>4. CASE LookForSpace(w) \/ Wake(w) \/ LockRead(w) \/ DropOldest(w)
  <2>1. /\ Busy(w) /\ pc[w] # "commit"
        /\ UNCHANGED <<buf, ui32Read, ui32Write, ui32Pending, eOpMode, bReadPending,
                       readerVars>>
    BY <1>4 DEF LookForSpace, Wake, LockRead, DropOldest, offsets, Busy
  <2>2. /\ \A v \in Writers : v # w => pc[v] = "idle"
        /\ local[w].size \in PacketSizes /\ ui32Pending = 0
    BY <2>1, OnlyOne
  <2>3. PICK x : x = pc'[w]
    OBVIOUS
  <2>4. /\ pc' = [pc EXCEPT ![w] = x] /\ x \in Places /\ x \notin {"idle", "commit"}
    <3>1. CASE LookForSpace(w)
      BY <1>1, <2>3, <3>1 DEF LookForSpace, Goto, Places
    <3>2. CASE Wake(w)
      BY <1>1, <2>3, <3>2 DEF Wake, Goto, Places
    <3>3. CASE LockRead(w)
      BY <1>1, <2>3, <3>3 DEF LockRead, Goto, Places
    <3>4. CASE DropOldest(w)
      BY <1>1, <2>3, <3>4 DEF DropOldest, Places
    <3>5. QED
      BY <1>4, <3>1, <3>2, <3>3, <3>4
  <2>5. /\ local' = [local EXCEPT ![w] = local'[w]] /\ local'[w] \in Requests
        /\ local'[w].size = local[w].size
    <3>1. CASE LookForSpace(w)
      BY <1>1, <1>2, <3>1 DEF LookForSpace
    <3>2. CASE Wake(w)
      BY <1>1, <1>2, <3>2 DEF Wake, Requests
    <3>3. CASE LockRead(w)
      BY <1>1, <1>2, <3>3 DEF LockRead, Requests
    <3>4. CASE DropOldest(w)
      <4>1. PICK o : o = NextPacket(local[w].read)
        OBVIOUS
      <4>2. o \in Offsets
        BY <1>1, <1>2, <4>1, NextIs DEF Requests
      <4>3. local' = [local EXCEPT ![w].read = o]
        BY <3>4, <4>1 DEF DropOldest
      <4>4. QED
        BY <1>1, <1>2, <4>2, <4>3 DEF Requests
    <3>5. QED
      BY <1>4, <3>1, <3>2, <3>3, <3>4
  <2>6. QED
    BY <1>2, <2>1, <2>2, <2>4, <2>5, WriterReserved
<1>5. QED
  BY <1>3, <1>4

\* The memory and the write offset after a mark, and after a header.
LEMMA MarkIs ==
    ASSUME ReservedInv, NEW w \in Writers, DropNewer(w)
    PROVE  buf' \in [Offsets -> Cells] /\ ui32Write' \in Offsets
<1>1. PICK o : o = local[w].write
  OBVIOUS
<1>2. o \in Offsets /\ ui32Write \in Offsets /\ buf \in [Offsets -> Cells]
  BY <1>1, LocalIs DEF ReservedInv, Requests
<1>3. \/ buf' = Written(buf, o, WriteFailed) /\ ui32Write' = (o + 1) % ui32Size
      \/ UNCHANGED <<buf, ui32Write>>
  BY <1>1 DEF DropNewer
<1>4. WriteFailed \in Headers /\ WriteFailed.size = 1
  BY HeadersAre
<1>5. o + 1 \in Nat /\ o + 1 <= ui32Size
  BY <1>2, SizeIs DEF Offsets
<1>6. Written(buf, o, WriteFailed) \in [Offsets -> Cells]
  BY <1>2, <1>4, <1>5, WrittenIs
<1>7. (o + 1) % ui32Size \in Offsets
  BY <1>5, EndIs
<1>8. QED
  BY <1>2, <1>3, <1>6, <1>7

LEMMA HeaderIs ==
    ASSUME ReservedInv, NEW w \in Writers, WriteHeader(w)
    PROVE  buf' \in [Offsets -> Cells] /\ ui32Write' \in Offsets
<1>1. PICK q, p : q = local[w] /\ p = Pad(q)
  OBVIOUS
<1>2. q.size \in PacketSizes /\ q \in Requests
  BY <1>1, OnlyOne DEF WriteHeader, Busy
<1>3. TypeOK /\ q.write \in Offsets /\ buf \in [Offsets -> Cells] /\ 0 \in Offsets
  <2>1. 0 \in Offsets
    BY SizeIs DEF Offsets
  <2>2. QED
    BY <1>2, <2>1, LocalIs DEF ReservedInv, Requests
<1>4. /\ p > 0 => q.write + p = ui32Size /\ p \in 1..ui32Size
      /\ p = 0 => q.write + q.size <= ui32Size
      /\ p \in Nat /\ q.size \in 1..(ui32Size - 1)
  BY <1>1, <1>2, <1>3, PadIs
<1>5. Data(q.size) \in Headers /\ Data(q.size).size = q.size
  BY <1>2, HeadersAre
<1>6. CASE p > 0
  <2>1. /\ buf' = Written(Written(buf, q.write, Padding(p)), 0, Data(q.size))
        /\ ui32Write' = 0
    BY <1>1, <1>6 DEF WriteHeader
  <2>2. Padding(p) \in Headers /\ Padding(p).size = p
    BY <1>4, <1>6, HeadersAre
  <2>3. q.write + Padding(p).size <= ui32Size
    BY <1>4, <1>6, <2>2, SizeIs
  <2>4. Written(buf, q.write, Padding(p)) \in [Offsets -> Cells]
    BY <1>3, <2>2, <2>3, WrittenIs
  <2>5. 0 + Data(q.size).size <= ui32Size
    BY <1>4, <1>5, SizeIs
  <2>6. buf' \in [Offsets -> Cells]
    BY <1>3, <1>5, <2>1, <2>4, <2>5, WrittenIs
  <2>7. QED
    BY <1>3, <2>1, <2>6
<1>7. CASE p = 0
  <2>1. buf' = Written(buf, q.write, Data(q.size)) /\ ui32Write' = q.write
    BY <1>1, <1>7 DEF WriteHeader
  <2>2. QED
    BY <1>3, <1>4, <1>5, <1>7, <2>1, WrittenIs
<1>8. QED
  BY <1>4, <1>6, <1>7

\* What a writer writes, publishes and gives up.
LEMMA WriteReserved ==
    ASSUME ReservedInv, NEW w \in Writers,
           Dropped(w) \/ DropNewer(w) \/ WriteHeader(w) \/ ReserveFails(w) \/ Commit(w)
    PROVE  ReservedInv'
<1>1. TypeOK /\ pc \in [Writers -> Places] /\ local \in [Writers -> Requests]
  BY DEF ReservedInv, TypeOK, Places, Requests
<1>2. /\ ui32Read \in Offsets /\ ui32Write \in Offsets /\ buf \in [Offsets -> Cells]
      /\ local[w] \in Requests /\ NoRequest \in Requests
  BY <1>1, LocalIs
<1>3. Busy(w) /\ UNCHANGED <<eOpMode, bReadPending, readerVars>>
  BY DEF Dropped, DropNewer, WriteHeader, ReserveFails, Commit, Busy
<1>4. /\ \A v \in Writers : v # w => pc[v] = "idle"
      /\ local[w].size \in PacketSizes
  BY <1>3, OnlyOne
<1>5. PICK x : x = pc'[w]
  OBVIOUS
<1>6. CASE Dropped(w)
  <2>1. /\ pc' = [pc EXCEPT ![w] = x] /\ x = "header"
        /\ UNCHANGED <<ui32Write, ui32Pending, local>>
        /\ ui32Read' = local[w].read /\ buf' = Forgotten(ui32Read, local[w].read)
        /\ pc[w] = "drop"
    BY <1>1, <1>5, <1>6 DEF Dropped, Goto
  <2>2. PICK c : c = Ahead(ui32Read, local[w].read)
    OBVIOUS
  <2>3. c \in Offsets /\ local[w].read = At(ui32Read, c)
    BY <1>2, <2>2, DistanceIs, PlaceIs DEF Requests
  <2>4. buf' \in [Offsets -> Cells] /\ ui32Read' \in Offsets
    BY <1>1, <2>1, <2>3, ForgottenSeen
  <2>5. ui32Pending = 0
    BY <1>3, <2>1, OnlyOne
  <2>6. local' = [local EXCEPT ![w] = local'[w]] /\ x \in Places
    BY <1>1, <2>1 DEF Places
  <2>7. QED
    BY <1>2, <1>3, <1>4, <2>1, <2>4, <2>5, <2>6, WriterReserved
<1>7. CASE WriteHeader(w)
  <2>1. /\ pc' = [pc EXCEPT ![w] = x] /\ x = "commit"
        /\ UNCHANGED <<ui32Read, local>> /\ ui32Pending' = local[w].size
    BY <1>1, <1>5, <1>7 DEF WriteHeader, Goto
  <2>2. local' = [local EXCEPT ![w] = local'[w]] /\ x \in Places
    BY <1>1, <2>1 DEF Places
  <2>3. QED
    BY <1>2, <1>3, <1>4, <1>7, <2>1, <2>2, HeaderIs, WriterReserved
<1>8. CASE DropNewer(w) \/ ReserveFails(w) \/ Commit(w)
  <2>1. /\ pc' = [pc EXCEPT ![w] = x] /\ x = "idle" /\ x \in Places
        /\ local' = [local EXCEPT ![w] = NoRequest] /\ ui32Pending' = NOTHING_PENDING
        /\ UNCHANGED ui32Read
    BY <1>1, <1>5, <1>8 DEF DropNewer, ReserveFails, Commit, Goto, offsets, Places
  <2>2. local' = [local EXCEPT ![w] = local'[w]] /\ local'[w] \in Requests
    BY <1>1, <1>2, <2>1
  <2>3. buf' \in [Offsets -> Cells] /\ ui32Write' \in Offsets
    <3>1. CASE DropNewer(w)
      BY <3>1, MarkIs
    <3>2. CASE ReserveFails(w)
      BY <1>2, <3>2 DEF ReserveFails, offsets
    <3>3. CASE Commit(w)
      <4>1. PICK a : a = ui32Write + local[w].size
        OBVIOUS
      <4>2. a \in Nat /\ a < ui32Size + ui32Size
        BY <1>2, <1>4, <4>1, SizeIs DEF Offsets
      <4>3. a % ui32Size \in Offsets
        <5>1. CASE a <= ui32Size
          BY <4>2, <5>1, EndIs
        <5>2. CASE ~(a <= ui32Size)
          <6>1. PICK b : b = a - ui32Size
            OBVIOUS
          <6>2. b \in Offsets /\ a = b + ui32Size
            BY <4>2, <5>2, <6>1, SizeIs DEF Offsets
          <6>3. QED
            BY <6>2, RemainderIs
        <5>3. QED
          BY <5>1, <5>2
      <4>4. QED
        BY <1>2, <3>3, <4>1, <4>3 DEF Commit
    <3>4. QED
      BY <1>8, <3>1, <3>2, <3>3
  <2>4. QED
    BY <1>2, <1>3, <1>4, <2>1, <2>2, <2>3, WriterReserved
<1>9. QED
  BY <1>6, <1>7, <1>8

\* The reader's steps and changes of the mode.
LEMMA ReadReserved ==
    ASSUME ReservedInv,
           Reconfigure \/ Open \/ Reset \/ Acquire \/ NothingThere \/ Release \/ Close
    PROVE  ReservedInv'
<1>1. /\ ui32Read \in Offsets /\ ui32Write \in Offsets /\ buf \in [Offsets -> Cells]
      /\ eOpMode \in OpModes /\ bReadPending \in BOOLEAN
      /\ reader \in {"closed", "reset", "idle", "empty", "reading"}
      /\ acquired \in [offset : Offsets, len : 0..ui32Size]
      /\ ui32Size \in Nat /\ ui32Size >= 2
  BY SizeIs DEF ReservedInv, TypeOK, Cells
<1>2. 0 \in Offsets /\ Nothing \in [offset : Offsets, len : 0..ui32Size]
  <2>1. 0 \in Offsets /\ 0 \in 0..ui32Size
    BY <1>1 DEF Offsets
  <2>2. QED
    BY <2>1 DEF Nothing
<1>3. UNCHANGED <<pc, local, ui32Pending>>
  BY DEF Reconfigure, Open, Reset, Acquire, NothingThere, Release, Close, writerVars
<1>4. /\ buf' \in [Offsets -> Cells] /\ ui32Read' \in Offsets /\ ui32Write' \in Offsets
  <2>1. CASE Reconfigure \/ Open \/ Acquire \/ NothingThere \/ Close
    BY <1>1, <2>1 DEF Reconfigure, Open, Acquire, NothingThere, Close, offsets
  <2>2. CASE Reset
    <3>1. [o \in Offsets |-> Garbage] \in [Offsets -> Cells]
      BY DEF Cells
    <3>2. QED
      BY <1>2, <2>2, <3>1 DEF Reset
  <2>3. CASE Release
    <3>1. PICK n \in 1..acquired.len :
              /\ ui32Read' = (ui32Read + n) % ui32Size
              /\ buf' = Forgotten(ui32Read, (ui32Read + n) % ui32Size)
      BY <2>3 DEF Release
    <3>2. acquired.len \in 0..ui32Size
      BY <1>1
    <3>3. PICK c : c = IF n = ui32Size THEN 0 ELSE n
      OBVIOUS
    <3>4. /\ c \in Offsets
          /\ n # ui32Size => c = n
          /\ n = ui32Size => (ui32Read + n) % ui32Size = ui32Read
      BY <1>1, <3>1, <3>2, <3>3, RemainderIs DEF Offsets
    <3>5. (ui32Read + n) % ui32Size = At(ui32Read, c)
      <4>1. CASE n = ui32Size
        BY <1>1, <3>3, <3>4, <4>1, PlaceIs
      <4>2. CASE n # ui32Size
        BY <1>1, <3>4, <4>2, PlaceIs
      <4>3. QED
        BY <4>1, <4>2
    <3>6. TypeOK /\ UNCHANGED ui32Write
      BY <2>3 DEF ReservedInv, Release
    <3>7. QED
      BY <1>1, <3>1, <3>4, <3>5, <3>6, ForgottenSeen
  <2>4. QED
    BY <2>1, <2>2, <2>3
<1>5. eOpMode' \in OpModes /\ bReadPending' \in BOOLEAN
  BY <1>1 DEF Reconfigure, Open, Reset, Acquire, NothingThere, Release, Close, PendingEnds, Lossy
<1>6. reader' \in {"closed", "reset", "idle", "empty", "reading"}
  BY <1>1 DEF Reconfigure, Open, Reset, Acquire, NothingThere, Release, Close, readerVars
<1>7. acquired' \in [offset : Offsets, len : 0..ui32Size]
  <2>1. CASE Acquire
    <3>1. PICK n : n = IF ui32Read > ui32Write THEN ui32Size - ui32Read
                                               ELSE ui32Write - ui32Read
      OBVIOUS
    <3>2. n \in 0..ui32Size
      BY <1>1, <3>1 DEF Offsets
    <3>3. acquired' = acquired \/ acquired' = [offset |-> ui32Read, len |-> n]
      BY <2>1, <3>1 DEF Acquire
    <3>4. QED
      BY <1>1, <3>2, <3>3
  <2>2. CASE ~Acquire
    BY <1>1, <1>2, <2>2 DEF Reconfigure, Open, Reset, NothingThere, Release, Close, readerVars
  <2>3. QED
    BY <2>1, <2>2
<1>8. QED
  BY <1>3, <1>4, <1>5, <1>6, <1>7, OthersReserved

LEMMA ReservedStep == ReservedInv /\ [Next]_vars => ReservedInv'
<1> SUFFICES ASSUME ReservedInv, [Next]_vars PROVE ReservedInv'
  OBVIOUS
<1>1. CASE \E w \in Writers : Write(w)
  <2>1. PICK w \in Writers : Write(w)
    BY <1>1
  <2>2. QED
    BY <2>1, LookReserved, WriteReserved DEF Write
<1>2. CASE Reconfigure \/ Open \/ Reset \/ Acquire \/ NothingThere \/ Release \/ Close
  BY <1>2, ReadReserved
<1>3. CASE UNCHANGED vars
  BY <1>3 DEF vars, offsets, writerVars, readerVars, ReservedInv, TypeOK, Alone, Reserved, Busy
<1>4. QED
  BY <1>1, <1>2, <1>3 DEF Next

\* Whoever reserves, drops, reads, resets and reconfigures in whatever order,
\* offsets stay within the ring, and the reservation that is pending is the one
\* of the writer that fills it: writers never overlap (tlstream.c:728).
THEOREM StreamTypes == Spec => []TypeOK
<1>1. Spec => []ReservedInv
  BY ReservedInit, ReservedStep, PTL DEF Spec
<1>2. ReservedInv => TypeOK
  BY DEF ReservedInv
<1>3. QED
  BY <1>1, <1>2, PTL

-----------------------------------------------------------------------------
(* Views that are framed.                                                  *)

\* Whatever is framed stays so when what follows changes.
LEMMA FramedSame ==
    ASSUME NEW g, NEW f, NEW u \in Offsets, Framed(g, u),
           \A d \in Offsets : d < u => f[d] = g[d]
    PROVE  Framed(f, u) /\ Starts(f, u) = Starts(g, u)
<1>1. ui32Size \in Nat /\ u \in 0..(ui32Size - 1)
  BY SizeIs DEF Offsets
<1>2. \A d \in Offsets : d < u /\ g[d] \in Headers =>
          /\ d + g[d].size <= u
          /\ \A j \in Offsets : d < j /\ j < d + g[d].size => g[j] = Body /\ j < u
          /\ d + g[d].size < u => g[d + g[d].size] \in Headers /\ d + g[d].size \in Offsets
  <2> SUFFICES ASSUME NEW d \in Offsets, d < u, g[d] \in Headers
               PROVE  /\ d + g[d].size <= u
                      /\ \A j \in Offsets : d < j /\ j < d + g[d].size => g[j] = Body /\ j < u
                      /\ d + g[d].size < u =>
                            g[d + g[d].size] \in Headers /\ d + g[d].size \in Offsets
    OBVIOUS
  <2>1. g[d].size \in 1..ui32Size /\ d \in 0..(ui32Size - 1)
    BY HeadersAre DEF Offsets
  <2>2. /\ d + g[d].size <= u
        /\ \A j \in Offsets : d < j /\ j < d + g[d].size => g[j] = Body
        /\ d + g[d].size < u => g[d + g[d].size] \in Headers
    BY DEF Framed
  <2>3. QED
    BY <1>1, <2>1, <2>2 DEF Offsets
<1>3. /\ u > 0 => g[0] \in Headers /\ 0 \in Offsets
      /\ \A d \in Offsets : d < u => g[d] \in Headers \cup {Body}
  BY <1>1 DEF Framed, Offsets
<1>4. Framed(f, u)
  BY <1>1, <1>2, <1>3 DEF Framed
<1>5. Starts(f, u) = Starts(g, u)
  BY <1>1 DEF Starts, Offsets
<1>6. QED
  BY <1>4, <1>5

\* Where packets begin the view can be cut.
LEMMA FramedPart ==
    ASSUME NEW g, NEW u \in Offsets, Framed(g, u), NEW a \in Starts(g, u)
    PROVE  /\ Framed(g, a) /\ a \in Offsets /\ a <= u
           /\ \A d \in Starts(g, u) : d <= a => d \in Starts(g, a)
<1>1. /\ ui32Size \in Nat /\ u \in 0..(ui32Size - 1) /\ a \in 0..u
      /\ a < u => g[a] \in Headers
  BY SizeIs DEF Offsets, Starts
<1>2. a \in Offsets /\ a <= u
  BY <1>1 DEF Offsets
<1>3. /\ a > 0 => g[0] \in Headers
      /\ \A d \in Offsets : d < a => g[d] \in Headers \cup {Body}
  BY <1>1, <1>2 DEF Framed, Offsets
<1>4. ASSUME NEW d \in Offsets, d < a, g[d] \in Headers
      PROVE  /\ d + g[d].size <= a
             /\ \A j \in Offsets : d < j /\ j < d + g[d].size => g[j] = Body
             /\ d + g[d].size < a => g[d + g[d].size] \in Headers
  <2>1. g[d].size \in 1..ui32Size /\ d \in 0..(ui32Size - 1) /\ d < u
    BY <1>1, <1>4, HeadersAre DEF Offsets
  <2>2. /\ d + g[d].size <= u
        /\ \A j \in Offsets : d < j /\ j < d + g[d].size => g[j] = Body
        /\ d + g[d].size < u => g[d + g[d].size] \in Headers
    BY <1>4, <2>1 DEF Framed
  <2>3. d + g[d].size <= a
    <3> SUFFICES ASSUME ~(d + g[d].size <= a) PROVE FALSE
      OBVIOUS
    <3>1. a < d + g[d].size /\ a < u
      BY <1>1, <2>1, <2>2
    <3>2. g[a] = Body /\ g[a] \in Headers
      BY <1>1, <1>2, <1>4, <2>2, <3>1
    <3>3. QED
      BY <3>2, HeadersAre
  <2>4. QED
    BY <1>1, <2>1, <2>2, <2>3
<1>5. Framed(g, a)
  BY <1>3, <1>4 DEF Framed
<1>6. \A d \in Starts(g, u) : d <= a => d \in Starts(g, a)
  BY <1>1 DEF Starts
<1>7. QED
  BY <1>2, <1>5, <1>6

\* A packet laid behind what is framed is framed with it.
LEMMA FramedGrown ==
    ASSUME NEW g, NEW f, NEW u \in Offsets, Framed(g, u),
           \A d \in Offsets : d < u => f[d] = g[d],
           NEW h \in Headers, u + h.size < ui32Size, Laid(f, u, h)
    PROVE  /\ Framed(f, u + h.size) /\ u + h.size \in Offsets
           /\ \A d \in Starts(g, u) : d \in Starts(f, u + h.size)
<1>1. PICK s, e : s = h.size /\ e = u + s
  OBVIOUS
<1>2. /\ ui32Size \in Nat /\ u \in 0..(ui32Size - 1) /\ s \in 1..ui32Size
      /\ e \in 0..(ui32Size - 1) /\ u < e
  BY <1>1, HeadersAre, SizeIs DEF Offsets
<1>3. Framed(f, u) /\ Starts(f, u) = Starts(g, u)
  BY FramedSame
<1>4. /\ f[u] = h
      /\ \A j \in Offsets : u < j /\ j < e => f[j] = Body
  BY <1>1 DEF Laid
<1>5. e > 0 => f[0] \in Headers
  <2>1. CASE u = 0
    BY <1>4, <2>1
  <2>2. CASE u # 0
    BY <1>2, <1>3, <2>2 DEF Framed
  <2>3. QED
    BY <2>1, <2>2
<1>6. \A d \in Offsets : d < e => f[d] \in Headers \cup {Body}
  <2> SUFFICES ASSUME NEW d \in Offsets, d < e PROVE f[d] \in Headers \cup {Body}
    OBVIOUS
  <2>1. CASE d < u
    BY <1>3, <2>1 DEF Framed
  <2>2. CASE d = u
    BY <1>4, <2>2
  <2>3. CASE u < d
    BY <1>4, <2>3
  <2>4. QED
    BY <1>2, <2>1, <2>2, <2>3 DEF Offsets
<1>7. ASSUME NEW d \in Offsets, d < e, f[d] \in Headers
      PROVE  /\ d + f[d].size <= e
             /\ \A j \in Offsets : d < j /\ j < d + f[d].size => f[j] = Body
             /\ d + f[d].size < e => f[d + f[d].size] \in Headers
  <2>1. CASE d < u
    <3>1. /\ d + f[d].size <= u
          /\ \A j \in Offsets : d < j /\ j < d + f[d].size => f[j] = Body
          /\ d + f[d].size < u => f[d + f[d].size] \in Headers
      BY <1>3, <1>7, <2>1 DEF Framed
    <3>2. f[d].size \in 1..ui32Size /\ d \in 0..(ui32Size - 1)
      BY <1>7, HeadersAre DEF Offsets
    <3>3. CASE d + f[d].size = u
      BY <1>2, <1>4, <3>1, <3>3
    <3>4. CASE d + f[d].size # u
      BY <1>2, <3>1, <3>2, <3>4
    <3>5. QED
      BY <3>3, <3>4
  <2>2. CASE d = u
    BY <1>1, <1>2, <1>4, <2>2
  <2>3. CASE u < d
    <3>1. f[d] = Body
      BY <1>4, <1>7, <2>3
    <3>2. QED
      BY <1>7, <3>1, HeadersAre
  <2>4. QED
    BY <1>2, <2>1, <2>2, <2>3 DEF Offsets
<1>8. Framed(f, e)
  BY <1>5, <1>6, <1>7 DEF Framed
<1>9. \A d \in Starts(g, u) : d \in Starts(f, e)
  <2> SUFFICES ASSUME NEW d \in Starts(g, u) PROVE d \in Starts(f, e)
    OBVIOUS
  <2>1. d \in Starts(f, u)
    BY <1>3
  <2>2. d \in 0..u /\ (d = u \/ f[d] \in Headers)
    BY <2>1 DEF Starts
  <2>3. d \in 0..e /\ f[d] \in Headers
    BY <1>2, <1>4, <2>2
  <2>4. QED
    BY <2>3 DEF Starts
<1>10. QED
  BY <1>1, <1>2, <1>8, <1>9 DEF Offsets

\* What is left when the read offset has moved to where a packet begins.
LEMMA FramedMoved ==
    ASSUME NEW g, NEW f, NEW u \in Offsets, Framed(g, u), NEW c \in Starts(g, u),
           \A d \in Nat : c + d < ui32Size => f[d] = g[c + d]
    PROVE  /\ Framed(f, u - c) /\ u - c \in Offsets /\ c \in Offsets
           /\ \A d \in Starts(g, u) : d >= c => d - c \in Starts(f, u - c)
<1>1. PICK e : e = u - c
  OBVIOUS
<1>2. /\ ui32Size \in Nat /\ u \in 0..(ui32Size - 1) /\ c \in 0..u
      /\ e \in 0..(ui32Size - 1) /\ c + e = u
      /\ c < u => g[c] \in Headers
  BY <1>1, SizeIs DEF Offsets, Starts
<1>3. \A d \in Offsets : d < e => c + d \in Offsets /\ c + d < u /\ f[d] = g[c + d]
  BY <1>2 DEF Offsets
<1>4. e > 0 => f[0] \in Headers
  <2> SUFFICES ASSUME e > 0 PROVE f[0] \in Headers
    OBVIOUS
  <2>1. 0 \in Offsets /\ c + 0 = c /\ c < u
    BY <1>2 DEF Offsets
  <2>2. QED
    BY <1>2, <1>3, <2>1
<1>5. \A d \in Offsets : d < e => f[d] \in Headers \cup {Body}
  BY <1>3 DEF Framed
<1>6. ASSUME NEW d \in Offsets, d < e, f[d] \in Headers
      PROVE  /\ d + f[d].size <= e
             /\ \A j \in Offsets : d < j /\ j < d + f[d].size => f[j] = Body
             /\ d + f[d].size < e => f[d + f[d].size] \in Headers
  <2>1. PICK b, s : b = c + d /\ s = f[d].size
    OBVIOUS
  <2>2. /\ b \in Offsets /\ b < u /\ g[b] = f[d] /\ s \in 1..ui32Size
        /\ d \in 0..(ui32Size - 1)
    BY <1>3, <1>6, <2>1, HeadersAre DEF Offsets
  <2>3. /\ b + s <= u
        /\ \A j \in Offsets : b < j /\ j < b + s => g[j] = Body
        /\ b + s < u => g[b + s] \in Headers
    BY <1>6, <2>1, <2>2 DEF Framed
  <2>4. d + s <= e
    BY <1>2, <2>1, <2>2, <2>3
  <2>5. ASSUME NEW j \in Offsets, d < j, j < d + s PROVE f[j] = Body
    <3>1. j < e /\ b < c + j /\ c + j < b + s
      BY <1>2, <2>1, <2>2, <2>4, <2>5 DEF Offsets
    <3>2. c + j \in Offsets /\ f[j] = g[c + j]
      BY <1>3, <3>1
    <3>3. QED
      BY <2>3, <3>1, <3>2
  <2>6. ASSUME d + s < e PROVE f[d + s] \in Headers
    <3>1. d + s \in Offsets /\ c + (d + s) = b + s /\ b + s < u
      BY <1>2, <2>1, <2>2, <2>6 DEF Offsets
    <3>2. f[d + s] = g[b + s]
      BY <1>3, <2>6, <3>1
    <3>3. QED
      BY <2>3, <3>1, <3>2
  <2>7. QED
    BY <2>1, <2>4, <2>5, <2>6
<1>7. Framed(f, e)
  BY <1>4, <1>5, <1>6 DEF Framed
<1>8. ASSUME NEW d \in Starts(g, u), d >= c PROVE d - c \in Starts(f, e)
  <2>1. PICK x : x = d - c
    OBVIOUS
  <2>2. x \in 0..e /\ c + x = d /\ (d = u \/ g[d] \in Headers)
    <3>1. d \in 0..u /\ (d = u \/ g[d] \in Headers)
      BY DEF Starts
    <3>2. QED
      BY <1>2, <1>8, <2>1, <3>1
  <2>3. x = e \/ x < e
    BY <1>2, <2>2
  <2>4. x < e => x \in Offsets /\ f[x] = g[d] /\ d # u
    BY <1>2, <1>3, <2>2 DEF Offsets
  <2>5. QED
    BY <2>1, <2>2, <2>3, <2>4 DEF Starts
<1>9. QED
  BY <1>1, <1>2, <1>7, <1>8 DEF Offsets

-----------------------------------------------------------------------------
(* The walk from packet to packet.                                         *)

\* One step of a walk to len over a view, given the walk of what is behind;
\* and what a header adds to that.
WalkStep(f, g, n, len) ==
    IF n >= len THEN <<>>
    ELSE CASE g[n] \in Packets           -> <<g[n]>> \o f[n + g[n].size]
           [] g[n] \in Headers \ Packets -> f[n + g[n].size]
           [] OTHER                      -> <<Garbage>>

Walks(f, g, len) == \A n \in 0..(2 * ui32Size) : f[n] = WalkStep(f, g, n, len)
Joined(h, s)     == IF h \in Packets THEN <<h>> \o s ELSE s

\* A set of natural numbers has a least element.
LEMMA LeastNatural ==
    ASSUME NEW T, T \subseteq Nat, T # {}
    PROVE  \E x \in T : \A y \in T : ~(y < x)
<1>1. \E x \in T : \A y \in T : ~(<<y, x>> \in OpToRel(<, Nat))
  BY NatLessThanWellFounded, WFMin, Zenon
<1>2. QED
  BY <1>1 DEF OpToRel

\* What holds at the end, and at a packet when it holds behind it, holds where
\* any packet begins.
LEMMA FramedInduction ==
    ASSUME NEW g, NEW u \in Offsets, Framed(g, u), NEW S, u \in S,
           \A n \in Starts(g, u) : n < u /\ n + g[n].size \in S => n \in S
    PROVE  Starts(g, u) \subseteq S
<1>1. ui32Size \in Nat /\ u \in 0..(ui32Size - 1)
  BY SizeIs DEF Offsets
<1> DEFINE T == {k \in Nat : \E n \in Starts(g, u) : n \notin S /\ n + k = u}
<1>2. T = {}
  <2> SUFFICES ASSUME T # {} PROVE FALSE
    OBVIOUS
  <2>1. PICK k \in T : \A y \in T : ~(y < k)
    <3>1. T \subseteq Nat
      OBVIOUS
    <3> HIDE DEF T
    <3>2. QED
      BY <3>1, LeastNatural
  <2>2. PICK n \in Starts(g, u) : n \notin S /\ n + k = u
    BY <2>1
  <2>3. n \in 0..u /\ n # u /\ n < u /\ g[n] \in Headers /\ n \in Offsets
    BY <1>1, <2>2 DEF Starts, Offsets
  <2>4. PICK b, j : b = n + g[n].size /\ j = u - b
    OBVIOUS
  <2>5. /\ g[n].size \in 1..ui32Size /\ b <= u /\ n < b
        /\ b < u => g[b] \in Headers
    BY <1>1, <2>3, <2>4, HeadersAre DEF Framed
  <2>6. b \in 0..u /\ j \in Nat /\ j < k /\ b + j = u
    BY <1>1, <2>1, <2>2, <2>3, <2>4, <2>5
  <2>7. b \in Starts(g, u)
    BY <2>5, <2>6 DEF Starts
  <2>8. b \notin S
    BY <2>2, <2>3, <2>4
  <2>9. j \in T
    BY <2>6, <2>7, <2>8
  <2>10. QED
    BY <2>1, <2>6, <2>9
<1>3. ASSUME NEW n \in Starts(g, u) PROVE n \in S
  <2>1. PICK k : k = u - n
    OBVIOUS
  <2>2. n \in 0..u
    BY DEF Starts
  <2>3. k \in Nat /\ n + k = u
    BY <1>1, <2>1, <2>2
  <2>4. k \notin T
    BY <1>2
  <2>5. QED
    BY <2>3, <2>4
<1>4. QED
  BY <1>3

\* A step of a walk looks at what is behind it only, and within its domain.
LEMMA WalkStepIs ==
    ASSUME NEW g, NEW len \in 0..ui32Size, NEW e, NEW f,
           NEW n \in 0..(2 * ui32Size), \A m \in 0..(2 * ui32Size) : n < m => f[m] = e[m]
    PROVE  WalkStep(f, g, n, len) = WalkStep(e, g, n, len)
<1>1. CASE n >= len
  BY <1>1 DEF WalkStep
<1>2. CASE ~(n >= len)
  <2>1. PICK h : h = g[n]
    OBVIOUS
  <2>2. ASSUME h \in Headers PROVE f[n + h.size] = e[n + h.size]
    <3>1. h.size \in 1..ui32Size
      BY <2>2, HeadersAre
    <3>2. n + h.size \in 0..(2 * ui32Size) /\ n < n + h.size
      BY <1>2, <3>1, SizeIs
    <3>3. QED
      BY <3>2
  <2>3. \A F : WalkStep(F, g, n, len) =
            CASE h \in Packets           -> <<h>> \o F[n + h.size]
              [] h \in Headers \ Packets -> F[n + h.size]
              [] OTHER                    -> <<Garbage>>
    BY <1>2, <2>1 DEF WalkStep
  <2>4. CASE h \in Packets
    BY <2>2, <2>3, <2>4, HeadersAre
  <2>5. CASE h \in Headers \ Packets
    BY <2>2, <2>3, <2>5
  <2>6. CASE h \notin Headers
    BY <2>3, <2>6, HeadersAre
  <2>7. QED
    BY <2>4, <2>5, <2>6
<1>3. QED
  BY <1>1, <1>2

\* There is such a walk: it is built from its end.
LEMMA WalkExists ==
    ASSUME NEW g, NEW len \in 0..ui32Size
    PROVE  \E f : f = [n \in 0..(2 * ui32Size) |-> WalkStep(f, g, n, len)]
<1>1. PICK D, last : D = 0..(2 * ui32Size) /\ last = 2 * ui32Size + 1
  OBVIOUS
<1>2. last \in Nat /\ \A n \in D : n \in Nat /\ n < last
  BY <1>1, SizeIs
<1> DEFINE Walked(k) == \E f : /\ f = [n \in D |-> f[n]]
                               /\ \A n \in D : n >= k => f[n] = WalkStep(f, g, n, len)
           T == {j \in 0..last : ~Walked(last - j)}
<1>3. Walked(last)
  <2>1. PICK f : f = [n \in D |-> <<>>]
    OBVIOUS
  <2>2. f = [n \in D |-> f[n]]
    BY <2>1
  <2>3. \A n \in D : ~(n >= last)
    BY <1>2
  <2>4. QED
    BY <2>2, <2>3
<1>4. ASSUME NEW k \in Nat, k < last, Walked(k + 1) PROVE Walked(k)
  <2>1. PICK f : /\ f = [n \in D |-> f[n]]
                 /\ \A n \in D : n >= k + 1 => f[n] = WalkStep(f, g, n, len)
    BY <1>4
  <2>2. PICK e : e = [n \in D |-> IF n = k THEN WalkStep(f, g, k, len) ELSE f[n]]
    OBVIOUS
  <2>3. /\ e = [n \in D |-> e[n]]
        /\ \A n \in D : n # k => e[n] = f[n]
        /\ k \in D => e[k] = WalkStep(f, g, k, len)
    BY <2>2
  <2>4. ASSUME NEW n \in D, n >= k PROVE e[n] = WalkStep(e, g, n, len)
    <3>1. \A m \in 0..(2 * ui32Size) : n < m => f[m] = e[m]
      BY <1>1, <1>2, <1>4, <2>3, <2>4
    <3>2. WalkStep(f, g, n, len) = WalkStep(e, g, n, len)
      BY <1>1, <3>1, WalkStepIs
    <3>3. CASE n = k
      BY <2>3, <2>4, <3>2, <3>3
    <3>4. CASE n # k
      <4>1. n >= k + 1
        BY <1>2, <2>4, <3>4
      <4>2. QED
        BY <2>1, <2>3, <2>4, <3>2, <3>4, <4>1
    <3>5. QED
      BY <3>3, <3>4
  <2>5. QED
    BY <2>3, <2>4
<1>5. Walked(0)
  <2>1. SUFFICES ASSUME ~Walked(0) PROVE FALSE
    OBVIOUS
  <2>2. T \subseteq Nat /\ last \in T
    <3>1. last \in 0..last /\ last - last = 0
      BY <1>2
    <3>2. ~Walked(last - last)
      BY ONLY <2>1, <3>1
    <3>3. QED
      BY <1>2, <3>1, <3>2
  <2>3. PICK j \in T : \A y \in T : ~(y < j)
    <3> HIDE DEF T
    <3>1. QED
      BY <2>2, LeastNatural
  <2>4. j \in 0..last /\ ~Walked(last - j)
    BY <2>3
  <2>5. CASE j = 0
    <3>1. last - j = last
      BY <1>2, <2>5
    <3>2. QED
      BY ONLY <1>3, <2>4, <3>1
  <2>6. CASE j # 0
    <3>1. PICK k : k = last - j
      OBVIOUS
    <3>2. /\ k \in Nat /\ k < last /\ k + 1 = last - (j - 1)
          /\ j - 1 \in 0..last /\ j - 1 < j
      BY <1>2, <2>4, <2>6, <3>1
    <3>3. j - 1 \notin T
      BY <2>3, <3>2
    <3>4. Walked(last - (j - 1))
      BY <3>2, <3>3
    <3>5. Walked(k + 1)
      BY ONLY <3>2, <3>4
    <3>6. Walked(k)
      <4> HIDE DEF Walked
      <4>1. QED
        BY <1>4, <3>2, <3>5
    <3>7. QED
      BY ONLY <2>4, <3>1, <3>6
  <2>7. QED
    BY <2>5, <2>6
<1>6. PICK f : /\ f = [n \in D |-> f[n]]
               /\ \A n \in D : n >= 0 => f[n] = WalkStep(f, g, n, len)
  BY <1>5
<1>7. \A n \in D : f[n] = WalkStep(f, g, n, len)
  BY <1>2, <1>6
<1>8. f = [n \in D |-> WalkStep(f, g, n, len)]
  BY <1>6, <1>7
<1>9. QED
  BY <1>1, <1>8

\* The walk of the model, before its cells are found by their distance.
RingStep(f, n, len) ==
    IF n >= len THEN <<>>
    ELSE LET h == buf[(ui32Read + n) % ui32Size] IN
         CASE h \in Packets           -> <<h>> \o f[n + h.size]
           [] h \in Headers \ Packets -> f[n + h.size]
           [] OTHER                   -> <<Garbage>>

LEMMA WalkIs ==
    ASSUME TypeOK, NEW len \in 0..ui32Size
    PROVE  \E f : Walks(f, View, len) /\ Walk(len) = f[0]
<1>1. PICK w : w = CHOOSE f : f = [n \in 0..(2 * ui32Size) |-> RingStep(f, n, len)]
  OBVIOUS
<1>2. Walk(len) = w[0]
  BY <1>1 DEF Walk, RingStep
<1>3. \A f : \A n \in 0..(2 * ui32Size) : RingStep(f, n, len) = WalkStep(f, View, n, len)
  <2> SUFFICES ASSUME NEW f, NEW n \in 0..(2 * ui32Size)
               PROVE  RingStep(f, n, len) = WalkStep(f, View, n, len)
    OBVIOUS
  <2>1. CASE n >= len
    BY <2>1 DEF RingStep, WalkStep
  <2>2. CASE ~(n >= len)
    <3>1. n \in Offsets
      BY <2>2, SizeIs DEF Offsets
    <3>2. /\ ui32Read \in Offsets /\ (ui32Read + n) % ui32Size = At(ui32Read, n)
          /\ View[n] = buf[At(ui32Read, n)]
      BY <3>1, PlaceIs, ViewIs DEF TypeOK
    <3>3. PICK h : h = View[n]
      OBVIOUS
    <3>4. RingStep(f, n, len) =
              CASE h \in Packets           -> <<h>> \o f[n + h.size]
                [] h \in Headers \ Packets -> f[n + h.size]
                [] OTHER                   -> <<Garbage>>
      BY <2>2, <3>2, <3>3 DEF RingStep
    <3>5. WalkStep(f, View, n, len) =
              CASE h \in Packets           -> <<h>> \o f[n + h.size]
                [] h \in Headers \ Packets -> f[n + h.size]
                [] OTHER                   -> <<Garbage>>
      BY <2>2, <3>3 DEF WalkStep
    <3>6. QED
      BY <3>4, <3>5
  <2>3. QED
    BY <2>1, <2>2
<1>4. \E f : f = [n \in 0..(2 * ui32Size) |-> RingStep(f, n, len)]
  <2>1. PICK f : f = [n \in 0..(2 * ui32Size) |-> WalkStep(f, View, n, len)]
    BY WalkExists
  <2>2. f = [n \in 0..(2 * ui32Size) |-> RingStep(f, n, len)]
    BY <1>3, <2>1
  <2>3. QED
    BY <2>2
<1>5. w = [n \in 0..(2 * ui32Size) |-> RingStep(w, n, len)]
  BY <1>1, <1>4
<1>6. \A n \in 0..(2 * ui32Size) : w[n] = RingStep(w, n, len)
  BY <1>5
<1>7. Walks(w, View, len)
  BY <1>3, <1>6 DEF Walks
<1>8. QED
  BY <1>2, <1>7

\* What a packet, padding or mark adds to the walk behind it.
LEMMA JoinedIs ==
    ASSUME NEW h, NEW s \in Seq(Packets), NEW t \in Seq(Packets)
    PROVE  /\ Joined(h, s) \in Seq(Packets)
           /\ Joined(h, s \o t) = Joined(h, s) \o t
<1>1. CASE h \in Packets
  <2>1. PICK x : x = <<h>>
    OBVIOUS
  <2>2. x \in Seq(Packets)
    BY <1>1, <2>1
  <2>3. Joined(h, s) = x \o s /\ Joined(h, s \o t) = x \o (s \o t)
    BY <1>1, <2>1 DEF Joined
  <2>4. x \o s \in Seq(Packets) /\ (x \o s) \o t = x \o (s \o t)
    BY <2>2, ConcatAssociative, ConcatProperties
  <2>5. QED
    BY <2>3, <2>4
<1>2. CASE h \notin Packets
  BY <1>2 DEF Joined
<1>3. QED
  BY <1>1, <1>2

\* A walk over what is framed goes from packet to packet.
LEMMA WalkBehind ==
    ASSUME NEW g, NEW u \in Offsets, Framed(g, u), NEW f, Walks(f, g, u),
           NEW n \in Starts(g, u)
    PROVE  /\ n = u => f[n] = <<>>
           /\ n < u => /\ n + g[n].size \in Starts(g, u) /\ n < n + g[n].size
                       /\ g[n] \in Headers
                       /\ f[n] = Joined(g[n], f[n + g[n].size])
<1>1. ui32Size \in Nat /\ u \in 0..(ui32Size - 1) /\ n \in 0..u /\ (n < u => g[n] \in Headers)
  BY SizeIs DEF Offsets, Starts
<1>2. n \in 0..(2 * ui32Size)
  BY <1>1
<1>3. f[n] = WalkStep(f, g, n, u)
  BY <1>2 DEF Walks
<1>4. n = u => f[n] = <<>>
  BY <1>1, <1>3 DEF WalkStep
<1>5. ASSUME n < u
      PROVE  /\ n + g[n].size \in Starts(g, u) /\ n < n + g[n].size
             /\ g[n] \in Headers
             /\ f[n] = Joined(g[n], f[n + g[n].size])
  <2>1. PICK h, b : h = g[n] /\ b = n + h.size
    OBVIOUS
  <2>2. h \in Headers /\ h.size \in 1..ui32Size /\ n \in Offsets
    BY <1>1, <1>5, <2>1, HeadersAre DEF Offsets
  <2>3. b <= u /\ (b < u => g[b] \in Headers)
    BY <1>5, <2>1, <2>2 DEF Framed
  <2>4. b \in 0..u /\ n < b
    BY <1>1, <2>1, <2>2, <2>3
  <2>5. b \in Starts(g, u)
    BY <1>1, <2>3, <2>4 DEF Starts
  <2>6. ~(n >= u)
    BY <1>1, <1>5
  <2>7. f[n] = CASE h \in Packets           -> <<h>> \o f[b]
                 [] h \in Headers \ Packets -> f[b]
                 [] OTHER                   -> <<Garbage>>
    BY <1>3, <2>1, <2>6 DEF WalkStep
  <2>8. f[n] = Joined(h, f[b])
    BY <2>2, <2>7 DEF Joined
  <2>9. QED
    BY <2>1, <2>2, <2>4, <2>5, <2>8
<1>6. QED
  BY <1>4, <1>5

\* It meets nothing but packets, padding and marks.
LEMMA WalkInSeq ==
    ASSUME NEW g, NEW u \in Offsets, Framed(g, u), NEW f, Walks(f, g, u)
    PROVE  \A n \in Starts(g, u) : f[n] \in Seq(Packets)
<1>1. PICK S : S = {n \in Starts(g, u) : f[n] \in Seq(Packets)}
  OBVIOUS
<1>2. u \in Starts(g, u)
  BY SizeIs DEF Starts, Offsets
<1>3. u \in S
  <2>1. f[u] = <<>>
    BY <1>2, WalkBehind
  <2>2. <<>> \in Seq(Packets)
    BY EmptySeq
  <2>3. QED
    BY <1>1, <1>2, <2>1, <2>2
<1>4. ASSUME NEW n \in Starts(g, u), n < u, n + g[n].size \in S PROVE n \in S
  <2>1. f[n] = Joined(g[n], f[n + g[n].size])
    BY <1>4, WalkBehind
  <2>2. f[n + g[n].size] \in Seq(Packets)
    BY <1>1, <1>4
  <2>3. QED
    BY <1>1, <2>1, <2>2, JoinedIs
<1>5. Starts(g, u) \subseteq S
  BY <1>3, <1>4, FramedInduction
<1>6. QED
  BY <1>1, <1>5

\* A walk can be cut where a packet begins.
Cut(f, e, g, a) == \A n \in Starts(g, a) : f[n] = e[n] \o f[a]

LEMMA WalkSplit ==
    ASSUME NEW g, NEW u \in Offsets, Framed(g, u), NEW f, Walks(f, g, u),
           NEW a \in Starts(g, u), NEW e, Walks(e, g, a)
    PROVE  Cut(f, e, g, a)
<1>1. /\ Framed(g, a) /\ a \in Offsets /\ a <= u
      /\ f[a] \in Seq(Packets) /\ \A n \in Starts(g, a) : e[n] \in Seq(Packets)
  BY FramedPart, WalkInSeq
<1>2. PICK S, t : S = {n \in Starts(g, a) : f[n] = e[n] \o f[a]} /\ t = f[a]
  OBVIOUS
<1>3. a \in Starts(g, a)
  BY <1>1, SizeIs DEF Starts, Offsets
<1>4. a \in S
  <2>1. e[a] = <<>>
    BY <1>1, <1>3, WalkBehind
  <2>2. <<>> \o t = t
    BY <1>1, <1>2, ConcatEmptySeq
  <2>3. QED
    BY <1>2, <1>3, <2>1, <2>2
<1>5. ASSUME NEW n \in Starts(g, a), n < a, n + g[n].size \in S PROVE n \in S
  <2>1. PICK b : b = n + g[n].size
    OBVIOUS
  <2>2. e[n] = Joined(g[n], e[b])
    BY <1>1, <1>5, <2>1, WalkBehind
  <2>3. n \in Starts(g, u) /\ n < u
    BY <1>1, <1>5, SizeIs DEF Starts, Offsets
  <2>4. f[n] = Joined(g[n], f[b])
    BY <2>1, <2>3, WalkBehind
  <2>5. b \in Starts(g, a) /\ f[b] = e[b] \o t
    BY <1>2, <1>5, <2>1
  <2>6. e[b] \in Seq(Packets) /\ t \in Seq(Packets)
    BY <1>1, <1>2, <2>5
  <2>7. Joined(g[n], e[b] \o t) = Joined(g[n], e[b]) \o t
    BY <2>6, JoinedIs
  <2>8. f[n] = e[n] \o t
    BY <2>2, <2>4, <2>5, <2>7
  <2>9. QED
    BY <1>2, <2>8
<1>6. Starts(g, a) \subseteq S
  BY <1>1, <1>4, <1>5, FramedInduction
<1>7. QED
  BY <1>2, <1>6 DEF Cut

\* The same walk from another place to look from.
LEMMA WalkMoved ==
    ASSUME NEW g, NEW u \in Offsets, Framed(g, u), NEW f, Walks(f, g, u),
           NEW c \in Starts(g, u), NEW h, NEW e, Walks(e, h, u - c),
           \A d \in Offsets : c + d < u => h[d] = g[c + d]
    PROVE  /\ \A n \in Starts(g, u) : n >= c => e[n - c] = f[n]
           /\ e[0] = f[c]
<1>1. /\ ui32Size \in Nat /\ u \in 0..(ui32Size - 1) /\ c \in 0..u
      /\ \A n \in Starts(g, u) : n \in 0..u
  BY SizeIs DEF Offsets, Starts
<1>2. PICK S : S = {n \in Starts(g, u) : n >= c => e[n - c] = f[n]}
  OBVIOUS
<1>3. \A d \in 0..(u - c) : e[d] = WalkStep(e, h, d, u - c)
  <2>1. \A d \in 0..(u - c) : d \in 0..(2 * ui32Size)
    BY <1>1
  <2>2. QED
    BY <2>1 DEF Walks
<1>4. u \in S
  <2>1. u \in Starts(g, u)
    BY <1>1 DEF Starts
  <2>2. f[u] = <<>>
    BY <2>1, WalkBehind
  <2>3. e[u - c] = <<>>
    <3>1. u - c \in 0..(u - c) /\ u - c >= u - c
      BY <1>1
    <3>2. QED
      BY <1>3, <3>1 DEF WalkStep
  <2>4. QED
    BY <1>2, <2>1, <2>2, <2>3
<1>5. ASSUME NEW n \in Starts(g, u), n < u, n + g[n].size \in S PROVE n \in S
  <2> SUFFICES ASSUME n >= c PROVE e[n - c] = f[n]
    BY <1>2
  <2>1. PICK x, b, d : x = g[n] /\ b = n + x.size /\ d = n - c
    OBVIOUS
  <2>2. /\ x \in Headers /\ f[n] = Joined(x, f[b]) /\ b \in Starts(g, u) /\ n < b
    BY <1>5, <2>1, WalkBehind
  <2>3. x.size \in 1..ui32Size /\ n \in 0..u /\ b \in 0..u
    BY <1>1, <2>2, HeadersAre
  <2>4. /\ d \in 0..(u - c) /\ c + d = n /\ d \in Offsets /\ ~(d >= u - c)
        /\ b - c = d + x.size /\ b >= c /\ c + d < u
    BY <1>1, <1>5, <2>1, <2>3 DEF Offsets
  <2>5. h[d] = x
    BY <2>1, <2>4
  <2>6. e[d] = CASE x \in Packets           -> <<x>> \o e[d + x.size]
                 [] x \in Headers \ Packets -> e[d + x.size]
                 [] OTHER                   -> <<Garbage>>
    BY <1>3, <2>4, <2>5 DEF WalkStep
  <2>7. e[d] = Joined(x, e[d + x.size])
    BY <2>2, <2>6 DEF Joined
  <2>8. e[b - c] = f[b]
    BY <1>2, <1>5, <2>1, <2>4
  <2>9. QED
    BY <2>1, <2>2, <2>4, <2>7, <2>8
<1>6. Starts(g, u) \subseteq S
  BY <1>4, <1>5, FramedInduction
<1>7. \A n \in Starts(g, u) : n >= c => e[n - c] = f[n]
  BY <1>2, <1>6
<1>8. c >= c /\ c - c = 0
  BY <1>1
<1>9. QED
  BY <1>7, <1>8

-----------------------------------------------------------------------------
(* The ring, and the packets in it.                                        *)

\* The packets that can be read.
Queue == Walk(Unread)

\* What is known of the ring in every state.
RingFacts ==
    /\ Unread = Ahead(ui32Read, ui32Write) /\ Unread \in Offsets
    /\ At(ui32Read, Unread) = ui32Write
    /\ ui32Read \in Offsets /\ ui32Write \in Offsets
    /\ View \in [Offsets -> Cells] /\ buf \in [Offsets -> Cells]
    /\ \A d \in Offsets : View[d] = buf[At(ui32Read, d)]

\* Queue and HeldPackets are walks over the view.
QueueFacts ==
    /\ \E f : Walks(f, View, Unread) /\ Queue = f[0]
    /\ acquired.len = 0 => HeldPackets = 0
    /\ acquired.len # 0 /\ acquired.offset = ui32Read =>
          \E f : Walks(f, View, acquired.len) /\ HeldPackets = Len(f[0])

LEMMA RingFactsHold == TypeOK => RingFacts
  BY UnreadIs, ViewIs DEF RingFacts

LEMMA RingFactsNext == TypeOK' => RingFacts'
  BY RingFactsHold, PTL

LEMMA QueueFactsHold == TypeOK => QueueFacts
<1> SUFFICES ASSUME TypeOK PROVE QueueFacts
  OBVIOUS
<1>1. PICK u, a : u = Unread /\ a = acquired.len
  OBVIOUS
<1>2. u \in 0..ui32Size /\ a \in 0..ui32Size
  BY <1>1, UnreadIs, SizeIs DEF Offsets, TypeOK
<1>3. \E f : Walks(f, View, Unread) /\ Queue = f[0]
  BY <1>1, <1>2, WalkIs DEF Queue
<1>4. \E f : Walks(f, View, acquired.len) /\ Walk(acquired.len) = f[0]
  BY <1>1, <1>2, WalkIs
<1>5. /\ acquired.len = 0 => HeldPackets = 0
      /\ acquired.len # 0 /\ acquired.offset = ui32Read =>
            HeldPackets = Len(Walk(acquired.len))
  BY DEF HeldPackets
<1>6. QED
  BY <1>3, <1>4, <1>5 DEF QueueFacts

LEMMA QueueFactsNext == TypeOK' => QueueFacts'
  BY QueueFactsHold, PTL

\* The read offset moves on to where a packet begins.
LEMMA RingMoves ==
    ASSUME TypeOK, TypeOK', Ring, NEW c \in Starts(View, Unread),
           ui32Read' = At(ui32Read, c), ui32Write' = ui32Write,
           buf' = Forgotten(ui32Read, At(ui32Read, c))
    PROVE  /\ Ring' /\ Unread' = Unread - c /\ c \in Offsets /\ c <= Unread
           /\ \A d \in Nat : c + d < ui32Size => View'[d] = View[c + d]
           /\ \A d \in Starts(View, Unread) : d >= c => d - c \in Starts(View', Unread')
<1>1. RingFacts /\ RingFacts' /\ Framed(View, Unread)
  BY RingFactsHold, RingFactsNext DEF Ring
<1>2. PICK u, g, h, v : u = Unread /\ g = View /\ h = View' /\ v = u - c
  OBVIOUS
<1>3. /\ u \in 0..(ui32Size - 1) /\ c \in 0..u /\ ui32Size \in Nat /\ c \in Offsets
      /\ v \in 0..u /\ c + v = u /\ c + v < ui32Size /\ ui32Size >= 2
  <2>1. u \in Offsets /\ ui32Size \in Nat /\ ui32Size >= 2
    BY <1>1, <1>2, SizeIs DEF RingFacts
  <2>2. u \in 0..(ui32Size - 1)
    BY <2>1 DEF Offsets
  <2>3. c \in 0..u
    BY <1>2 DEF Starts
  <2>4. PICK m : m = ui32Size
    OBVIOUS
  <2>5. /\ c \in 0..(m - 1) /\ u - c \in 0..u /\ c + (u - c) = u /\ u < m
    BY <2>1, <2>2, <2>3, <2>4
  <2>6. QED
    BY <1>2, <2>1, <2>2, <2>3, <2>4, <2>5 DEF Offsets
<1>4. /\ \A o \in Offsets : buf'[o] = buf[o] \/ buf'[o] = Garbage
      /\ \A d \in Nat : c + d < ui32Size => h[d] = g[c + d]
  BY <1>2, <1>3, ForgottenSeen
<1>5. Unread' = v
  <2>1. Ahead(ui32Read, ui32Write) = c + v
    BY <1>1, <1>2, <1>3 DEF RingFacts
  <2>2. Ahead(At(ui32Read, c), ui32Write) = v
    BY <1>1, <1>3, <2>1, SumIs DEF RingFacts
  <2>3. Unread' = Ahead(ui32Read', ui32Write')
    BY <1>1 DEF RingFacts, Ahead
  <2>4. QED
    BY <2>2, <2>3
<1>6. /\ Framed(h, v)
      /\ \A d \in Starts(g, u) : d >= c => d - c \in Starts(h, v)
  BY <1>1, <1>2, <1>4, FramedMoved DEF RingFacts
<1>7. buf'[0] # Body
  <2>1. buf[0] # Body /\ 0 \in Offsets
    BY <1>3 DEF Ring, Offsets
  <2>2. QED
    BY <1>4, <2>1, HeadersAre
<1>8. ASSUME v + 1 = ui32Size PROVE h[ui32Size - 2] = WriteFailed
  <2>1. c = 0 /\ u + 1 = ui32Size /\ ui32Size - 2 \in Nat /\ c + (ui32Size - 2) < ui32Size
        /\ c + (ui32Size - 2) = ui32Size - 2
    BY <1>3, <1>8
  <2>2. h[ui32Size - 2] = g[ui32Size - 2]
    BY <1>4, <2>1
  <2>3. QED
    BY <1>2, <2>1, <2>2 DEF Ring
<1>9. Ring'
  BY <1>2, <1>5, <1>6, <1>7, <1>8 DEF Ring
<1>10. QED
  BY <1>2, <1>3, <1>4, <1>5, <1>6, <1>9

\* A header is published behind what can be read.
LEMMA RingGrows ==
    ASSUME TypeOK, TypeOK', Ring, ui32Read' = ui32Read, NEW h \in Headers,
           Unread + h.size < ui32Size, Unread' = Unread + h.size,
           \A d \in Offsets : d < Unread => View'[d] = View[d],
           Laid(View', Unread, h), buf'[0] # Body,
           Unread + h.size + 1 = ui32Size => h = WriteFailed
    PROVE  Ring' /\ \A d \in Starts(View, Unread) : d \in Starts(View', Unread')
<1>1. RingFacts /\ Framed(View, Unread)
  BY RingFactsHold DEF Ring
<1>2. PICK u, g, f, v : u = Unread /\ g = View /\ f = View' /\ v = u + h.size
  OBVIOUS
<1>3. /\ u \in Offsets /\ u \in 0..(ui32Size - 1) /\ ui32Size \in Nat
      /\ h.size \in 1..ui32Size /\ ui32Size >= 2
  BY <1>1, <1>2, SizeIs, HeadersAre DEF RingFacts, Offsets
<1>4. Laid(f, u, h)
  BY <1>2 DEF Laid
<1>5. Framed(f, v) /\ \A d \in Starts(g, u) : d \in Starts(f, v)
  BY <1>1, <1>2, <1>3, <1>4, FramedGrown
<1>6. ASSUME v + 1 = ui32Size PROVE f[ui32Size - 2] = WriteFailed
  <2>1. h = WriteFailed
    BY <1>2, <1>6
  <2>2. u = ui32Size - 2
    BY <1>2, <1>3, <1>6, <2>1, HeadersAre
  <2>3. QED
    BY <1>4, <2>1, <2>2 DEF Laid
<1>7. Ring'
  BY <1>2, <1>5, <1>6 DEF Ring
<1>8. QED
  BY <1>2, <1>5, <1>7

\* What can be read stays as it is.
LEMMA RingKept ==
    ASSUME TypeOK, TypeOK', Ring, UNCHANGED <<ui32Read, ui32Write>>,
           \A d \in Offsets : d < Unread => View'[d] = View[d], buf'[0] # Body
    PROVE  Ring' /\ Unread' = Unread /\ Starts(View', Unread) = Starts(View, Unread)
<1>1. RingFacts /\ RingFacts' /\ Framed(View, Unread)
  BY RingFactsHold, RingFactsNext DEF Ring
<1>2. Unread' = Unread
  BY <1>1 DEF RingFacts, Ahead
<1>3. PICK u, g, f : u = Unread /\ g = View /\ f = View'
  OBVIOUS
<1>4. u \in Offsets /\ u \in 0..(ui32Size - 1) /\ ui32Size \in Nat /\ ui32Size >= 2
  BY <1>1, <1>3, SizeIs DEF RingFacts, Offsets
<1>5. Framed(f, u) /\ Starts(f, u) = Starts(g, u)
  BY <1>1, <1>3, <1>4, FramedSame
<1>6. ASSUME u + 1 = ui32Size PROVE f[ui32Size - 2] = WriteFailed
  <2>1. ui32Size - 2 \in Offsets /\ ui32Size - 2 < u
    BY <1>4, <1>6 DEF Offsets
  <2>2. f[ui32Size - 2] = g[ui32Size - 2]
    BY <1>3, <2>1
  <2>3. QED
    BY <1>3, <1>6, <2>2 DEF Ring
<1>7. Ring'
  BY <1>2, <1>3, <1>5, <1>6 DEF Ring
<1>8. QED
  BY <1>2, <1>3, <1>5, <1>7

-----------------------------------------------------------------------------
(* What the steps do to the ring.                                          *)

\* Free cells, without the case of a ring that has wrapped.
LEMMA SpaceIs ==
    ASSUME NEW a \in Offsets, NEW b \in Offsets
    PROVE  SpaceLeft(a, b) = ui32Size - Ahead(a, b) - 2
  BY SizeIs DEF SpaceLeft, Ahead, RESERVED, Offsets

\* The end of what fits before the end of the ring, and its distance.
LEMMA EndAt ==
    ASSUME NEW r \in Offsets, NEW u \in Offsets, NEW s \in Nat,
           At(r, u) + s <= ui32Size, u + s < ui32Size
    PROVE  /\ (At(r, u) + s) % ui32Size = At(r, u + s) /\ u + s \in Offsets
           /\ At(r, u) + s = ui32Size => At(r, u + s) = 0
<1>1. /\ ui32Size \in Nat /\ r \in 0..(ui32Size - 1) /\ u \in 0..(ui32Size - 1)
      /\ At(r, u) \in 0..(ui32Size - 1)
  BY SizeIs, PlaceIs DEF Offsets
<1>2. u + s \in Offsets
  BY <1>1 DEF Offsets
<1>3. PICK o : o = At(r, u)
  OBVIOUS
<1>4. o + s \in Nat /\ o + s <= ui32Size
  BY <1>1, <1>3
<1>5. (o + s) % ui32Size = IF o + s = ui32Size THEN 0 ELSE o + s
  BY <1>4, EndIs
<1>6. At(r, u + s) = IF o + s = ui32Size THEN 0 ELSE o + s
  BY <1>1, <1>3, <1>4 DEF At
<1>7. QED
  BY <1>2, <1>3, <1>5, <1>6

\* A mark needs one cell, and finds it.
LEMMA MarkSeen ==
    ASSUME StreamInv, TypeOK', NEW w \in Writers, DropNewer(w),
           ~UNCHANGED <<buf, ui32Write>>
    PROVE  /\ ui32Read' = ui32Read /\ Unread + 1 < ui32Size /\ Unread' = Unread + 1
           /\ \A d \in Offsets : d < Unread => View'[d] = View[d]
           /\ Laid(View', Unread, WriteFailed) /\ buf'[0] # Body
<1>1. TypeOK /\ RingFacts /\ RingFacts' /\ Ring
  BY RingFactsHold, RingFactsNext DEF StreamInv, ReservedInv
<1>2. PICK o, u, r : o = ui32Write /\ u = Unread /\ r = ui32Read
  OBVIOUS
<1>3. /\ o \in Offsets /\ u \in Offsets /\ r \in Offsets
      /\ o = At(r, u) /\ buf \in [Offsets -> Cells]
      /\ \A d \in Offsets : View[d] = buf[At(r, d)]
  BY <1>1, <1>2 DEF RingFacts
<1>4. local[w].write = o
  BY <1>2 DEF StreamInv, Writing, DropNewer, Sampled
<1>5. /\ buf[(o - 1) % ui32Size] # WriteFailed
      /\ buf' = Written(buf, o, WriteFailed)
      /\ ui32Write' = (o + 1) % ui32Size
      /\ ui32Read' = ui32Read
  BY <1>4 DEF DropNewer
<1>6. /\ ui32Size \in Nat /\ ui32Size >= 2 /\ o \in 0..(ui32Size - 1)
      /\ u \in 0..(ui32Size - 1) /\ r \in 0..(ui32Size - 1)
  BY <1>3, SizeIs DEF Offsets
<1>7. u + 1 < ui32Size
  <2> SUFFICES ASSUME ~(u + 1 < ui32Size) PROVE FALSE
    OBVIOUS
  <2>1. u + 1 = ui32Size
    BY <1>6
  <2>2. View[ui32Size - 2] = WriteFailed
    BY <1>1, <1>2, <2>1 DEF Ring
  <2>3. ui32Size - 2 \in Offsets
    BY <1>6 DEF Offsets
  <2>4. buf[At(r, ui32Size - 2)] = WriteFailed
    BY <1>3, <2>2, <2>3
  <2>5. CASE o = 0
    <3>1. o - 1 = (ui32Size - 1) - ui32Size
      BY <1>6, <2>5
    <3>2. ui32Size - 1 \in Offsets /\ ui32Size - 1 # 0
      BY <1>6 DEF Offsets
    <3>3. (o - 1) % ui32Size = ui32Size - 1
      BY <3>1, <3>2, RemainderIs
    <3>4. At(r, ui32Size - 2) = ui32Size - 1
      BY <1>3, <1>6, <2>1, <2>5 DEF At
    <3>5. QED
      BY <1>5, <2>4, <3>3, <3>4
  <2>6. CASE o # 0
    <3>1. o - 1 \in Offsets
      BY <1>6, <2>6 DEF Offsets
    <3>2. (o - 1) % ui32Size = o - 1
      BY <3>1, RemainderIs
    <3>3. At(r, ui32Size - 2) = o - 1
      BY <1>3, <1>6, <2>1, <2>6 DEF At
    <3>4. QED
      BY <1>5, <2>4, <3>2, <3>3
  <2>7. QED
    BY <2>5, <2>6
<1>8. WriteFailed \in Headers /\ WriteFailed.size = 1
  BY HeadersAre
<1>9. o + 1 <= ui32Size /\ u + 1 <= ui32Size
  BY <1>6
<1>10. /\ buf'[0] # Body
  <2>1. buf[0] # Body
    BY <1>1 DEF Ring
  <2>2. QED
    BY <1>3, <1>5, <1>8, <1>9, <2>1, WrittenIs
<1>11. \A d \in Offsets :
           /\ View'[d] = Written(buf, At(r, u), WriteFailed)[At(r, d)]
           /\ View[d] = buf[At(r, d)]
  BY <1>1, <1>2, <1>3, <1>5 DEF RingFacts, At
<1>12. \A d \in Offsets : d < u => View'[d] = View[d]
  <2> SUFFICES ASSUME NEW d \in Offsets, d < u PROVE View'[d] = View[d]
    OBVIOUS
  <2>1. Written(buf, At(r, u), WriteFailed)[At(r, d)] = buf[At(r, d)]
    BY <1>3, <1>8, <1>9, WrittenSeen
  <2>2. QED
    BY <1>11, <2>1
<1>13. Laid(View', u, WriteFailed)
  <2>1. Written(buf, At(r, u), WriteFailed)[At(r, u)] = WriteFailed
    BY <1>3, <1>8, <1>9, WrittenSeen
  <2>2. View'[u] = WriteFailed
    BY <1>3, <1>11, <2>1
  <2>3. \A j \in Offsets : ~(u < j /\ j < u + WriteFailed.size)
    BY <1>6, <1>8 DEF Offsets
  <2>4. QED
    BY <2>2, <2>3 DEF Laid
<1>14. Unread' = u + 1
  <2>1. (o + 1) % ui32Size = At(r, u + 1) /\ u + 1 \in Offsets
    BY <1>3, <1>7, <1>9, EndAt
  <2>2. Unread' = Ahead(r, ui32Write')
    BY <1>1, <1>2, <1>5 DEF RingFacts, Ahead
  <2>3. QED
    BY <1>3, <1>5, <2>1, <2>2, PlaceIs
<1>15. QED
  BY <1>2, <1>5, <1>7, <1>10, <1>12, <1>13, <1>14

\* What a writer found free is still free.
LEMMA SpaceKept ==
    ASSUME StreamInv, NEW w \in Writers, Sampled(w), HasSpace(local[w]), Busy(w)
    PROVE  Room(Unread, local[w].size + Pad(local[w]))
<1>1. TypeOK /\ RingFacts
  BY RingFactsHold DEF StreamInv, ReservedInv
<1>2. PICK q, p, u : q = local[w] /\ p = Pad(q) /\ u = Unread
  OBVIOUS
<1>3. q.size \in PacketSizes /\ q.read \in Offsets /\ q.write \in Offsets
  BY <1>2, OnlyOne DEF StreamInv, Requests
<1>4. ReqSizeActual(q) = q.size + p /\ p \in Nat /\ q.size \in Nat
  BY <1>1, <1>2, <1>3, PadIs, SizeIs
<1>5. SpaceLeft(q.read, q.write) = ui32Size - Ahead(q.read, q.write) - 2
  BY <1>3, SpaceIs
<1>6. /\ q.write = ui32Write /\ Ahead(q.read, ui32Read) + u = Ahead(q.read, ui32Write)
  BY <1>2 DEF Sampled
<1>7. /\ Ahead(q.read, ui32Read) \in 0..(ui32Size - 1)
      /\ Ahead(q.read, ui32Write) \in 0..(ui32Size - 1)
  BY <1>1, <1>3, DistanceIs DEF RingFacts, Offsets
<1>8. u \in 0..(ui32Size - 1) /\ ui32Size \in Nat
  BY <1>1, <1>2, SizeIs DEF RingFacts, Offsets
<1>9. ui32Size - Ahead(q.read, q.write) - 2 >= q.size + p
  BY <1>2, <1>4, <1>5 DEF HasSpace
<1>10. u + (q.size + p) + 2 <= ui32Size
  BY <1>4, <1>6, <1>7, <1>8, <1>9
<1>11. QED
  BY <1>2, <1>10 DEF Room, RESERVED

\* A packet is laid out behind what can be read, or behind the padding that is
\* published.
LEMMA HeaderSeen ==
    ASSUME StreamInv, TypeOK', NEW w \in Writers, WriteHeader(w),
           NEW q, q = local[w], NEW p, p = Pad(q)
    PROVE  /\ ui32Read' = ui32Read /\ p \in Nat /\ q.size \in PacketSizes
           /\ Unread' = Unread + p /\ Room(Unread', q.size)
           /\ ui32Write' + q.size <= ui32Size
           /\ p = 0 => ui32Write' = ui32Write
           /\ \A d \in Offsets : d < Unread => View'[d] = View[d]
           /\ p # 0 => /\ p \in 1..ui32Size /\ Laid(View', Unread, Padding(p))
           /\ Laid(View', Unread', Data(q.size)) /\ buf'[0] # Body
<1>1. TypeOK /\ RingFacts /\ RingFacts' /\ Ring /\ Busy(w) /\ HasSpace(q)
  BY RingFactsHold, RingFactsNext DEF StreamInv, ReservedInv, WriteHeader, Busy
<1>2. PICK o, u, r, h : o = ui32Write /\ u = Unread /\ r = ui32Read /\ h = Data(q.size)
  OBVIOUS
<1>3. /\ o \in Offsets /\ u \in Offsets /\ r \in Offsets
      /\ o = At(r, u) /\ buf \in [Offsets -> Cells] /\ buf[0] # Body
      /\ \A d \in Offsets : View[d] = buf[At(r, d)]
  BY <1>1, <1>2 DEF RingFacts, Ring
<1>4. q.size \in PacketSizes /\ h \in Headers /\ h.size = q.size
  BY <1>1, <1>2, OnlyOne, HeadersAre DEF StreamInv
<1>5. Sampled(w) /\ q.write = o
  BY <1>2 DEF StreamInv, Writing, WriteHeader, Sampled
<1>6. /\ p \in Nat /\ q.size \in 1..(ui32Size - 1)
      /\ p > 0 => o + p = ui32Size /\ p \in 1..ui32Size
      /\ p = 0 => o + q.size <= ui32Size
  BY <1>1, <1>3, <1>4, <1>5, PadIs
<1>7. u + (q.size + p) + 2 <= ui32Size
  BY <1>1, <1>2, <1>5, SpaceKept DEF Room, RESERVED
<1>8. /\ ui32Size \in Nat /\ o \in 0..(ui32Size - 1)
      /\ u \in 0..(ui32Size - 1) /\ r \in 0..(ui32Size - 1)
  BY <1>3, SizeIs DEF Offsets
<1>9. ui32Read' = r /\ \A d \in Offsets : View'[d] = buf'[At(r, d)]
  BY <1>1, <1>2 DEF RingFacts, WriteHeader, At
<1>10. Unread' = Ahead(r, ui32Write')
  BY <1>1, <1>9 DEF RingFacts, Ahead
<1>11. CASE p = 0
  <2>1. buf' = Written(buf, o, h) /\ ui32Write' = o
    BY <1>2, <1>5, <1>11 DEF WriteHeader
  <2>2. o + h.size <= ui32Size /\ u + h.size <= ui32Size
    BY <1>4, <1>6, <1>7, <1>8, <1>11
  <2>3. buf'[0] # Body
    BY <1>3, <1>4, <2>1, <2>2, WrittenIs
  <2>4. \A d \in Offsets :
            /\ d = u => View'[d] = h
            /\ u < d /\ d < u + h.size => View'[d] = Body
            /\ d < u => View'[d] = View[d]
    <3> SUFFICES ASSUME NEW d \in Offsets
                 PROVE  /\ d = u => View'[d] = h
                        /\ u < d /\ d < u + h.size => View'[d] = Body
                        /\ d < u => View'[d] = View[d]
      OBVIOUS
    <3>1. View'[d] = Written(buf, At(r, u), h)[At(r, d)] /\ View[d] = buf[At(r, d)]
      BY <1>3, <1>9, <2>1
    <3>2. QED
      BY <1>3, <1>4, <2>2, <3>1, WrittenSeen
  <2>5. Laid(View', u, h)
    BY <1>3, <2>4 DEF Laid
  <2>6. Unread' = u + p
    BY <1>3, <1>8, <1>10, <1>11, <2>1, PlaceIs
  <2>7. Room(Unread', q.size)
    BY <1>6, <1>7, <1>8, <1>11, <2>6 DEF Room, RESERVED
  <2>8. Unread' = u
    BY <1>8, <1>11, <2>6
  <2>9. QED
    BY <1>2, <1>4, <1>6, <1>9, <1>11, <2>1, <2>2, <2>3, <2>4, <2>5, <2>6, <2>7, <2>8
<1>12. CASE p # 0
  <2>1. p \in 1..ui32Size /\ o + p = ui32Size /\ p > 0
    BY <1>6, <1>12
  <2>2. PICK k, m : k = Padding(p) /\ m = Written(buf, o, k)
    OBVIOUS
  <2>3. k \in Headers /\ k.size = p
    BY <2>1, <2>2, HeadersAre
  <2>4. buf' = Written(m, 0, h) /\ ui32Write' = 0
    BY <1>2, <1>5, <2>1, <2>2 DEF WriteHeader
  <2>5. /\ o + k.size <= ui32Size /\ u + k.size <= ui32Size /\ u + p < ui32Size
        /\ 0 + h.size <= ui32Size /\ u + p + h.size <= ui32Size /\ 0 \in Offsets
    BY <1>4, <1>6, <1>7, <1>8, <2>1, <2>3 DEF Offsets
  <2>6. m \in [Offsets -> Cells] /\ m[0] # Body
    BY <1>3, <2>2, <2>3, <2>5, WrittenIs
  <2>7. buf'[0] # Body
    BY <1>4, <2>4, <2>5, <2>6, WrittenIs
  <2>8. PICK e : e = u + p
    OBVIOUS
  <2>9. At(r, e) = 0 /\ e \in Offsets
    <3>1. At(r, u) + p <= ui32Size /\ At(r, u) + p = ui32Size /\ u + p < ui32Size
      BY <1>3, <1>8, <2>1, <2>5
    <3>2. At(r, u + p) = 0 /\ u + p \in Offsets
      BY <1>3, <1>6, <3>1, EndAt
    <3>3. QED
      BY <2>8, <3>2
  <2>10. \A d \in Offsets :
            /\ d = e => View'[d] = h
            /\ e < d /\ d < e + h.size => View'[d] = Body
            /\ d < e => View'[d] = m[At(r, d)]
    <3> SUFFICES ASSUME NEW d \in Offsets
                 PROVE  /\ d = e => View'[d] = h
                        /\ e < d /\ d < e + h.size => View'[d] = Body
                        /\ d < e => View'[d] = m[At(r, d)]
      OBVIOUS
    <3>1. View'[d] = Written(m, At(r, e), h)[At(r, d)]
      BY <1>9, <2>4, <2>9
    <3>2. At(r, e) + h.size <= ui32Size /\ e + h.size <= ui32Size
      BY <2>5, <2>8, <2>9
    <3>3. QED
      BY <1>3, <1>4, <2>6, <2>9, <3>1, <3>2, WrittenSeen
  <2>11. \A d \in Offsets :
            /\ d = u => View'[d] = k
            /\ u < d /\ d < u + p => View'[d] = Body
            /\ d < u => View'[d] = View[d]
    <3> SUFFICES ASSUME NEW d \in Offsets, d < u + p
                 PROVE  /\ d = u => View'[d] = k
                        /\ u < d /\ d < u + p => View'[d] = Body
                        /\ d < u => View'[d] = View[d]
      BY <1>8, <2>1 DEF Offsets
    <3>1. View'[d] = Written(buf, At(r, u), k)[At(r, d)] /\ View[d] = buf[At(r, d)]
      BY <1>3, <2>2, <2>8, <2>10
    <3>2. QED
      BY <1>3, <2>3, <2>5, <3>1, WrittenSeen
  <2>12. Laid(View', u, k) /\ Laid(View', e, h)
    BY <1>3, <2>3, <2>9, <2>10, <2>11 DEF Laid
  <2>13. Unread' = e
    BY <1>3, <1>10, <2>4, <2>9, PlaceIs
  <2>14. Room(Unread', q.size)
    BY <1>6, <1>7, <1>8, <2>8, <2>13 DEF Room, RESERVED
  <2>15. ui32Write' + q.size <= ui32Size
    BY <1>4, <2>4, <2>5
  <2>16. QED
    BY <1>2, <1>4, <1>6, <1>9, <1>12, <2>1, <2>2, <2>7, <2>8, <2>11, <2>12, <2>13, <2>14, <2>15
<1>13. QED
  BY <1>11, <1>12

\* A commit publishes the packet that has been laid out.
LEMMA CommitSeen ==
    ASSUME StreamInv, TypeOK', NEW w \in Writers, Commit(w), NEW h, h = Data(local[w].size)
    PROVE  /\ ui32Read' = ui32Read /\ h \in Packets /\ h \in Headers
           /\ Unread + h.size + 1 < ui32Size /\ Unread' = Unread + h.size
           /\ View' = View /\ Laid(View', Unread, h) /\ buf'[0] # Body
<1>1. TypeOK /\ RingFacts /\ RingFacts' /\ Ring /\ Busy(w) /\ Committing(w)
  BY RingFactsHold, RingFactsNext DEF StreamInv, ReservedInv, Commit, Busy, Writing
<1>2. PICK o, u, r, s : o = ui32Write /\ u = Unread /\ r = ui32Read /\ s = local[w].size
  OBVIOUS
<1>3. s \in PacketSizes /\ h \in Packets /\ h \in Headers /\ h.size = s /\ s \in Nat
  BY <1>1, <1>2, OnlyOne, HeadersAre, SizeIs DEF StreamInv
<1>4. /\ o \in Offsets /\ u \in Offsets /\ r \in Offsets /\ o = At(r, u)
  BY <1>1, <1>2 DEF RingFacts
<1>5. u + s + 2 <= ui32Size /\ o + s <= ui32Size /\ Laid(View, u, h)
  BY <1>1, <1>2 DEF Committing, Room, RESERVED
<1>6. /\ ui32Read' = ui32Read /\ buf' = buf /\ ui32Write' = (o + s) % ui32Size
  BY <1>2 DEF Commit
<1>7. View' = View
  BY <1>6 DEF View
<1>8. ui32Size \in Nat /\ u \in 0..(ui32Size - 1)
  BY <1>4, SizeIs DEF Offsets
<1>9. u + s < ui32Size /\ u + s + 1 < ui32Size
  BY <1>3, <1>5, <1>8
<1>10. (o + s) % ui32Size = At(r, u + s) /\ u + s \in Offsets
  BY <1>3, <1>4, <1>5, <1>9, EndAt
<1>11. Unread' = u + s
  <2>1. Unread' = Ahead(r, ui32Write')
    BY <1>1, <1>2, <1>6 DEF RingFacts, Ahead
  <2>2. QED
    BY <1>4, <1>6, <1>10, <2>1, PlaceIs
<1>12. QED
  BY <1>1, <1>2, <1>3, <1>5, <1>6, <1>7, <1>9, <1>11 DEF Ring

\* The read offset of a writer that drops packets, and of the reader that
\* releases them, is where a packet begins.
LEMMA DroppedSeen ==
    ASSUME StreamInv, NEW w \in Writers, Dropped(w)
    PROVE  \E c \in Starts(View, Unread) :
              /\ ui32Read' = At(ui32Read, c) /\ ui32Write' = ui32Write
              /\ buf' = Forgotten(ui32Read, At(ui32Read, c))
<1>1. TypeOK /\ RingFacts /\ Dropping(w)
  BY RingFactsHold DEF StreamInv, ReservedInv, Dropped, Writing
<1>2. PICK c : c = Ahead(ui32Read, local[w].read)
  OBVIOUS
<1>3. local[w].read \in Offsets /\ ui32Read \in Offsets
  BY <1>1, LocalIs DEF Requests, RingFacts
<1>4. c \in Starts(View, Unread) /\ local[w].read = At(ui32Read, c)
  BY <1>1, <1>2, <1>3, PlaceIs DEF Dropping
<1>5. QED
  BY <1>4 DEF Dropped

LEMMA ReleaseSeen ==
    ASSUME StreamInv, Release
    PROVE  \E c \in Starts(View, Unread) :
              /\ c \in 1..acquired.len /\ acquired.len \in Starts(View, Unread)
              /\ ui32Read' = At(ui32Read, c) /\ ui32Write' = ui32Write
              /\ buf' = Forgotten(ui32Read, At(ui32Read, c))
<1>1. TypeOK /\ RingFacts /\ acquired.len \in Starts(View, Unread)
  BY RingFactsHold DEF StreamInv, ReservedInv, Release, Reading
<1>2. PICK c \in 1..acquired.len :
          /\ c = acquired.len \/ buf[(ui32Read + c) % ui32Size] \in Headers
          /\ ui32Read' = (ui32Read + c) % ui32Size
          /\ buf' = Forgotten(ui32Read, (ui32Read + c) % ui32Size)
  BY DEF Release
<1>3. /\ Unread \in 0..(ui32Size - 1) /\ ui32Size \in Nat
      /\ acquired.len \in 0..Unread
  BY <1>1, SizeIs DEF RingFacts, Offsets, Starts
<1>4. c \in Offsets /\ c \in 0..Unread
  BY <1>2, <1>3 DEF Offsets
<1>5. (ui32Read + c) % ui32Size = At(ui32Read, c) /\ View[c] = buf[At(ui32Read, c)]
  BY <1>1, <1>4, PlaceIs DEF RingFacts
<1>6. c \in Starts(View, Unread)
  BY <1>1, <1>2, <1>4, <1>5 DEF Starts
<1>7. ui32Write' = ui32Write
  BY DEF Release
<1>8. QED
  BY <1>1, <1>2, <1>5, <1>6, <1>7

\* A packet does not wrap, and the one behind it is found.
LEMMA NextSeen ==
    ASSUME StreamInv, NEW o \in Offsets, NEW d, d = Ahead(ui32Read, o),
           d \in Starts(View, Unread), d # Unread
    PROVE  /\ NextPacket(o) \in Offsets
           /\ Ahead(ui32Read, NextPacket(o)) \in Starts(View, Unread)
<1>1. TypeOK /\ RingFacts /\ Ring
  BY RingFactsHold DEF StreamInv, ReservedInv
<1>2. PICK h, r, u : h = buf[o] /\ r = ui32Read /\ u = Unread
  OBVIOUS
<1>3. /\ r \in Offsets /\ u \in Offsets /\ d \in Offsets /\ At(r, d) = o /\ View[d] = h
  BY <1>1, <1>2, DistanceIs, PlaceIs, ViewIs DEF RingFacts
<1>4. d \in 0..u /\ h \in Headers
  BY <1>2, <1>3 DEF Starts
<1>5. /\ ui32Size \in Nat /\ r \in 0..(ui32Size - 1) /\ u \in 0..(ui32Size - 1)
      /\ o \in 0..(ui32Size - 1) /\ h.size \in 1..ui32Size /\ d < u
  BY <1>2, <1>3, <1>4, SizeIs, HeadersAre DEF Offsets
<1>6. /\ d + h.size <= u
      /\ \A j \in Offsets : d < j /\ j < d + h.size => View[j] = Body
      /\ d + h.size < u => View[d + h.size] \in Headers
  BY <1>1, <1>2, <1>3, <1>4, <1>5 DEF Ring, Framed
<1>7. o + h.size <= ui32Size
  <2> SUFFICES ASSUME ~(o + h.size <= ui32Size) PROVE FALSE
    OBVIOUS
  <2>1. PICK j : j = d + (ui32Size - o)
    OBVIOUS
  <2>2. d < j /\ j < d + h.size /\ j \in Offsets
    BY <1>4, <1>5, <1>6, <2>1 DEF Offsets
  <2>3. View[j] = Body
    BY <1>6, <2>2
  <2>4. At(r, d) + (ui32Size - o) = ui32Size /\ ui32Size - o \in Nat /\ d + (ui32Size - o) < ui32Size
    BY <1>3, <1>5, <2>1, <2>2 DEF Offsets
  <2>5. At(r, j) = 0
    BY <1>3, <1>5, <2>1, <2>4, EndAt
  <2>6. buf[0] = Body
    BY <1>1, <1>2, <2>2, <2>3, <2>5 DEF RingFacts
  <2>7. QED
    BY <1>1, <2>6 DEF Ring
<1>8. PICK s : s = h.size
  OBVIOUS
<1>9. s \in Nat /\ o + s <= ui32Size /\ d + s < ui32Size /\ d + s \in 0..u
  BY <1>4, <1>5, <1>6, <1>7, <1>8
<1>10. (o + s) % ui32Size = At(r, d + s) /\ d + s \in Offsets
  BY <1>3, <1>9, EndAt
<1>11. NextPacket(o) = (o + s) % ui32Size
  <2>1. (o + s) % ui32Size = IF o + s = ui32Size THEN 0 ELSE o + s
    BY <1>5, <1>9, EndIs
  <2>2. o + s >= ui32Size <=> o + s = ui32Size
    BY <1>5, <1>9
  <2>3. QED
    BY <1>2, <1>8, <2>1, <2>2 DEF NextPacket
<1>12. NextPacket(o) \in Offsets /\ Ahead(r, NextPacket(o)) = d + s
  BY <1>3, <1>10, <1>11, PlaceIs
<1>13. d + s \in Starts(View, Unread)
  BY <1>2, <1>5, <1>6, <1>8, <1>9 DEF Starts
<1>14. QED
  BY <1>2, <1>12, <1>13

\* A writer that has not dropped enough has not reached the write offset.
LEMMA DropSeen ==
    ASSUME StreamInv, NEW w \in Writers, DropOldest(w)
    PROVE  /\ NextPacket(local[w].read) \in Offsets
           /\ Ahead(ui32Read, NextPacket(local[w].read)) \in Starts(View, Unread)
<1>1. TypeOK /\ RingFacts /\ Dropping(w) /\ Busy(w)
  BY RingFactsHold DEF StreamInv, ReservedInv, DropOldest, Writing, Busy
<1>2. PICK q, d : q = local[w] /\ d = Ahead(ui32Read, q.read)
  OBVIOUS
<1>3. /\ q.read \in Offsets /\ q.write \in Offsets /\ q.size \in PacketSizes
      /\ ui32Read \in Offsets
  BY <1>1, <1>2, OnlyOne DEF StreamInv, Requests, RingFacts
<1>4. q.write = ui32Write /\ d \in Starts(View, Unread)
  BY <1>1, <1>2 DEF Dropping
<1>5. d # Unread
  <2> SUFFICES ASSUME d = Unread PROVE FALSE
    OBVIOUS
  <2>1. q.read = q.write
    <3>1. At(ui32Read, d) = q.read
      BY <1>2, <1>3, PlaceIs
    <3>2. At(ui32Read, Unread) = ui32Write
      BY <1>1 DEF RingFacts
    <3>3. QED
      BY <1>4, <3>1, <3>2
  <2>2. SpaceLeft(q.read, q.write) = ui32Size - 2
    <3>1. SpaceLeft(q.read, q.write) = ui32Size - Ahead(q.read, q.write) - 2
      BY <1>3, SpaceIs
    <3>2. Ahead(q.read, q.write) = 0
      BY <1>3, <2>1, PlaceIs
    <3>3. QED
      BY <3>1, <3>2, SizeIs
  <2>3. ReqSizeActual(q) <= ui32Size - 2 /\ FivePercent <= ui32Size - 2
    <3>1. ReqSizeActual(q) <= ui32Size - 2
      BY <1>1, <1>3, PadIs
    <3>2. QED
      BY <3>1, SizeIs
  <2>4. ReqSizeActual(q) \in Nat
    <3>1. Pad(q) \in Nat /\ ReqSizeActual(q) = q.size + Pad(q)
      BY <1>1, <1>3, PadIs
    <3>2. QED
      BY <1>3, <3>1, SizeIs
  <2>5. EnoughDropped(q)
    BY <2>2, <2>3, <2>4, SizeIs DEF EnoughDropped
  <2>6. QED
    BY <1>2, <2>5 DEF DropOldest
<1>6. QED
  BY <1>2, <1>3, <1>4, <1>5, NextSeen

-----------------------------------------------------------------------------
(* The invariant is inductive.                                             *)

\* Steps of the only writer at work.
LEMMA OwnWriting ==
    ASSUME NEW w \in Writers, \A v \in Writers : v # w => pc'[v] = "idle",
           /\ pc'[w] \in {"space", "wait", "readlock", "header"} => Sampled(w)'
           /\ pc'[w] = "readlock" => Lossy'
           /\ pc'[w] = "drop" => Dropping(w)'
           /\ pc'[w] = "commit" => Committing(w)'
    PROVE  Writing'
<1> SUFFICES ASSUME NEW v \in Writers
             PROVE  /\ pc'[v] \in {"space", "wait", "readlock", "header"} => Sampled(v)'
                    /\ pc'[v] = "readlock" => Lossy'
                    /\ pc'[v] = "drop" => Dropping(v)'
                    /\ pc'[v] = "commit" => Committing(v)'
  BY DEF Writing
<1>1. CASE v = w
  BY <1>1
<1>2. CASE v # w
  BY <1>2
<1>3. QED
  BY <1>1, <1>2

\* Steps that leave alone what the reader looks at, and what has been laid out.
LEMMA RingUntouched ==
    ASSUME StreamInv, TypeOK', UNCHANGED <<buf, ui32Read, ui32Write>>
    PROVE  Ring' /\ View' = View /\ Unread' = Unread
<1>1. View' = View /\ TypeOK /\ Ring
  BY DEF View, StreamInv, ReservedInv
<1>2. buf'[0] # Body
  BY <1>1 DEF Ring
<1>3. QED
  BY <1>1, <1>2, RingKept

LEMMA ReaderUntouched ==
    ASSUME Reading, UNCHANGED <<eOpMode, bReadPending, readerVars, ui32Read>>,
           \A d \in Starts(View, Unread) : d \in Starts(View', Unread')
    PROVE  Reading'
<1>1. UNCHANGED <<reader, acquired>> /\ (Lossy' <=> Lossy)
  BY DEF readerVars, Lossy
<1>2. ASSUME reader' = "reading"
      PROVE  acquired'.offset = ui32Read' /\ acquired'.len \in Starts(View', Unread') \ {0}
  BY <1>1, <1>2 DEF Reading
<1>3. /\ reader' # "reading" => acquired'.len = 0
      /\ reader' \in {"reading", "empty"} /\ Lossy' => bReadPending'
  BY <1>1 DEF Reading
<1>4. QED
  BY <1>2, <1>3 DEF Reading

\* The offsets a writer has just read.
LEMMA JustSampled ==
    ASSUME RingFacts
    PROVE  Ahead(ui32Read, ui32Read) + Unread = Ahead(ui32Read, ui32Write)
<1>1. Ahead(ui32Read, ui32Read) = 0 /\ Unread = Ahead(ui32Read, ui32Write) /\ Unread \in Nat
  BY PlaceIs, SizeIs DEF RingFacts, Offsets
<1>2. QED
  BY <1>1

\* A writer that looks at the offsets.
LEMMA LookStream ==
    ASSUME StreamInv, ReservedInv', NEW w \in Writers,
           \/ \E s \in PacketSizes : Reserve(w, s)
           \/ LookForSpace(w) \/ Wake(w) \/ LockRead(w) \/ DropOldest(w)
    PROVE  StreamInv'
<1>1. /\ TypeOK /\ TypeOK' /\ RingFacts /\ RingFacts' /\ Reading /\ Writing
      /\ pc \in [Writers -> Places] /\ local \in [Writers -> Requests]
  BY RingFactsHold, RingFactsNext DEF StreamInv, ReservedInv, TypeOK, Places, Requests
<1>2. /\ UNCHANGED <<buf, ui32Read, ui32Write, eOpMode, bReadPending, readerVars>>
      /\ Busy(w)' /\ pc'[w] # "commit"
  <2>1. CASE \E s \in PacketSizes : Reserve(w, s)
    BY <1>1, <2>1 DEF Reserve, offsets, Goto, Busy
  <2>2. CASE LookForSpace(w)
    BY <1>1, <2>2 DEF LookForSpace, offsets, Goto, Busy
  <2>3. CASE Wake(w)
    BY <1>1, <2>3 DEF Wake, offsets, Goto, Busy
  <2>4. CASE LockRead(w)
    BY <1>1, <2>4 DEF LockRead, offsets, Goto, Busy
  <2>5. CASE DropOldest(w)
    BY <1>1, <2>5 DEF DropOldest, offsets, Goto, Busy
  <2>6. QED
    BY <2>1, <2>2, <2>3, <2>4, <2>5
<1>3. \A v \in Writers : v # w => pc'[v] = "idle"
  BY <1>2 DEF ReservedInv, Alone, Busy
<1>4. Ring' /\ View' = View /\ Unread' = Unread /\ (Lossy' <=> Lossy)
  BY <1>1, <1>2, RingUntouched DEF Lossy
<1>5. Reading'
  BY <1>1, <1>2, <1>4, ReaderUntouched
<1>6. ASSUME local'[w].read = ui32Read', local'[w].write = ui32Write'
      PROVE  Sampled(w)'
  <2>1. Ahead(ui32Read', ui32Read') + Unread' = Ahead(ui32Read', ui32Write')
    <3>1. Ahead(ui32Read, ui32Read) + Unread = Ahead(ui32Read, ui32Write)
      BY <1>1, JustSampled
    <3>2. QED
      BY <1>2, <1>4, <3>1
  <2>2. QED
    BY <1>6, <2>1 DEF Sampled, Ahead
<1>7. Writing'
  <2>1. CASE \E s \in PacketSizes : Reserve(w, s)
    <3>1. PICK s \in PacketSizes : Reserve(w, s)
      BY <2>1
    <3>2. pc'[w] = "space" /\ local'[w] = [size |-> s, read |-> ui32Read, write |-> ui32Write]
      BY <1>1, <3>1 DEF Reserve, Goto
    <3>3. Sampled(w)'
      BY <1>2, <1>6, <3>2
    <3>4. QED
      BY <1>3, <3>2, <3>3, OwnWriting
  <2>2. CASE LookForSpace(w)
    <3>1. /\ pc[w] = "space" /\ UNCHANGED local
          /\ pc'[w] \in {"wait", "readlock", "header"}
          /\ pc'[w] = "readlock" => ~HasSpace(local[w]) /\ eOpMode # "BLOCK"
          /\ HasSpace(local[w]) \/ eOpMode # "DROP_NEWER"
      BY <1>1, <2>2 DEF LookForSpace, Goto
    <3>2. pc'[w] = "readlock" => Lossy'
      <4>1. eOpMode \in {"BLOCK", "DROP_NEWER", "DROP_OLDEST"}
        BY <1>1, TLStreamAssumption DEF TypeOK
      <4>2. QED
        BY <1>4, <3>1, <4>1 DEF Lossy
    <3>3. Sampled(w)'
      <4>1. Sampled(w)
        BY <1>1, <3>1 DEF Writing
      <4>2. QED
        BY <1>2, <1>4, <3>1, <4>1 DEF Sampled, Ahead
    <3>4. QED
      BY <1>3, <3>1, <3>2, <3>3, OwnWriting
  <2>3. CASE Wake(w)
    <3>1. /\ pc'[w] = "header" /\ local'[w].read = ui32Read /\ local'[w].write = ui32Write
      BY <1>1, <2>3 DEF Wake, Goto, Requests
    <3>2. Sampled(w)'
      BY <1>2, <1>6, <3>1
    <3>3. QED
      BY <1>3, <3>1, <3>2, OwnWriting
  <2>4. CASE LockRead(w)
    <3>1. /\ pc[w] = "readlock" /\ pc'[w] \in {"header", "drop"} /\ ~bReadPending
          /\ local'[w].read = ui32Read /\ local'[w].write = local[w].write
      BY <1>1, <2>4 DEF LockRead, Goto, Requests, ReaderAway
    <3>2. Sampled(w) /\ Lossy
      BY <1>1, <3>1 DEF Writing
    <3>3. local'[w].write = ui32Write' /\ local'[w].read = ui32Read'
      BY <1>2, <3>1, <3>2 DEF Sampled
    <3>4. Sampled(w)'
      BY <1>6, <3>3
    <3>5. Dropping(w)'
      <4>1. Ahead(ui32Read, ui32Read) = 0 /\ Unread \in Nat
        BY <1>1, PlaceIs, SizeIs DEF RingFacts, Offsets
      <4>2. Framed(View, Unread)
        BY DEF StreamInv, Ring
      <4>3. 0 \in Starts(View, Unread)
        BY <4>1, <4>2 DEF Framed, Starts
      <4>4. Ahead(ui32Read', local'[w].read) \in Starts(View', Unread')
        BY <1>2, <1>4, <3>1, <4>1, <4>3
      <4>5. QED
        BY <1>2, <1>4, <3>1, <3>2, <3>3, <4>4 DEF Dropping, Ahead
    <3>6. QED
      BY <1>3, <3>1, <3>4, <3>5, OwnWriting
  <2>5. CASE DropOldest(w)
    <3>1. /\ pc[w] = "drop" /\ pc'[w] = "drop" /\ local'[w].read = NextPacket(local[w].read)
          /\ local'[w].write = local[w].write
      BY <1>1, <2>5 DEF DropOldest, Requests
    <3>2. Dropping(w)
      BY <1>1, <3>1 DEF Writing
    <3>3. Ahead(ui32Read, NextPacket(local[w].read)) \in Starts(View, Unread)
      BY <2>5, DropSeen
    <3>4. Ahead(ui32Read', local'[w].read) \in Starts(View', Unread')
      BY <1>2, <1>4, <3>1, <3>3
    <3>5. Dropping(w)'
      BY <1>2, <1>4, <3>1, <3>2, <3>4 DEF Dropping, Ahead
    <3>6. QED
      BY <1>3, <3>1, <3>5, OwnWriting
  <2>6. QED
    BY <2>1, <2>2, <2>3, <2>4, <2>5
<1>8. QED
  BY <1>4, <1>5, <1>7 DEF StreamInv

\* A writer that leaves a mark or gives up.
LEMMA GiveUpStream ==
    ASSUME StreamInv, ReservedInv', NEW w \in Writers, DropNewer(w) \/ ReserveFails(w)
    PROVE  StreamInv'
<1>1. /\ TypeOK /\ TypeOK' /\ Ring /\ Reading /\ pc \in [Writers -> Places]
  BY DEF StreamInv, ReservedInv, TypeOK, Places
<1>2. /\ Busy(w) /\ pc' = [pc EXCEPT ![w] = "idle"]
      /\ UNCHANGED <<ui32Read, eOpMode, bReadPending, readerVars>>
  BY DEF DropNewer, ReserveFails, Goto, Busy, offsets
<1>3. \A v \in Writers : pc'[v] = "idle"
  BY <1>1, <1>2, OnlyOne DEF StreamInv
<1>4. Writing'
  BY <1>3 DEF Writing
<1>5. CASE UNCHANGED <<buf, ui32Write>>
  <2>1. Ring' /\ View' = View /\ Unread' = Unread
    BY <1>1, <1>2, <1>5, RingUntouched
  <2>2. Reading'
    BY <1>1, <1>2, <2>1, ReaderUntouched
  <2>3. QED
    BY <1>4, <2>1, <2>2 DEF StreamInv
<1>6. CASE ~UNCHANGED <<buf, ui32Write>>
  <2>1. DropNewer(w)
    BY <1>6 DEF ReserveFails, offsets
  <2>2. /\ ui32Read' = ui32Read /\ Unread + 1 < ui32Size /\ Unread' = Unread + 1
        /\ \A d \in Offsets : d < Unread => View'[d] = View[d]
        /\ Laid(View', Unread, WriteFailed) /\ buf'[0] # Body
    BY <1>1, <1>6, <2>1, MarkSeen
  <2>3. Ring' /\ \A d \in Starts(View, Unread) : d \in Starts(View', Unread')
    BY <1>1, <2>2, HeadersAre, RingGrows
  <2>4. Reading'
    BY <1>1, <1>2, <2>3, ReaderUntouched
  <2>5. QED
    BY <1>4, <2>3, <2>4 DEF StreamInv
<1>7. QED
  BY <1>5, <1>6

\* A writer that drops packets.
LEMMA DroppedStream ==
    ASSUME StreamInv, ReservedInv', NEW w \in Writers, Dropped(w)
    PROVE  StreamInv'
<1>1. /\ TypeOK /\ TypeOK' /\ Ring /\ Reading /\ pc \in [Writers -> Places]
      /\ RingFacts' /\ Dropping(w) /\ Busy(w)
  BY RingFactsNext DEF StreamInv, ReservedInv, TypeOK, Places, Dropped, Writing, Busy
<1>2. /\ pc' = [pc EXCEPT ![w] = "header"] /\ UNCHANGED local
      /\ ui32Read' = local[w].read
      /\ UNCHANGED <<ui32Write, eOpMode, bReadPending, reader, acquired>>
  BY DEF Dropped, Goto, readerVars
<1>3. /\ pc'[w] = "header" /\ \A v \in Writers : v # w => pc'[v] = "idle"
  BY <1>1, <1>2, OnlyOne DEF StreamInv
<1>4. Ring'
  BY <1>1, DroppedSeen, RingMoves
<1>5. Sampled(w)'
  <2>1. local'[w].read = ui32Read' /\ local'[w].write = ui32Write'
    BY <1>1, <1>2 DEF Dropping
  <2>2. Ahead(ui32Read', ui32Read') + Unread' = Ahead(ui32Read', ui32Write')
    <3>1. PICK r, o, u : r = ui32Read' /\ o = ui32Write' /\ u = Unread'
      OBVIOUS
    <3>2. r \in Offsets /\ u \in Offsets /\ u = Ahead(r, o)
      BY <1>1, <3>1 DEF RingFacts, Ahead
    <3>3. Ahead(r, r) = 0 /\ u \in Nat
      BY <3>2, PlaceIs, SizeIs DEF Offsets
    <3>4. Ahead(r, r) + u = Ahead(r, o)
      BY <3>2, <3>3
    <3>5. QED
      BY <3>1, <3>4
  <2>3. QED
    BY <2>1, <2>2 DEF Sampled, Ahead
<1>6. Writing'
  BY <1>3, <1>5, OwnWriting
<1>7. Reading'
  <2>1. reader # "reading" /\ reader # "empty"
    BY <1>1 DEF Reading, Dropping, TypeOK
  <2>2. QED
    BY <1>1, <1>2, <2>1 DEF Reading
<1>8. QED
  BY <1>4, <1>6, <1>7 DEF StreamInv

\* A writer that writes padding and header.
LEMMA HeaderStream ==
    ASSUME StreamInv, ReservedInv', NEW w \in Writers, WriteHeader(w)
    PROVE  StreamInv'
<1>1. /\ TypeOK /\ TypeOK' /\ Ring /\ Reading /\ pc \in [Writers -> Places]
      /\ Busy(w)
  BY DEF StreamInv, ReservedInv, TypeOK, Places, WriteHeader, Busy
<1>2. /\ pc' = [pc EXCEPT ![w] = "commit"] /\ UNCHANGED local
      /\ UNCHANGED <<ui32Read, eOpMode, bReadPending, readerVars>>
  BY DEF WriteHeader, Goto
<1>3. pc'[w] = "commit" /\ \A v \in Writers : v # w => pc'[v] = "idle"
  BY <1>1, <1>2, OnlyOne DEF StreamInv
<1>4. PICK q, p : q = local[w] /\ p = Pad(q)
  OBVIOUS
<1>5. /\ p \in Nat /\ q.size \in PacketSizes
      /\ Unread' = Unread + p /\ Room(Unread', q.size)
      /\ ui32Write' + q.size <= ui32Size
      /\ p = 0 => ui32Write' = ui32Write
      /\ \A d \in Offsets : d < Unread => View'[d] = View[d]
      /\ p # 0 => p \in 1..ui32Size /\ Laid(View', Unread, Padding(p))
      /\ Laid(View', Unread', Data(q.size)) /\ buf'[0] # Body
  BY <1>1, <1>4, HeaderSeen
<1>6. Unread \in Nat /\ ui32Size \in Nat /\ q.size \in Nat \ {0}
  BY <1>1, <1>5, RingFactsHold, SizeIs DEF RingFacts, Offsets
<1>7. Ring' /\ \A d \in Starts(View, Unread) : d \in Starts(View', Unread')
  <2>1. CASE p = 0
    <3>1. UNCHANGED <<ui32Read, ui32Write>>
      BY <1>2, <1>5, <2>1
    <3>2. Ring' /\ Unread' = Unread /\ Starts(View', Unread) = Starts(View, Unread)
      BY <1>1, <1>5, <3>1, RingKept
    <3>3. QED
      BY <3>2
  <2>2. CASE p # 0
    <3>1. PICK k : k = Padding(p)
      OBVIOUS
    <3>2. k \in Headers /\ k.size = p
      BY <1>5, <2>2, <3>1, HeadersAre
    <3>3. Unread + k.size < ui32Size /\ Unread + k.size + 1 # ui32Size
      BY <1>5, <1>6, <3>2 DEF Room, RESERVED
    <3>4. Laid(View', Unread, k) /\ Unread' = Unread + k.size
      BY <1>5, <2>2, <3>1, <3>2
    <3>5. QED
      BY <1>1, <1>2, <1>5, <3>2, <3>3, <3>4, RingGrows
  <2>3. QED
    BY <2>1, <2>2
<1>8. Committing(w)'
  BY <1>2, <1>4, <1>5 DEF Committing
<1>9. Writing'
  BY <1>3, <1>8, OwnWriting
<1>10. Reading'
  BY <1>1, <1>2, <1>7, ReaderUntouched
<1>11. QED
  BY <1>7, <1>9, <1>10 DEF StreamInv

\* A writer that commits.
LEMMA CommitStream ==
    ASSUME StreamInv, ReservedInv', NEW w \in Writers, Commit(w)
    PROVE  StreamInv'
<1>1. /\ TypeOK /\ TypeOK' /\ Ring /\ Reading /\ pc \in [Writers -> Places]
      /\ Busy(w)
  BY DEF StreamInv, ReservedInv, TypeOK, Places, Commit, Busy
<1>2. /\ pc' = [pc EXCEPT ![w] = "idle"]
      /\ UNCHANGED <<ui32Read, eOpMode, bReadPending, readerVars>>
  BY DEF Commit, Goto
<1>3. \A v \in Writers : pc'[v] = "idle"
  BY <1>1, <1>2, OnlyOne DEF StreamInv
<1>4. Writing'
  BY <1>3 DEF Writing
<1>5. PICK h : h = Data(local[w].size)
  OBVIOUS
<1>6. /\ h \in Headers
      /\ Unread + h.size + 1 < ui32Size /\ Unread' = Unread + h.size
      /\ View' = View /\ Laid(View', Unread, h) /\ buf'[0] # Body
  BY <1>1, <1>5, CommitSeen
<1>7. Unread + h.size < ui32Size /\ Unread + h.size + 1 # ui32Size
  <2>1. Unread \in Nat /\ ui32Size \in Nat /\ h.size \in Nat
    BY <1>1, <1>6, RingFactsHold, SizeIs, HeadersAre DEF RingFacts, Offsets
  <2>2. QED
    BY <1>6, <2>1
<1>8. Ring' /\ \A d \in Starts(View, Unread) : d \in Starts(View', Unread')
  BY <1>1, <1>2, <1>6, <1>7, RingGrows
<1>9. Reading'
  BY <1>1, <1>2, <1>8, ReaderUntouched
<1>10. QED
  BY <1>4, <1>8, <1>9 DEF StreamInv

\* The reader releases what it has acquired.
LEMMA ReleaseStream ==
    ASSUME StreamInv, ReservedInv', Release
    PROVE  StreamInv'
<1>1. /\ TypeOK /\ TypeOK' /\ Ring /\ Reading /\ Writing /\ RingFacts
      /\ local \in [Writers -> Requests]
  BY RingFactsHold DEF StreamInv, ReservedInv, TypeOK, Requests
<1>2. PICK c \in Starts(View, Unread) :
          /\ ui32Read' = At(ui32Read, c) /\ ui32Write' = ui32Write
          /\ buf' = Forgotten(ui32Read, At(ui32Read, c))
  BY ReleaseSeen
<1>3. /\ Ring' /\ Unread' = Unread - c /\ c \in Offsets /\ c <= Unread
      /\ \A d \in Nat : c + d < ui32Size => View'[d] = View[c + d]
      /\ \A d \in Starts(View, Unread) : d >= c => d - c \in Starts(View', Unread')
  BY <1>1, <1>2, RingMoves
<1>4. /\ UNCHANGED <<pc, local, ui32Write, eOpMode, ui32Pending>>
      /\ reader = "reading" /\ reader' = "idle" /\ acquired'.len = 0
  BY DEF Release, writerVars, Nothing
<1>5. Reading'
  BY <1>4 DEF Reading
<1>6. PICK u, v, r : u = Unread /\ v = Unread' /\ r = ui32Read
  OBVIOUS
<1>7. /\ u \in 0..(ui32Size - 1) /\ ui32Size \in Nat /\ c \in 0..(ui32Size - 1)
      /\ v \in Nat /\ c + v = u /\ r \in Offsets
  BY <1>1, <1>3, <1>6, SizeIs DEF RingFacts, Offsets
<1>8. ASSUME NEW w \in Writers, Sampled(w) PROVE Sampled(w)'
  <2>1. PICK l, k : l = local[w].read /\ k = Ahead(l, r)
    OBVIOUS
  <2>2. l \in Offsets
    BY <1>1, <2>1 DEF Requests
  <2>3. k \in Offsets /\ At(l, k) = r
    BY <1>7, <2>1, <2>2, DistanceIs, PlaceIs
  <2>4. k + u = Ahead(l, ui32Write) /\ Ahead(l, ui32Write) \in Offsets
    BY <1>1, <1>6, <1>8, <2>1, <2>2, DistanceIs DEF Sampled, RingFacts
  <2>5. k \in 0..(ui32Size - 1) /\ k + u < ui32Size
    BY <1>7, <2>3, <2>4 DEF Offsets
  <2>6. c \in Nat /\ k + c < ui32Size
    BY <1>7, <2>5
  <2>7. k + c \in Offsets /\ At(At(l, k), c) = At(l, k + c)
    BY <2>2, <2>3, <2>6, SumIs
  <2>8. Ahead(l, ui32Read') = k + c
    BY <1>2, <1>6, <2>2, <2>3, <2>7, PlaceIs
  <2>9. Ahead(l, ui32Read') + v = Ahead(l, ui32Write')
    BY <1>2, <1>7, <2>4, <2>5, <2>8
  <2>10. QED
    BY <1>2, <1>4, <1>6, <1>8, <2>1, <2>9 DEF Sampled, Ahead
<1>9. ASSUME NEW w \in Writers, Committing(w), local[w].size \in PacketSizes
      PROVE  Committing(w)'
  <2>1. PICK s, h : s = local[w].size /\ h = Data(s)
    OBVIOUS
  <2>2. s \in Nat \ {0} /\ h.size = s
    BY <1>9, <2>1, SizeIs DEF Data
  <2>3. u + s + 2 <= ui32Size /\ ui32Write + s <= ui32Size /\ Laid(View, u, h)
    BY <1>6, <1>9, <2>1 DEF Committing, Room, RESERVED
  <2>4. v + s + 2 <= ui32Size
    BY <1>7, <2>2, <2>3
  <2>5. View'[v] = h
    <3>1. c + v < ui32Size
      BY <1>7
    <3>2. View'[v] = View[u]
      BY <1>3, <1>7, <3>1
    <3>3. QED
      BY <2>3, <3>2 DEF Laid
  <2>6. ASSUME NEW j \in Offsets, v < j, j < v + h.size PROVE View'[j] = Body
    <3>1. j \in Nat /\ u < c + j /\ c + j < u + h.size /\ c + j < ui32Size
          /\ c + j \in Offsets
      BY <1>7, <2>2, <2>3, <2>6 DEF Offsets
    <3>2. View'[j] = View[c + j]
      BY <1>3, <3>1
    <3>3. QED
      BY <2>3, <3>1, <3>2 DEF Laid
  <2>7. Laid(View', v, h)
    BY <2>5, <2>6 DEF Laid
  <2>8. QED
    BY <1>2, <1>4, <1>6, <2>1, <2>3, <2>4, <2>7 DEF Committing, Room, RESERVED
<1>10. ASSUME NEW w \in Writers PROVE pc[w] # "drop"
  BY <1>1, <1>4 DEF Writing, Dropping, Reading
<1>11. Lossy' <=> Lossy
  BY <1>4 DEF Lossy
<1>12. \A w \in Writers : pc[w] = "commit" => local[w].size \in PacketSizes
  BY DEF StreamInv, ReservedInv, Reserved, Busy
<1>13. Writing'
  BY <1>1, <1>4, <1>8, <1>9, <1>10, <1>11, <1>12 DEF Writing
<1>14. QED
  BY <1>3, <1>5, <1>13 DEF StreamInv

\* The reader acquires what there is, up to the end of the ring.
LEMMA AcquireSeen ==
    ASSUME StreamInv, Acquire, ui32Read # ui32Write
    PROVE  acquired'.offset = ui32Read /\ acquired'.len \in Starts(View, Unread) \ {0}
<1>1. TypeOK /\ RingFacts /\ Ring
  BY RingFactsHold DEF StreamInv, ReservedInv
<1>2. PICK r, o, u : r = ui32Read /\ o = ui32Write /\ u = Unread
  OBVIOUS
<1>3. /\ r \in 0..(ui32Size - 1) /\ o \in 0..(ui32Size - 1) /\ ui32Size \in Nat
      /\ u = Ahead(r, o) /\ r # o /\ u \in Offsets
      /\ View \in [Offsets -> Cells] /\ \A d \in Offsets : View[d] = buf[At(r, d)]
  BY <1>1, <1>2, SizeIs DEF RingFacts, Offsets
<1>4. PICK n : n = IF r > o THEN ui32Size - r ELSE o - r
  OBVIOUS
<1>5. acquired'.offset = r /\ acquired'.len = n
  BY <1>2, <1>4 DEF Acquire
<1>6. CASE r > o
  <2>1. u = o + ui32Size - r /\ n = ui32Size - r
    BY <1>3, <1>4, <1>6 DEF Ahead
  <2>2. n \in 0..u /\ n # 0 /\ n \in Offsets /\ (n = u <=> o = 0) /\ At(r, n) = 0
    BY <1>3, <1>6, <2>1 DEF At, Offsets
  <2>3. ASSUME n # u PROVE View[n] \in Headers
    <3>1. View[n] = buf[0] /\ n < u
      BY <1>3, <2>2, <2>3 DEF Offsets
    <3>2. View[n] # Body /\ View[n] \in Headers \cup {Body}
      BY <1>1, <1>2, <2>2, <3>1 DEF Ring, Framed
    <3>3. QED
      BY <3>2
  <2>4. QED
    BY <1>2, <1>5, <2>2, <2>3 DEF Starts
<1>7. CASE ~(r > o)
  <2>1. n = u /\ u \in Nat /\ u # 0
    BY <1>3, <1>4, <1>7 DEF Ahead
  <2>2. n \in Starts(View, Unread)
    BY <1>2, <2>1 DEF Starts
  <2>3. QED
    BY <1>2, <1>5, <2>1, <2>2
<1>8. QED
  BY <1>6, <1>7

\* The reader's other steps, and changes of the mode.
LEMMA ReadStream ==
    ASSUME StreamInv, ReservedInv', ~ReconfigureAnyTime,
           Reconfigure \/ Open \/ Reset \/ Acquire \/ NothingThere \/ Close
    PROVE  StreamInv'
<1>1. /\ TypeOK /\ TypeOK' /\ Ring /\ Reading /\ Writing /\ RingFacts
  BY RingFactsHold DEF StreamInv, ReservedInv
<1>2. UNCHANGED <<pc, local>>
  BY DEF Reconfigure, Open, Reset, Acquire, NothingThere, Close, writerVars
<1>3. CASE Reset
  <2>1. /\ ui32Read' = 0 /\ ui32Write' = 0 /\ buf' = [o \in Offsets |-> Garbage]
        /\ reader = "reset" /\ reader' = "idle" /\ UNCHANGED <<acquired, eOpMode>>
    BY <1>3 DEF Reset
  <2>2. \A w \in Writers : pc[w] = "idle"
    BY <1>3, NoneBusy DEF Reset, StreamInv
  <2>3. Writing'
    BY <1>2, <2>2 DEF Writing
  <2>4. Reading'
    BY <1>1, <2>1 DEF Reading
  <2>5. 0 \in Offsets /\ ui32Size \in Nat /\ ui32Size >= 2
    BY SizeIs DEF Offsets
  <2>6. Unread' = 0
    <3>1. RingFacts'
      BY <1>1, RingFactsNext
    <3>2. Unread' = Ahead(ui32Read', ui32Write')
      BY <3>1 DEF RingFacts, Ahead
    <3>3. Ahead(0, 0) = 0
      BY <2>5, PlaceIs
    <3>4. QED
      BY <2>1, <3>2, <3>3
  <2>7. Framed(View', 0)
    BY <2>5 DEF Framed, Offsets
  <2>8. buf'[0] # Body
    BY <2>1, <2>5, HeadersAre
  <2>9. Ring'
    BY <2>5, <2>6, <2>7, <2>8 DEF Ring
  <2>10. QED
    BY <2>3, <2>4, <2>9 DEF StreamInv
<1>4. CASE Reconfigure \/ Open \/ Acquire \/ NothingThere \/ Close
  <2>1. UNCHANGED <<buf, ui32Read, ui32Write>>
    BY <1>4 DEF Reconfigure, Open, Acquire, NothingThere, Close, offsets
  <2>2. Ring' /\ View' = View /\ Unread' = Unread
    BY <1>1, <2>1, RingUntouched
  <2>3. \A w \in Writers : /\ Sampled(w) => Sampled(w)'
                           /\ Committing(w) => Committing(w)'
    BY <1>2, <2>1, <2>2 DEF Sampled, Committing, Ahead
  <2>4. Writing'
    <3>1. CASE Reconfigure
      <4>1. \A w \in Writers : pc[w] = "idle"
        BY <3>1, NoneBusy DEF Reconfigure, StreamInv
      <4>2. QED
        BY <1>2, <4>1 DEF Writing
    <3>2. CASE Open \/ Acquire \/ NothingThere \/ Close
      <4>1. Lossy' <=> Lossy
        BY <3>2 DEF Open, Acquire, NothingThere, Close, Lossy
      <4>2. \A w \in Writers : pc[w] = "drop" => ~bReadPending'
        BY <1>1, <3>2 DEF Writing, Dropping, Open, Acquire, NothingThere, Close, PendingEnds,
                          ReadUnlocked
      <4>3. \A w \in Writers : pc[w] = "drop" => Dropping(w)'
        BY <1>1, <1>2, <2>1, <2>2, <4>1, <4>2 DEF Writing, Dropping, Ahead
      <4>4. QED
        BY <1>1, <1>2, <2>3, <4>1, <4>3 DEF Writing
    <3>3. QED
      BY <1>4, <3>1, <3>2
  <2>5. Reading'
    <3>1. CASE Reconfigure
      BY <1>1, <3>1 DEF Reconfigure, Reading, readerVars
    <3>2. CASE Open
      BY <1>1, <3>2 DEF Open, Reading
    <3>3. CASE Acquire
      <4>1. reader = "idle" /\ ui32Read' = ui32Read /\ (Lossy' <=> Lossy)
            /\ (Lossy' => bReadPending')
        BY <3>3 DEF Acquire, offsets, Lossy
      <4>2. CASE ui32Read = ui32Write
        <5>1. reader' # "reading" /\ acquired' = acquired
          BY <3>3, <4>2 DEF Acquire
        <5>2. QED
          BY <1>1, <4>1, <5>1 DEF Reading
      <4>3. CASE ui32Read # ui32Write
        <5>1. reader' = "reading"
          BY <3>3, <4>3 DEF Acquire
        <5>2. acquired'.offset = ui32Read' /\ acquired'.len \in Starts(View', Unread') \ {0}
          BY <2>2, <3>3, <4>1, <4>3, AcquireSeen
        <5>3. QED
          BY <4>1, <5>1, <5>2 DEF Reading
      <4>4. QED
        BY <4>2, <4>3
    <3>4. CASE NothingThere
      BY <1>1, <3>4 DEF NothingThere, Reading
    <3>5. CASE Close
      BY <3>5 DEF Close, Reading, Nothing
    <3>6. QED
      BY <1>4, <3>1, <3>2, <3>3, <3>4, <3>5
  <2>6. QED
    BY <2>2, <2>4, <2>5 DEF StreamInv
<1>5. QED
  BY <1>3, <1>4

LEMMA StreamInit == Init => StreamInv
<1> SUFFICES ASSUME Init PROVE StreamInv
  OBVIOUS
<1>1. ReservedInv /\ TypeOK
  BY ReservedInit DEF ReservedInv
<1>2. RingFacts /\ ui32Size \in Nat /\ ui32Size >= 2 /\ 0 \in Offsets
  BY <1>1, RingFactsHold, SizeIs DEF Offsets
<1>3. Unread = 0
  BY <1>1, UnreadIs DEF Init
<1>4. Framed(View, 0)
  BY <1>2 DEF Framed, Offsets
<1>5. Ring
  BY <1>2, <1>3, <1>4, HeadersAre DEF Init, Ring
<1>6. Writing /\ Reading
  BY DEF Init, Writing, Reading, Nothing
<1>7. QED
  BY <1>1, <1>5, <1>6 DEF StreamInv

LEMMA StreamStep == ~ReconfigureAnyTime /\ StreamInv /\ [Next]_vars => StreamInv'
<1> SUFFICES ASSUME ~ReconfigureAnyTime, StreamInv, [Next]_vars PROVE StreamInv'
  OBVIOUS
<1>1. ReservedInv'
  BY ReservedStep DEF StreamInv
<1>2. CASE \E w \in Writers : Write(w)
  <2>1. PICK w \in Writers : Write(w)
    BY <1>2
  <2>2. QED
    BY <1>1, <2>1, LookStream, GiveUpStream, DroppedStream, HeaderStream, CommitStream DEF Write
<1>3. CASE Reconfigure \/ Open \/ Reset \/ Acquire \/ NothingThere \/ Close
  BY <1>1, <1>3, ReadStream
<1>4. CASE Release
  BY <1>1, <1>4, ReleaseStream
<1>5. CASE UNCHANGED vars
  <2>1. UNCHANGED <<buf, ui32Read, ui32Write, eOpMode, bReadPending, reader, acquired, pc, local>>
    BY <1>5 DEF vars, offsets, writerVars, readerVars
  <2>2. Ring' /\ View' = View /\ Unread' = Unread
    BY <1>1, <2>1, RingUntouched DEF ReservedInv
  <2>3. Writing'
    BY <2>1, <2>2 DEF StreamInv, Writing, Sampled, Dropping, Committing, Lossy, Ahead
  <2>4. Reading'
    BY <2>1, <2>2 DEF StreamInv, Reading, Lossy
  <2>5. QED
    BY <1>1, <2>2, <2>3, <2>4 DEF StreamInv
<1>6. QED
  BY <1>2, <1>3, <1>4, <1>5 DEF Next

\* What can be read is a chain of whole packets from the read offset to the
\* write offset, none of which wraps, that writers only add to and the read
\* offset only leaves at their ends; what the reader has acquired is part of it.
THEOREM StreamInvariant == ASSUME ~ReconfigureAnyTime PROVE Spec => []StreamInv
<1>1. StreamInv /\ [Next]_vars => StreamInv'
  BY StreamStep
<1>2. QED
  BY <1>1, StreamInit, PTL DEF Spec

-----------------------------------------------------------------------------
(* What the steps do to the queue.                                         *)

LEMMA FirstStarts ==
    ASSUME NEW g, NEW u \in Offsets, Framed(g, u)
    PROVE  0 \in Starts(g, u) /\ u \in Starts(g, u) /\ u - 0 = u
  BY SizeIs DEF Framed, Starts, Offsets

LEMMA SomeWalk ==
    ASSUME NEW g, NEW len \in 0..ui32Size
    PROVE  \E f : Walks(f, g, len)
<1>1. PICK f : f = [n \in 0..(2 * ui32Size) |-> WalkStep(f, g, n, len)]
  BY WalkExists
<1>2. Walks(f, g, len)
  BY <1>1 DEF Walks
<1>3. QED
  BY <1>2

\* Only what can be read counts.
LEMMA WalkSame ==
    ASSUME NEW g, NEW u \in Offsets, Framed(g, u), NEW f, Walks(f, g, u),
           NEW h, NEW e, Walks(e, h, u), \A d \in Offsets : d < u => h[d] = g[d]
    PROVE  e[0] = f[0]
<1>1. 0 \in Starts(g, u) /\ u - 0 = u
  BY FirstStarts
<1>2. \A d \in Offsets : 0 + d < u => h[d] = g[0 + d]
  BY SizeIs DEF Offsets
<1>3. Walks(e, h, u - 0)
  BY <1>1
<1>4. QED
  BY <1>1, <1>2, <1>3, WalkMoved

\* A header published behind it adds its packet, and padding adds nothing.
LEMMA WalkGrown ==
    ASSUME NEW g, NEW u \in Offsets, Framed(g, u), NEW f, Walks(f, g, u),
           NEW h, \A d \in Offsets : d < u => h[d] = g[d],
           NEW x \in Headers, u + x.size < ui32Size, Laid(h, u, x),
           NEW e, Walks(e, h, u + x.size)
    PROVE  e[0] = f[0] \o Joined(x, <<>>) /\ f[0] \in Seq(Packets)
<1>1. PICK v : v = u + x.size
  OBVIOUS
<1>2. Framed(h, v) /\ v \in Offsets
  BY <1>1, FramedGrown
<1>3. u \in 0..(ui32Size - 1) /\ x.size \in 1..ui32Size /\ ui32Size \in Nat
  BY HeadersAre, SizeIs DEF Offsets
<1>4. h[u] = x
  BY DEF Laid
<1>5. u \in Starts(h, v) /\ u < v
  BY <1>1, <1>3, <1>4 DEF Starts
<1>6. Framed(h, u) /\ 0 \in Starts(g, u)
  BY FramedSame, FirstStarts
<1>7. \E w : Walks(w, h, u)
  <2>1. u \in 0..ui32Size
    BY <1>3
  <2>2. QED
    BY <2>1, SomeWalk
<1>8. PICK w : Walks(w, h, u)
  BY <1>7
<1>9. w[0] = f[0] /\ f[0] \in Seq(Packets)
  BY <1>6, <1>8, WalkSame, WalkInSeq
<1>10. Walks(e, h, v)
  BY <1>1
<1>11. e[0] = w[0] \o e[u]
  <2>1. 0 \in Starts(h, u)
    BY <1>6, FirstStarts
  <2>2. \A n \in Starts(h, u) : e[n] = w[n] \o e[u]
    <3>1. Cut(e, w, h, u)
      BY <1>2, <1>5, <1>8, <1>10, WalkSplit
    <3>2. QED
      BY <3>1 DEF Cut
  <2>3. QED
    BY <2>1, <2>2
<1>12. e[u] = Joined(x, e[v]) /\ e[v] = <<>>
  <2>1. v \in Starts(h, v)
    BY <1>2, FirstStarts
  <2>2. e[v] = <<>>
    BY <1>2, <1>10, <2>1, WalkBehind
  <2>3. e[u] = Joined(h[u], e[u + h[u].size])
    BY <1>2, <1>5, <1>10, WalkBehind
  <2>4. QED
    BY <1>1, <1>4, <2>2, <2>3
<1>13. QED
  BY <1>9, <1>11, <1>12

\* Without its beginning, and how much that is.
Later(f, e, g, u, c) ==
    \E s \in Seq(Packets) :
        /\ f[0] = s \o e[0] /\ e[0] \in Seq(Packets)
        /\ \A a \in Starts(g, u) : c <= a =>
              \A k : Walks(k, g, a) => Len(s) <= Len(k[0])

LEMMA WalkLater ==
    ASSUME NEW g, NEW u \in Offsets, Framed(g, u), NEW f, Walks(f, g, u),
           NEW c \in Starts(g, u), NEW h, NEW e, Walks(e, h, u - c),
           \A d \in Offsets : c + d < u => h[d] = g[c + d]
    PROVE  Later(f, e, g, u, c)
<1>1. /\ Framed(g, c) /\ c \in Offsets /\ e[0] = f[c] /\ f[c] \in Seq(Packets)
  BY FramedPart, WalkMoved, WalkInSeq
<1>2. \E w : Walks(w, g, c)
  <2>1. c \in 0..(ui32Size - 1) /\ ui32Size \in Nat
    BY <1>1, SizeIs DEF Offsets
  <2>2. c \in 0..ui32Size
    BY <2>1
  <2>3. QED
    BY <2>2, SomeWalk
<1>3. PICK w : Walks(w, g, c)
  BY <1>2
<1>4. 0 \in Starts(g, c) /\ w[0] \in Seq(Packets)
  <2>1. 0 \in Starts(g, c)
    BY <1>1, FirstStarts
  <2>2. \A n \in Starts(g, c) : w[n] \in Seq(Packets)
    BY <1>1, <1>3, WalkInSeq
  <2>3. QED
    BY <2>1, <2>2
<1>5. f[0] = w[0] \o e[0]
  <2>1. \A n \in Starts(g, c) : f[n] = w[n] \o f[c]
    <3>1. Cut(f, w, g, c)
      BY <1>3, WalkSplit
    <3>2. QED
      BY <3>1 DEF Cut
  <2>2. QED
    BY <1>1, <1>4, <2>1
<1>6. ASSUME NEW a \in Starts(g, u), c <= a, NEW k, Walks(k, g, a)
      PROVE  Len(w[0]) <= Len(k[0])
  <2>1. Framed(g, a) /\ a \in Offsets /\ c \in Starts(g, a)
    BY <1>6, FramedPart
  <2>2. k[0] = w[0] \o k[c] /\ k[c] \in Seq(Packets)
    <3>1. \A n \in Starts(g, c) : k[n] = w[n] \o k[c]
      <4>1. Cut(k, w, g, c)
        BY <1>3, <1>6, <2>1, WalkSplit
      <4>2. QED
        BY <4>1 DEF Cut
    <3>2. \A n \in Starts(g, a) : k[n] \in Seq(Packets)
      BY <1>6, <2>1, WalkInSeq
    <3>3. QED
      BY <1>4, <2>1, <3>1, <3>2
  <2>3. PICK s, t, q : s = w[0] /\ t = k[c] /\ q = k[0]
    OBVIOUS
  <2>4. s \in Seq(Packets) /\ t \in Seq(Packets) /\ q = s \o t
    BY <1>4, <2>2, <2>3
  <2>5. Len(q) = Len(s) + Len(t) /\ Len(s) \in Nat /\ Len(t) \in Nat
    BY <2>4, ConcatProperties, LenProperties
  <2>6. PICK l, m, n : l = Len(s) /\ m = Len(t) /\ n = Len(q)
    OBVIOUS
  <2>7. l <= n
    BY <2>5, <2>6
  <2>8. QED
    BY <2>3, <2>6, <2>7
<1>7. QED
  BY <1>1, <1>4, <1>5, <1>6 DEF Later

\* What is left of a sequence without its beginning.
LEMMA RestIs ==
    ASSUME NEW s \in Seq(Packets), NEW t \in Seq(Packets)
    PROVE  SubSeq(s \o t, Len(s) + 1, Len(s \o t)) = t
<1>1. PICK q, m, n : q = s \o t /\ m = Len(s) /\ n = Len(t)
  OBVIOUS
<1>2. /\ q \in Seq(Packets) /\ Len(q) = m + n /\ m \in Nat /\ n \in Nat
      /\ \A i \in 1..(m + n) : q[i] = IF i <= m THEN s[i] ELSE t[i - m]
  BY <1>1, ConcatProperties, LenProperties
<1>3. \A i \in (m + 1)..(m + n) : q[i] \in Packets
  BY <1>2
<1>4. PICK r : r = SubSeq(q, m + 1, m + n)
  OBVIOUS
<1>5. /\ r \in Seq(Packets)
      /\ Len(r) = IF m + 1 <= m + n THEN (m + n) - (m + 1) + 1 ELSE 0
      /\ \A i \in 1..((m + n) - (m + 1) + 1) : r[i] = q[(m + 1) + i - 1]
  <2>1. m + 1 \in Int /\ m + n \in Int
    BY <1>2
  <2>2. QED
    BY <1>3, <1>4, <2>1, SubSeqProperties
<1>6. Len(r) = n
  BY <1>2, <1>5
<1>7. ASSUME NEW i \in 1..n PROVE r[i] = t[i]
  <2>1. /\ i \in 1..((m + n) - (m + 1) + 1) /\ (m + 1) + i - 1 = m + i
        /\ m + i \in 1..(m + n) /\ ~(m + i <= m) /\ (m + i) - m = i
    BY <1>2
  <2>2. QED
    BY <1>2, <1>5, <2>1
<1>8. r = t
  <2>1. Len(t) = n
    BY <1>1
  <2>2. QED
    BY <1>5, <1>6, <1>7, <2>1, SeqEqual
<1>9. QED
  BY <1>1, <1>2, <1>4, <1>8

\* What the invariant says of the queue.
LEMMA QueueIs ==
    ASSUME StreamInv
    PROVE  /\ RingFacts /\ Framed(View, Unread)
           /\ \E f : Walks(f, View, Unread) /\ Queue = f[0] /\ f[0] \in Seq(Packets)
<1>1. TypeOK /\ Ring
  BY DEF StreamInv, ReservedInv
<1>2. RingFacts /\ Framed(View, Unread) /\ QueueFacts
  BY <1>1, RingFactsHold, QueueFactsHold DEF Ring
<1>3. PICK f : Walks(f, View, Unread) /\ Queue = f[0]
  BY <1>2 DEF QueueFacts
<1>4. f[0] \in Seq(Packets)
  <2>1. PICK g, u : g = View /\ u = Unread
    OBVIOUS
  <2>2. u \in Offsets /\ Framed(g, u) /\ Walks(f, g, u)
    BY <1>2, <1>3, <2>1 DEF RingFacts
  <2>3. 0 \in Starts(g, u)
    BY <2>2, FirstStarts
  <2>4. QED
    BY <2>2, <2>3, WalkInSeq
<1>5. QED
  BY <1>2, <1>3, <1>4

LEMMA QueueNext ==
    ASSUME TypeOK'
    PROVE  \E e : Walks(e, View', Unread') /\ Queue' = e[0]
  BY QueueFactsNext DEF QueueFacts, Walks, WalkStep

\* What can be read stays, and with it what the reader has acquired.
LEMMA QueueKept ==
    ASSUME StreamInv, TypeOK', Unread' = Unread,
           \A d \in Offsets : d < Unread => View'[d] = View[d]
    PROVE  Queue' = Queue
<1>1. PICK g, u, h : g = View /\ u = Unread /\ h = View'
  OBVIOUS
<1>2. u \in Offsets /\ Framed(g, u) /\ \A d \in Offsets : d < u => h[d] = g[d]
  BY <1>1, QueueIs DEF RingFacts
<1>3. PICK f : Walks(f, g, u) /\ Queue = f[0]
  BY <1>1, QueueIs
<1>4. PICK e : Walks(e, h, u) /\ Queue' = e[0]
  BY <1>1, QueueNext
<1>5. e[0] = f[0]
  BY <1>2, <1>3, <1>4, WalkSame
<1>6. QED
  BY <1>3, <1>4, <1>5

LEMMA QueueGrown ==
    ASSUME StreamInv, TypeOK', NEW x \in Headers, Unread + x.size < ui32Size,
           Unread' = Unread + x.size, Laid(View', Unread, x),
           \A d \in Offsets : d < Unread => View'[d] = View[d]
    PROVE  /\ x \in Packets => Queue' = Append(Queue, x)
           /\ x \notin Packets => Queue' = Queue
<1>1. PICK g, u, h, v : g = View /\ u = Unread /\ h = View' /\ v = u + x.size
  OBVIOUS
<1>2. /\ u \in Offsets /\ Framed(g, u) /\ \A d \in Offsets : d < u => h[d] = g[d]
      /\ u + x.size < ui32Size /\ Laid(h, u, x)
  BY <1>1, QueueIs DEF RingFacts, Laid
<1>3. PICK f : Walks(f, g, u) /\ Queue = f[0]
  BY <1>1, QueueIs
<1>4. PICK e : Walks(e, h, u + x.size) /\ Queue' = e[0]
  BY <1>1, QueueNext
<1>5. PICK q : q = f[0]
  OBVIOUS
<1>6. e[0] = q \o Joined(x, <<>>) /\ q \in Seq(Packets)
  BY <1>2, <1>3, <1>4, <1>5, WalkGrown
<1>7. CASE x \in Packets
  <2>1. Joined(x, <<>>) = <<x>>
    <3>1. <<x>> \o <<>> = <<x>>
      OBVIOUS
    <3>2. QED
      BY <1>7, <3>1 DEF Joined
  <2>2. q \o <<x>> = Append(q, x)
    BY <1>6, <1>7, AppendIsConcat
  <2>3. QED
    BY <1>3, <1>4, <1>5, <1>6, <1>7, <2>1, <2>2
<1>8. CASE x \notin Packets
  <2>1. q \o <<>> = q
    BY <1>6, ConcatEmptySeq
  <2>2. QED
    BY <1>3, <1>4, <1>5, <1>6, <1>8, <2>1 DEF Joined
<1>9. QED
  BY <1>7, <1>8

\* The read offset moves on: the oldest packets are gone, and when the reader
\* releases them no more than it has acquired.
LEMMA QueueMoved ==
    ASSUME StreamInv, TypeOK', NEW c \in Starts(View, Unread),
           ui32Read' = At(ui32Read, c), ui32Write' = ui32Write,
           buf' = Forgotten(ui32Read, At(ui32Read, c))
    PROVE  \E n \in 0..Len(Queue) :
              /\ Queue' = SubSeq(Queue, n + 1, Len(Queue))
              /\ n = 0 => Queue' = Queue
              /\ reader = "reading" /\ c <= acquired.len => n <= HeldPackets
<1>1. PICK g, u, h : g = View /\ u = Unread /\ h = View'
  OBVIOUS
<1>2. u \in Offsets /\ Framed(g, u) /\ c \in Starts(g, u)
  BY <1>1, QueueIs DEF RingFacts
<1>3. /\ Unread' = u - c /\ \A d \in Nat : c + d < ui32Size => h[d] = g[c + d]
  BY <1>1, RingMoves DEF StreamInv, ReservedInv
<1>4. \A d \in Offsets : c + d < u => h[d] = g[c + d]
  <2> SUFFICES ASSUME NEW d \in Offsets, c + d < u PROVE h[d] = g[c + d]
    OBVIOUS
  <2>1. u \in 0..(ui32Size - 1) /\ ui32Size \in Nat /\ c \in 0..u
    BY <1>2, SizeIs DEF Offsets, Starts
  <2>2. d \in Nat /\ c + d < ui32Size
    BY <2>1 DEF Offsets
  <2>3. QED
    BY <1>3, <2>2
<1>5. PICK f : Walks(f, g, u) /\ Queue = f[0]
  BY <1>1, QueueIs
<1>6. PICK e : Walks(e, h, u - c) /\ Queue' = e[0]
  BY <1>1, <1>3, QueueNext
<1>7. PICK s \in Seq(Packets) :
          /\ f[0] = s \o e[0] /\ e[0] \in Seq(Packets)
          /\ \A a \in Starts(g, u) : c <= a =>
                \A k : Walks(k, g, a) => Len(s) <= Len(k[0])
  <2>1. Later(f, e, g, u, c)
    BY <1>2, <1>4, <1>5, <1>6, WalkLater
  <2>2. QED
    BY <2>1 DEF Later
<1>8. PICK q, t, n : q = Queue /\ t = Queue' /\ n = Len(s)
  OBVIOUS
<1>9. q = s \o t /\ t \in Seq(Packets)
  BY <1>5, <1>6, <1>7, <1>8
<1>10. Len(q) = Len(s) + Len(t) /\ Len(s) \in Nat /\ Len(t) \in Nat
  BY <1>9, ConcatProperties, LenProperties
<1>11. n \in 0..Len(q)
  <2>1. PICK m, k : m = Len(q) /\ k = Len(t)
    OBVIOUS
  <2>2. n \in 0..m
    BY <1>8, <1>10, <2>1
  <2>3. QED
    BY <2>1, <2>2
<1>12. t = SubSeq(q, n + 1, Len(q))
  BY <1>8, <1>9, RestIs
<1>13. n = 0 => t = q
  <2>1. n = 0 => s = <<>>
    BY <1>8, EmptySeq
  <2>2. <<>> \o t = t
    BY <1>9, ConcatEmptySeq
  <2>3. QED
    BY <1>9, <2>1, <2>2
<1>14. ASSUME reader = "reading", c <= acquired.len PROVE n <= HeldPackets
  <2>1. PICK a : a = acquired.len
    OBVIOUS
  <2>2. acquired.offset = ui32Read /\ a \in Starts(g, u) /\ a # 0
    BY <1>1, <1>14, <2>1 DEF StreamInv, Reading
  <2>3. QueueFacts
    BY QueueFactsHold DEF StreamInv, ReservedInv
  <2>4. PICK k : Walks(k, g, a) /\ HeldPackets = Len(k[0])
    BY <1>1, <2>1, <2>2, <2>3 DEF QueueFacts
  <2>5. QED
    BY <1>7, <1>8, <1>14, <2>1, <2>2, <2>4
<1>15. QED
  BY <1>8, <1>11, <1>12, <1>13, <1>14

\* What the reader holds is a beginning of the queue.
HeldFacts ==
    /\ reader # "reading" => HeldPackets = 0
    /\ HeldPackets \in 0..Len(Queue)

LEMMA HeldIs == StreamInv => HeldFacts
<1> SUFFICES ASSUME StreamInv PROVE HeldFacts
  OBVIOUS
<1>1. PICK g, u, a : g = View /\ u = Unread /\ a = acquired.len
  OBVIOUS
<1>2. u \in Offsets /\ Framed(g, u)
  BY <1>1, QueueIs DEF RingFacts
<1>3. PICK f : Walks(f, g, u) /\ Queue = f[0] /\ f[0] \in Seq(Packets)
  BY <1>1, QueueIs
<1>4. QueueFacts
  BY QueueFactsHold DEF StreamInv, ReservedInv
<1>5. reader # "reading" => HeldPackets = 0
  BY <1>4 DEF StreamInv, Reading, QueueFacts
<1>6. ASSUME reader # "reading" PROVE HeldPackets \in 0..Len(Queue)
  <2>1. PICK q, l : q = f[0] /\ l = Len(q)
    OBVIOUS
  <2>2. l \in Nat
    BY <1>3, <2>1, LenProperties
  <2>3. HeldPackets = 0 /\ Len(Queue) = l
    BY <1>3, <1>5, <1>6, <2>1
  <2>4. QED
    BY <2>2, <2>3
<1>7. ASSUME reader = "reading" PROVE HeldPackets \in 0..Len(Queue)
  <2>1. acquired.offset = ui32Read /\ a \in Starts(g, u) /\ a # 0
    BY <1>1, <1>7 DEF StreamInv, Reading
  <2>2. PICK k : Walks(k, g, a) /\ HeldPackets = Len(k[0])
    BY <1>1, <1>4, <2>1 DEF QueueFacts
  <2>3. Framed(g, a) /\ a \in Offsets
    BY <1>2, <2>1, FramedPart
  <2>4. 0 \in Starts(g, a)
    BY <2>3, FirstStarts
  <2>5. k[0] \in Seq(Packets) /\ f[a] \in Seq(Packets)
    BY <1>2, <1>3, <2>1, <2>2, <2>3, <2>4, WalkInSeq
  <2>6. Cut(f, k, g, a)
    BY <1>2, <1>3, <2>1, <2>2, WalkSplit
  <2>7. f[0] = k[0] \o f[a]
    BY <2>4, <2>6 DEF Cut
  <2>8. PICK q, s, t : q = f[0] /\ s = k[0] /\ t = f[a]
    OBVIOUS
  <2>9. q = s \o t /\ s \in Seq(Packets) /\ t \in Seq(Packets)
    BY <2>5, <2>7, <2>8
  <2>10. Len(q) = Len(s) + Len(t) /\ Len(s) \in Nat /\ Len(t) \in Nat
    BY <2>9, ConcatProperties, LenProperties
  <2>11. PICK l, m, n : l = Len(q) /\ m = Len(s) /\ n = Len(t)
    OBVIOUS
  <2>12. m \in 0..l
    BY <2>10, <2>11
  <2>13. HeldPackets = m /\ Len(Queue) = l
    BY <1>3, <2>2, <2>8, <2>11
  <2>14. QED
    BY <2>12, <2>13
<1>8. QED
  <2>1. HeldPackets \in 0..Len(Queue)
    BY <1>6, <1>7
  <2>2. QED
    BY <1>5, <2>1 DEF HeldFacts

LEMMA HeldNext == StreamInv' => HeldFacts'
  BY HeldIs, PTL

LEMMA HeldKept ==
    ASSUME StreamInv, TypeOK', ui32Read' = ui32Read, UNCHANGED acquired,
           \A d \in Offsets : d < Unread => View'[d] = View[d]
    PROVE  HeldPackets' = HeldPackets
<1>1. PICK g, u, h, a : g = View /\ u = Unread /\ h = View' /\ a = acquired.len
  OBVIOUS
<1>2. u \in Offsets /\ Framed(g, u) /\ \A d \in Offsets : d < u => h[d] = g[d]
  BY <1>1, QueueIs DEF RingFacts
<1>3. QueueFacts /\ QueueFacts'
  BY QueueFactsHold, QueueFactsNext DEF StreamInv, ReservedInv
<1>4. CASE a = 0
  <2>1. HeldPackets = 0 /\ HeldPackets' = 0
    BY <1>1, <1>3, <1>4 DEF QueueFacts
  <2>2. QED
    BY <2>1
<1>5. CASE a # 0
  <2>1. reader = "reading" /\ acquired.offset = ui32Read /\ a \in Starts(g, u)
    BY <1>1, <1>5 DEF StreamInv, Reading
  <2>2. PICK f : Walks(f, g, a) /\ HeldPackets = Len(f[0])
    BY <1>1, <1>3, <1>5, <2>1 DEF QueueFacts
  <2>3. PICK e : Walks(e, h, a) /\ HeldPackets' = Len(e[0])
    BY <1>1, <1>3, <1>5, <2>1 DEF QueueFacts, Walks, WalkStep
  <2>4. Framed(g, a) /\ a \in Offsets /\ a <= u
    BY <1>2, <2>1, FramedPart
  <2>5. \A d \in Offsets : d < a => h[d] = g[d]
    <3>1. \A d \in Offsets : d < a => d < u
      BY <1>2, <2>4, SizeIs DEF Offsets
    <3>2. QED
      BY <1>2, <3>1
  <2>6. e[0] = f[0]
    BY <2>2, <2>3, <2>4, <2>5, WalkSame
  <2>7. QED
    BY <2>2, <2>3, <2>6
<1>6. QED
  BY <1>4, <1>5

\* The steps of LossyFifo, or none of them.
Rest(n) == SubSeq(Queue, n + 1, Len(Queue))

FifoMoves ==
    \/ UNCHANGED <<Queue, HeldPackets, Lossy>>
    \/ \E x \in Packets : Queue' = Append(Queue, x) /\ UNCHANGED <<HeldPackets, Lossy>>
    \/ HeldPackets = 0 /\ Lossy /\ (\E n \in 1..Len(Queue) : Queue' = Rest(n))
       /\ UNCHANGED <<HeldPackets, Lossy>>
    \/ HeldPackets = 0 /\ HeldPackets' \in 1..Len(Queue) /\ UNCHANGED <<Queue, Lossy>>
    \/ (\E n \in 0..HeldPackets : Queue' = Rest(n)) /\ HeldPackets' = 0 /\ UNCHANGED Lossy
    \/ HeldPackets = 0 /\ Queue' = <<>> /\ UNCHANGED <<HeldPackets, Lossy>>
    \/ Lossy' \in BOOLEAN /\ UNCHANGED <<Queue, HeldPackets>>

LEMMA RingUntouchedFifo ==
    ASSUME StreamInv, TypeOK', UNCHANGED <<buf, ui32Read, ui32Write>>
    PROVE  Queue' = Queue /\ (UNCHANGED acquired => HeldPackets' = HeldPackets)
<1>1. Unread' = Unread /\ View' = View
  BY RingUntouched
<1>2. QED
  BY <1>1, QueueKept, HeldKept

\* The writer's steps.
LEMMA WriteFifo ==
    ASSUME StreamInv, TypeOK', NEW w \in Writers, Write(w)
    PROVE  FifoMoves
<1>1. UNCHANGED <<eOpMode, acquired, reader>>
  BY DEF Write, Reserve, LookForSpace, Wake, LockRead, DropOldest, Dropped, DropNewer,
         WriteHeader, ReserveFails, Commit, readerVars
<1>2. UNCHANGED Lossy
  BY <1>1 DEF Lossy
<1>3. CASE UNCHANGED <<buf, ui32Read, ui32Write>>
  BY <1>1, <1>2, <1>3, RingUntouchedFifo DEF FifoMoves
<1>4. CASE Dropped(w)
  <2>1. PICK c \in Starts(View, Unread) :
            /\ ui32Read' = At(ui32Read, c) /\ ui32Write' = ui32Write
            /\ buf' = Forgotten(ui32Read, At(ui32Read, c))
    BY <1>4, DroppedSeen
  <2>2. PICK n \in 0..Len(Queue) :
            /\ Queue' = SubSeq(Queue, n + 1, Len(Queue))
            /\ n = 0 => Queue' = Queue
    BY <2>1, QueueMoved
  <2>3. reader # "reading" /\ acquired.len = 0 /\ acquired'.len = 0 /\ Lossy
    BY <1>1, <1>4 DEF Dropped, StreamInv, Writing, Dropping, Reading
  <2>4. HeldPackets = 0 /\ HeldPackets' = 0
    BY <2>3 DEF HeldPackets
  <2>5. CASE n = 0
    BY <1>2, <2>2, <2>4, <2>5 DEF FifoMoves
  <2>6. CASE n # 0
    <3>1. n \in 1..Len(Queue)
      BY <2>2, <2>6
    <3>2. Queue' = Rest(n)
      BY <2>2 DEF Rest
    <3>3. QED
      BY <1>2, <2>3, <2>4, <3>1, <3>2 DEF FifoMoves
  <2>7. QED
    BY <2>5, <2>6
<1>5. ASSUME DropNewer(w), ~UNCHANGED <<buf, ui32Write>> PROVE FifoMoves
  <2>1. /\ ui32Read' = ui32Read /\ Unread + 1 < ui32Size /\ Unread' = Unread + 1
        /\ \A d \in Offsets : d < Unread => View'[d] = View[d]
        /\ Laid(View', Unread, WriteFailed)
    BY <1>5, MarkSeen
  <2>2. PICK x : x = WriteFailed
    OBVIOUS
  <2>3. x \in Headers /\ x \in Packets /\ x.size = 1
    BY <2>2, HeadersAre
  <2>4. /\ Unread + x.size < ui32Size /\ Unread' = Unread + x.size
        /\ Laid(View', Unread, x)
    BY <2>1, <2>2, <2>3
  <2>5. Queue' = Append(Queue, x)
    BY <2>1, <2>3, <2>4, QueueGrown
  <2>6. HeldPackets' = HeldPackets
    BY <1>1, <2>1, HeldKept
  <2>7. QED
    BY <1>2, <2>3, <2>5, <2>6 DEF FifoMoves
<1>6. CASE Commit(w)
  <2>1. PICK x : x = Data(local[w].size)
    OBVIOUS
  <2>2. /\ ui32Read' = ui32Read /\ x \in Packets /\ x \in Headers
        /\ Unread + x.size + 1 < ui32Size /\ Unread' = Unread + x.size
        /\ View' = View /\ Laid(View', Unread, x)
    BY <1>6, <2>1, CommitSeen
  <2>3. Unread + x.size < ui32Size
    <3>1. RingFacts
      BY QueueIs
    <3>2. Unread \in Nat /\ ui32Size \in Nat /\ x.size \in Nat
      BY <2>2, <3>1, SizeIs, HeadersAre DEF RingFacts, Offsets
    <3>3. QED
      BY <2>2, <3>2
  <2>4. Queue' = Append(Queue, x)
    BY <2>2, <2>3, QueueGrown
  <2>5. HeldPackets' = HeldPackets
    BY <1>1, <2>2, HeldKept
  <2>6. QED
    BY <1>2, <2>2, <2>4, <2>5 DEF FifoMoves
<1>7. CASE WriteHeader(w)
  <2>1. PICK q, p : q = local[w] /\ p = Pad(q)
    OBVIOUS
  <2>2. /\ ui32Read' = ui32Read /\ p \in Nat /\ q.size \in PacketSizes
        /\ Unread' = Unread + p /\ Room(Unread', q.size)
        /\ \A d \in Offsets : d < Unread => View'[d] = View[d]
        /\ p # 0 => p \in 1..ui32Size /\ Laid(View', Unread, Padding(p))
    BY <1>7, <2>1, HeaderSeen
  <2>3. Unread \in Nat /\ ui32Size \in Nat /\ q.size \in Nat \ {0}
    BY <2>2, QueueIs, SizeIs DEF RingFacts, Offsets
  <2>4. Queue' = Queue
    <3>1. CASE p = 0
      <4>1. Unread' = Unread
        BY <2>2, <2>3, <3>1
      <4>2. QED
        BY <2>2, <4>1, QueueKept
    <3>2. CASE p # 0
      <4>1. PICK x : x = Padding(p)
        OBVIOUS
      <4>2. x \in Headers /\ x \notin Packets /\ x.size = p
        BY <2>2, <3>2, <4>1, HeadersAre
      <4>3. Unread + x.size < ui32Size
        BY <2>2, <2>3, <4>2 DEF Room, RESERVED
      <4>4. Unread' = Unread + x.size /\ Laid(View', Unread, x)
        BY <2>2, <3>2, <4>1, <4>2
      <4>5. QED
        BY <2>2, <4>2, <4>3, <4>4, QueueGrown
    <3>3. QED
      BY <3>1, <3>2
  <2>5. HeldPackets' = HeldPackets
    BY <1>1, <2>2, HeldKept
  <2>6. QED
    BY <1>2, <2>4, <2>5 DEF FifoMoves
<1>8. QED
  BY <1>3, <1>4, <1>5, <1>6, <1>7
     DEF Write, Reserve, LookForSpace, Wake, LockRead, DropOldest, DropNewer, ReserveFails, offsets

\* The reader's steps.
LEMMA ReadFifo ==
    ASSUME StreamInv, StreamInv', TypeOK',
           Reconfigure \/ Open \/ Reset \/ Acquire \/ NothingThere \/ Release \/ Close
    PROVE  FifoMoves
<1>1. HeldFacts /\ HeldFacts'
  BY HeldIs, HeldNext
<1>2. CASE Reconfigure
  <2>1. UNCHANGED <<buf, ui32Read, ui32Write, acquired>>
    BY <1>2 DEF Reconfigure, offsets, readerVars
  <2>2. UNCHANGED <<Queue, HeldPackets>>
    BY <2>1, RingUntouchedFifo
  <2>3. Lossy' \in BOOLEAN
    BY DEF Lossy
  <2>4. QED
    BY <2>2, <2>3 DEF FifoMoves
<1>3. ASSUME ~Reconfigure PROVE UNCHANGED Lossy
  BY <1>3 DEF Open, Reset, Acquire, NothingThere, Release, Close, Lossy
<1>4. CASE Open \/ NothingThere
  <2>1. UNCHANGED <<buf, ui32Read, ui32Write, acquired, eOpMode>>
    BY <1>4 DEF Open, NothingThere, offsets
  <2>2. UNCHANGED <<Queue, HeldPackets>> /\ UNCHANGED Lossy
    BY <2>1, RingUntouchedFifo DEF Lossy
  <2>3. QED
    BY <2>2 DEF FifoMoves
<1>5. CASE Reset
  <2>1. reader = "reset" /\ reader' = "idle" /\ ui32Read' = ui32Write' /\ UNCHANGED eOpMode
    BY <1>5 DEF Reset
  <2>2. HeldPackets = 0 /\ HeldPackets' = 0 /\ UNCHANGED Lossy
    BY <1>1, <2>1 DEF HeldFacts, Lossy
  <2>3. Queue' = <<>>
    <3>1. PICK e : Walks(e, View', Unread') /\ Queue' = e[0]
      BY QueueNext
    <3>2. Unread' = 0
      <4>1. RingFacts'
        BY RingFactsNext
      <4>2. PICK r : r = ui32Read'
        OBVIOUS
      <4>3. Unread' = Ahead(r, r) /\ r \in Offsets
        BY <2>1, <4>1, <4>2 DEF RingFacts, Ahead
      <4>4. QED
        BY <4>3, PlaceIs
    <3>3. Walks(e, View', 0) /\ 0 \in 0..(2 * ui32Size) /\ 0 >= 0
      BY <3>1, <3>2, SizeIs
    <3>4. e[0] = <<>>
      BY <3>3 DEF Walks, WalkStep
    <3>5. QED
      BY <3>1, <3>4
  <2>4. QED
    BY <2>2, <2>3 DEF FifoMoves
<1>6. CASE Acquire
  <2>1. UNCHANGED <<buf, ui32Read, ui32Write, eOpMode>> /\ reader = "idle"
    BY <1>6 DEF Acquire, offsets
  <2>2. HeldPackets = 0 /\ UNCHANGED <<Queue, Lossy>>
    BY <1>1, <2>1, RingUntouchedFifo DEF HeldFacts, Lossy
  <2>3. PICK n : n = HeldPackets'
    OBVIOUS
  <2>4. n \in 0..Len(Queue)
    BY <1>1, <2>2, <2>3 DEF HeldFacts
  <2>5. n = 0 \/ n \in 1..Len(Queue)
    BY <2>4
  <2>6. QED
    BY <2>2, <2>3, <2>5 DEF FifoMoves
<1>7. CASE Close
  <2>1. UNCHANGED <<buf, ui32Read, ui32Write, eOpMode>> /\ reader' # "reading"
    BY <1>7 DEF Close, offsets
  <2>2. HeldPackets' = 0 /\ UNCHANGED <<Queue, Lossy>>
    BY <1>1, <2>1, RingUntouchedFifo DEF HeldFacts, Lossy
  <2>3. Queue' = Rest(0)
    <3>1. PICK f : Queue = f[0] /\ f[0] \in Seq(Packets)
      BY QueueIs
    <3>2. PICK q : q = Queue
      OBVIOUS
    <3>3. q = SubSeq(q, 1, Len(q)) /\ 0 + 1 = 1
      BY <3>1, <3>2, SubSeqFull
    <3>4. QED
      BY <2>2, <3>2, <3>3 DEF Rest
  <2>4. 0 \in 0..HeldPackets
    <3>1. HeldPackets \in Nat
      BY <1>1 DEF HeldFacts
    <3>2. QED
      BY <3>1
  <2>5. QED
    BY <2>2, <2>3, <2>4 DEF FifoMoves
<1>8. CASE Release
  <2>1. PICK c \in Starts(View, Unread) :
            /\ c \in 1..acquired.len /\ acquired.len \in Starts(View, Unread)
            /\ ui32Read' = At(ui32Read, c) /\ ui32Write' = ui32Write
            /\ buf' = Forgotten(ui32Read, At(ui32Read, c))
    BY <1>8, ReleaseSeen
  <2>2. reader = "reading" /\ c <= acquired.len /\ reader' # "reading" /\ UNCHANGED eOpMode
    BY <1>8, <2>1 DEF Release, writerVars
  <2>3. PICK n \in 0..Len(Queue) :
            /\ Queue' = SubSeq(Queue, n + 1, Len(Queue)) /\ n <= HeldPackets
    BY <2>1, <2>2, QueueMoved
  <2>4. HeldPackets' = 0 /\ HeldPackets \in Nat /\ UNCHANGED Lossy
    BY <1>1, <2>2 DEF HeldFacts, Lossy
  <2>5. n \in 0..HeldPackets /\ Queue' = Rest(n)
    BY <2>3, <2>4 DEF Rest
  <2>6. QED
    BY <2>4, <2>5 DEF FifoMoves
<1>9. QED
  BY <1>2, <1>4, <1>5, <1>6, <1>7, <1>8

LEMMA FifoStep ==
    ~ReconfigureAnyTime /\ StreamInv /\ [Next]_vars
        => [Fifo!Next]_<<Queue, HeldPackets, Lossy>>
<1> SUFFICES ASSUME ~ReconfigureAnyTime, StreamInv, [Next]_vars PROVE FifoMoves
  BY DEF FifoMoves, Rest, Queue, Fifo!Next, Fifo!Put, Fifo!Drop, Fifo!Acquire, Fifo!Release,
         Fifo!Reset, Fifo!Reconfigure, Fifo!Without
<1>1. StreamInv' /\ TypeOK'
  BY StreamStep DEF StreamInv, ReservedInv
<1>2. CASE \E w \in Writers : Write(w)
  BY <1>1, <1>2, WriteFifo
<1>3. CASE Reconfigure \/ Open \/ Reset \/ Acquire \/ NothingThere \/ Release \/ Close
  BY <1>1, <1>3, ReadFifo
<1>4. CASE UNCHANGED vars
  <2>1. UNCHANGED <<buf, ui32Read, ui32Write, acquired, eOpMode>>
    BY <1>4 DEF vars, offsets, readerVars
  <2>2. UNCHANGED <<Queue, HeldPackets, Lossy>>
    BY <1>1, <2>1, RingUntouchedFifo DEF Lossy
  <2>3. QED
    BY <2>2 DEF FifoMoves
<1>5. QED
  BY <1>2, <1>3, <1>4 DEF Next

\* What the reader gets are the committed packets, whole, once and in order;
\* packets are lost in drop-oldest mode only, the oldest first, and never while
\* the reader has acquired them (tlstream.c:754, 1499).
THEOREM PacketsInOrder == ASSUME ~ReconfigureAnyTime PROVE Spec => FifoSpec
<1>1. Init => Fifo!Init
  <2> SUFFICES ASSUME Init PROVE Queue = <<>> /\ HeldPackets = 0 /\ Lossy \in BOOLEAN
    BY DEF Fifo!Init, Queue
  <2>1. StreamInv
    BY StreamInit
  <2>2. HeldPackets = 0
    BY DEF Init, Nothing, HeldPackets
  <2>3. PICK f : Walks(f, View, Unread) /\ Queue = f[0]
    BY <2>1, QueueIs
  <2>4. Unread = 0
    BY <2>1, UnreadIs DEF Init, StreamInv, ReservedInv
  <2>5. Walks(f, View, 0) /\ 0 \in 0..(2 * ui32Size) /\ 0 >= 0
    BY <2>3, <2>4, SizeIs
  <2>6. f[0] = <<>>
    BY <2>5 DEF Walks, WalkStep
  <2>7. QED
    BY <2>2, <2>3, <2>6 DEF Lossy
<1>2. StreamInv /\ [Next]_vars => StreamInv'
  BY StreamStep
<1>3. StreamInv /\ [Next]_vars => [Fifo!Next]_(Fifo!vars)
  BY FifoStep DEF Fifo!vars, Queue
<1>4. QED
  BY <1>1, <1>2, <1>3, StreamInit, PTL DEF Spec, FifoSpec, Fifo!Spec
=============================================================================
