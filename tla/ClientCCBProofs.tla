-------------------------- MODULE ClientCCBProofs --------------------------
(***************************************************************************)
(* Proofs about ClientCCB for rings and commands of every size, any number *)
(* of kicks under way and any number of doublings: the types, that the     *)
(* firmware finds a header wherever it looks, although the ring wraps, is  *)
(* padded and grows while the firmware knows only what kicks have told it, *)
(* and that the ring implements CommandFifo.                               *)
(***************************************************************************)
EXTENDS ClientCCB, SequenceTheorems, WellFoundedInduction, TLAPS

\* How far an offset is behind the read offset, the way the firmware goes.
Distance(o) == IF ui32ReadOffset <= o THEN o - ui32ReadOffset
                                      ELSE o + ui32Size - ui32ReadOffset

\* The part of the ring that has been released and not executed, and the
\* offsets in it at which a command or padding begins.
Released(o) == o < ui32Size /\ Distance(o) < Distance(ui32HostWriteOffset)
IsHeader(o) == o \in Offsets /\ Released(o) /\ ccb[o] \in Headers

\* Where one command ends another begins, or the released part ends.
Boundary(o) == o = ui32HostWriteOffset \/ IsHeader(o)
Behind(o)   == IF o + ccb[o].size = ui32Size THEN 0 ELSE o + ccb[o].size

\* The released part consists of whole commands, none of which is split by the
\* end of the ring.
Whole ==
    /\ Boundary(ui32ReadOffset)
    /\ \A o \in Offsets : IsHeader(o) =>
          /\ o + ccb[o].size <= ui32Size
          /\ Distance(o) + ccb[o].size <= Distance(ui32HostWriteOffset)
          /\ \A i \in 1..(ccb[o].size - 1) : ccb[o + i] \notin Headers
          /\ Boundary(Behind(o))

\* What the firmware knows, or will know after a kick, is the end of a command
\* in a ring that was no larger; if the ring has grown since then, what is
\* released up to there has not wrapped.
Knows(w, s) ==
    /\ w < s /\ s <= ui32Size
    /\ Boundary(w)
    /\ s < ui32Size => ui32ReadOffset <= w

Told ==
    /\ Knows(fwWriteOffset, fwSize)
    /\ \A i \in 1..Len(kicks) : Knows(kicks[i].woff, kicks[i].size)

\* Kicks arrive in the order in which offset and size moved on.
Before(w, s, k) == Distance(w) <= Distance(k.woff) /\ s <= k.size
Ordered ==
    /\ \A i \in 1..Len(kicks) : Before(fwWriteOffset, fwSize, kicks[i])
    /\ \A i, j \in 1..Len(kicks) : i < j => Before(kicks[i].woff, kicks[i].size, kicks[j])

\* The space that has been found for a command is still there when the command
\* is written, and what is written stays until it is released.
FreeBytes == ui32Size - Distance(ui32HostWriteOffset) - 1
NoHeaders(o, n) == \A i \in 1..(n - 1) : ccb[o + i] \notin Headers

HasRoom ==
    IF FitsBeforeEnd(cmd.size)
    THEN cmd.size < FreeBytes
    ELSE /\ Remain + cmd.size < FreeBytes
         /\ ccb[ui32HostWriteOffset] = Padding(Remain)
         /\ NoHeaders(ui32HostWriteOffset, Remain)

Caller ==
    /\ ui32HostWriteOffset = 0 \/ ui32HostWriteOffset + PaddingSize <= ui32Size
    /\ pc # "idle" => cmd \in Commands /\ ~TooBig(cmd.size)
    /\ pc = "try" => ui32RetryCount > 0
    /\ pc = "decide" => free <= FreeBytes
    /\ pc = "grow" => MayGrow
    /\ pc \in {"fill", "release"} => HasRoom
    /\ pc = "release" => ccb[Start] = cmd /\ NoHeaders(Start, cmd.size)

\* The inductive invariant.
RingInv == TypeOK /\ Whole /\ Told /\ Ordered /\ Caller

-----------------------------------------------------------------------------
(* Lemmas about the operators of the module.                               *)

\* Headers are no garbage and have a size.
LEMMA HeaderIs ==
    /\ Garbage \notin Headers /\ Body \notin Headers
    /\ Commands \subseteq Headers
    /\ \A n \in PaddingSize..MaxSize : Padding(n) \in Headers /\ Padding(n).size = n
    /\ \A h \in Headers : h.size \in Nat \ {0}
    /\ \A c \in Commands : c.size \in CommandSizes /\ c.size > PaddingSize
<1>1. PaddingSize \in Nat \ {0} /\ \A s \in CommandSizes : s \in Nat /\ s > PaddingSize
  BY ClientCCBAssumption
<1>2. Garbage \notin Headers /\ Body \notin Headers
  <2>1. \A h \in Commands : h.eCmdType = "COMMAND"
    BY DEF Commands, Command
  <2>2. \A n \in PaddingSize..MaxSize : Padding(n).eCmdType = "PADDING"
    BY DEF Padding
  <2>3. \A h \in Headers : h.eCmdType = "COMMAND" \/ h.eCmdType = "PADDING"
    BY <2>1, <2>2 DEF Headers
  <2>4. Garbage.eCmdType = "GARBAGE" /\ Body.eCmdType = "BODY"
    BY DEF Garbage, Body
  <2>5. QED
    BY <2>3, <2>4
<1>3. \A n \in PaddingSize..MaxSize : Padding(n) \in Headers /\ Padding(n).size = n
  BY DEF Headers, Padding
<1>4. \A c \in Commands : c.size \in CommandSizes
  BY DEF Commands, Command
<1>5. MaxSize \in Nat
  BY ClientCCBAssumption DEF MaxSize
<1>6. \A h \in Headers : h.size \in Nat \ {0}
  <2> SUFFICES ASSUME NEW h \in Headers PROVE h.size \in Nat \ {0}
    OBVIOUS
  <2>1. CASE h \in Commands
    BY <1>1, <1>4, <2>1
  <2>2. CASE h \notin Commands
    <3>1. PICK n \in PaddingSize..MaxSize : h = Padding(n)
      BY <2>2 DEF Headers
    <3>2. QED
      BY <1>1, <1>3, <1>5, <3>1
  <2>3. QED
    BY <2>1, <2>2
<1>7. QED
  BY <1>1, <1>2, <1>3, <1>4, <1>6 DEF Headers

\* Sizes of the ring.
LEMMA SizeIs ==
    /\ MaxSize \in Nat /\ PaddingSize \in Nat \ {0}
    /\ \A s \in Sizes : s \in Nat \ {0} /\ s <= MaxSize
    /\ Growable /\ ui32Size \in Sizes => 2 * ui32Size \in Sizes
<1>1. MaxSize \in Nat /\ PaddingSize \in Nat \ {0} /\ InitialSize \in Nat \ {0}
  BY ClientCCBAssumption DEF MaxSize
<1>2. \A s \in Sizes : s \in Nat \ {0} /\ s <= MaxSize
  BY <1>1 DEF Sizes
<1>3. ASSUME Growable, ui32Size \in Sizes PROVE 2 * ui32Size \in Sizes
  <2>1. ui32Size < MaxSize
    BY <1>1, <1>2, <1>3, ClientCCBAssumption DEF Growable, MaxSize
  <2>2. QED
    BY <1>3, <2>1, ClientCCBAssumption
<1>4. QED
  BY <1>1, <1>2, <1>3

\* Distances, free and unread bytes without remainders.
LEMMA RingIs ==
    ASSUME ui32Size \in Nat \ {0}, ui32ReadOffset \in 0..(ui32Size - 1),
           ui32HostWriteOffset \in 0..(ui32Size - 1)
    PROVE  /\ \A o \in 0..(ui32Size - 1) :
                 /\ Distance(o) \in 0..(ui32Size - 1)
                 /\ (o + ui32Size - ui32ReadOffset) % ui32Size = Distance(o)
           /\ Unread = Distance(ui32HostWriteOffset)
           /\ Space = FreeBytes
<1>1. \A a \in 0..(ui32Size - 1) : a % ui32Size = a /\ (a + ui32Size) % ui32Size = a
  OBVIOUS
<1>2. \A a \in 0..(ui32Size - 1) : (a + ui32Size + ui32Size) % ui32Size = a
  <2> SUFFICES ASSUME NEW a \in 0..(ui32Size - 1)
               PROVE  (a + ui32Size + ui32Size) % ui32Size = a
    OBVIOUS
  <2>1. (a + 2 * ui32Size) % ui32Size = a
    OBVIOUS
  <2>2. QED
    BY <2>1
<1>3. \A o \in 0..(ui32Size - 1) :
          /\ Distance(o) \in 0..(ui32Size - 1)
          /\ (o + ui32Size - ui32ReadOffset) % ui32Size = Distance(o)
  <2> SUFFICES ASSUME NEW o \in 0..(ui32Size - 1)
               PROVE  /\ Distance(o) \in 0..(ui32Size - 1)
                      /\ (o + ui32Size - ui32ReadOffset) % ui32Size = Distance(o)
    OBVIOUS
  <2>1. /\ Distance(o) \in 0..(ui32Size - 1)
        /\ \/ o + ui32Size - ui32ReadOffset = Distance(o)
           \/ o + ui32Size - ui32ReadOffset = Distance(o) + ui32Size
    BY DEF Distance
  <2>2. QED
    BY <1>1, <2>1
<1>4. Unread = Distance(ui32HostWriteOffset)
  BY <1>3 DEF Unread
<1>5. Space = FreeBytes
  <2>1. /\ FreeBytes \in 0..(ui32Size - 1)
        /\ LET a == ui32ReadOffset + ui32Size - ui32HostWriteOffset + ui32Size - 1
           IN  a = FreeBytes + ui32Size \/ a = FreeBytes + ui32Size + ui32Size
    BY <1>3 DEF FreeBytes, Distance
  <2>2. QED
    BY <1>1, <1>2, <2>1 DEF Space
<1>6. QED
  BY <1>3, <1>4, <1>5

\* Writing a command changes its own bytes only.
LEMMA WrittenIs ==
    ASSUME NEW mem \in [Offsets -> Headers \cup {Garbage, Body}], NEW o \in Offsets,
           NEW h \in Headers
    PROVE  /\ Written(mem, o, h) \in [Offsets -> Headers \cup {Garbage, Body}]
           /\ Written(mem, o, h)[o] = h
           /\ \A i \in 1..(h.size - 1) :
                 o + i \in Offsets => Written(mem, o, h)[o + i] \notin Headers
           /\ \A i \in Offsets :
                 i < o \/ i >= o + h.size => Written(mem, o, h)[i] = mem[i]
<1>1. h.size \in Nat \ {0} /\ o \in Nat /\ \A i \in Offsets : i \in Nat
  BY HeaderIs DEF Offsets
<1>2. \A i \in Offsets : Written(mem, o, h)[i] =
          IF i = o THEN h ELSE IF i \in (o + 1)..(o + h.size - 1) THEN Body ELSE mem[i]
  BY <1>1 DEF Written
<1>3. Written(mem, o, h) \in [Offsets -> Headers \cup {Garbage, Body}]
  <2>1. \A i \in Offsets : Written(mem, o, h)[i] \in Headers \cup {Garbage, Body}
    BY <1>2
  <2>2. Written(mem, o, h) = [i \in Offsets |-> Written(mem, o, h)[i]]
    BY DEF Written
  <2>3. QED
    BY <2>1, <2>2
<1>4. QED
  BY <1>1, <1>2, <1>3, HeaderIs

\* What the invariant says of the offsets.
LEMMA OffsetsAre ==
    ASSUME RingInv
    PROVE  /\ ui32Size \in Nat \ {0} /\ ui32Size <= MaxSize
           /\ MaxSize \in Nat /\ PaddingSize \in Nat \ {0}
           /\ ui32ReadOffset \in 0..(ui32Size - 1) /\ ui32ReadOffset \in Offsets
           /\ ui32HostWriteOffset \in 0..(ui32Size - 1) /\ ui32HostWriteOffset \in Offsets
           /\ Distance(ui32HostWriteOffset) \in 0..(ui32Size - 1)
           /\ FreeBytes \in 0..(ui32Size - 1)
           /\ Remain \in 1..ui32Size
           /\ fwSize \in Nat /\ fwSize <= ui32Size
<1>1. /\ ui32Size \in Sizes /\ fwSize \in Sizes
      /\ ui32HostWriteOffset \in 0..(ui32Size - 1)
      /\ ui32ReadOffset \in 0..(fwSize - 1)
      /\ fwSize <= ui32Size
  BY DEF RingInv, TypeOK, Told, Knows
<1>2. /\ ui32Size \in Nat \ {0} /\ ui32Size <= MaxSize /\ fwSize \in Nat
      /\ MaxSize \in Nat /\ PaddingSize \in Nat \ {0}
  BY <1>1, SizeIs
<1>3. ui32ReadOffset \in 0..(ui32Size - 1)
  BY <1>1, <1>2
<1>4. Distance(ui32HostWriteOffset) \in 0..(ui32Size - 1)
  BY <1>1, <1>2, <1>3, RingIs
<1>5. QED
  BY <1>1, <1>2, <1>3, <1>4 DEF Offsets, FreeBytes, Remain

\* The firmware's command, and where the one behind it is.
LEMMA HeaderAt ==
    ASSUME RingInv, NEW o \in Offsets, IsHeader(o)
    PROVE  /\ ccb[o].size \in Nat \ {0}
           /\ o + ccb[o].size <= ui32Size
           /\ Distance(o) \in Nat
           /\ Distance(o) + ccb[o].size <= Distance(ui32HostWriteOffset)
           /\ \A i \in 1..(ccb[o].size - 1) : ccb[o + i] \notin Headers
           /\ Boundary(Behind(o))
<1>1. ccb[o].size \in Nat \ {0}
  BY HeaderIs DEF IsHeader
<1>2. o \in 0..(ui32Size - 1)
  BY OffsetsAre DEF IsHeader, Released, Offsets
<1>3. Distance(o) \in Nat
  BY <1>2, OffsetsAre, RingIs
<1>4. QED
  BY <1>1, <1>3 DEF RingInv, Whole

\* A step that changes only what is not released keeps what is known of the
\* released part.
LEMMA ReleasedKept ==
    ASSUME RingInv, UNCHANGED <<ui32ReadOffset, hostVars>>,
           \A o \in Offsets : Released(o) => ccb'[o] = ccb[o]
    PROVE  /\ Whole'
           /\ \A o : Boundary(o)' <=> Boundary(o)
           /\ \A o : Distance(o)' = Distance(o)
           /\ FreeBytes' = FreeBytes
<1>1. UNCHANGED <<ui32ReadOffset, ui32HostWriteOffset, ui32Size>>
  BY DEF hostVars
<1>2. \A o : Distance(o)' = Distance(o) /\ (Released(o)' <=> Released(o))
  BY <1>1 DEF Distance, Released
<1>3. \A o : IsHeader(o)' <=> IsHeader(o)
  BY <1>2 DEF IsHeader
<1>4. \A o : Boundary(o)' <=> Boundary(o)
  BY <1>1, <1>3 DEF Boundary
<1>5. ASSUME NEW o \in Offsets, IsHeader(o)'
      PROVE  /\ o + ccb'[o].size <= ui32Size
             /\ Distance(o) + ccb'[o].size <= Distance(ui32HostWriteOffset)
             /\ \A i \in 1..(ccb'[o].size - 1) : ccb'[o + i] \notin Headers
             /\ Boundary(Behind(o))'
  <2>1. IsHeader(o) /\ ccb'[o] = ccb[o]
    BY <1>3, <1>5 DEF IsHeader
  <2>2. /\ ccb[o].size \in Nat \ {0} /\ o + ccb[o].size <= ui32Size
        /\ Distance(o) \in Nat
        /\ Distance(o) + ccb[o].size <= Distance(ui32HostWriteOffset)
        /\ \A i \in 1..(ccb[o].size - 1) : ccb[o + i] \notin Headers
        /\ Boundary(Behind(o))
    BY <2>1, HeaderAt
  <2>3. \A i \in 1..(ccb[o].size - 1) : ccb'[o + i] = ccb[o + i]
    <3> SUFFICES ASSUME NEW i \in 1..(ccb[o].size - 1) PROVE ccb'[o + i] = ccb[o + i]
      OBVIOUS
    <3>1. o + i \in Offsets /\ Released(o + i)
      BY <2>2, OffsetsAre DEF Offsets, Released, Distance
    <3>2. QED
      BY <3>1
  <2>4. Behind(o)' = Behind(o)
    BY <1>1, <2>1 DEF Behind
  <2>5. Boundary(Behind(o))'
    BY <1>1, <1>2, <2>1, <2>2, <2>4, <1>4 DEF Boundary, IsHeader, Released, Distance, Behind
  <2>6. QED
    BY <2>1, <2>2, <2>3, <2>5
<1>6. Boundary(ui32ReadOffset)'
  <2>1. Boundary(ui32ReadOffset)
    BY DEF RingInv, Whole
  <2>2. QED
    BY <1>1, <1>3, <2>1 DEF Boundary
<1>7. Whole'
  BY <1>1, <1>2, <1>5, <1>6 DEF Whole
<1>8. QED
  BY <1>1, <1>2, <1>4, <1>7 DEF FreeBytes

\* With the same boundaries and distances, what the firmware is told stays right.
LEMMA ToldKept ==
    ASSUME RingInv, UNCHANGED <<ui32ReadOffset, hostVars, fwWriteOffset, fwSize, kicks>>,
           \A o : Boundary(o)' <=> Boundary(o), \A o : Distance(o)' = Distance(o)
    PROVE  Told' /\ Ordered'
<1>1. UNCHANGED <<ui32ReadOffset, ui32HostWriteOffset, ui32Size, fwWriteOffset, fwSize, kicks>>
  BY DEF hostVars
<1>2. \A w, s : Knows(w, s)' <=> Knows(w, s)
  BY <1>1 DEF Knows
<1>3. \A w, s, k : Before(w, s, k)' <=> Before(w, s, k)
  BY <1>1 DEF Before
<1>4. Told /\ Ordered
  BY DEF RingInv
<1>5. Told'
  BY <1>1, <1>2, <1>4 DEF Told
<1>6. Ordered'
  BY <1>1, <1>3, <1>4 DEF Ordered
<1>7. QED
  BY <1>5, <1>6

-----------------------------------------------------------------------------
(* The caller until it has got its space.                                  *)

\* Steps of the caller that leave the ring alone.
LEMMA AloneKept ==
    ASSUME RingInv, UNCHANGED <<ccb, hostVars, fwVars, kicks>>
    PROVE  /\ Whole' /\ Told' /\ Ordered'
           /\ FreeBytes' = FreeBytes
           /\ UNCHANGED <<ccb, ui32HostWriteOffset, ui32Size, ui32ReadOffset,
                          fwWriteOffset, fwSize, kicks>>
<1>1. UNCHANGED <<ccb, ui32HostWriteOffset, ui32Size, ui32ReadOffset,
                  fwWriteOffset, fwSize, kicks>>
  BY DEF hostVars, fwVars
<1>2. /\ Whole'
      /\ \A o : Boundary(o)' <=> Boundary(o)
      /\ \A o : Distance(o)' = Distance(o)
      /\ FreeBytes' = FreeBytes
  BY <1>1, ReleasedKept
<1>3. Told' /\ Ordered'
  BY <1>1, <1>2, ToldKept
<1>4. QED
  BY <1>1, <1>2, <1>3

\* The space found is never more than there is.
LEMMA SampleIs ==
    ASSUME RingInv PROVE Space = FreeBytes /\ Space \in Offsets
<1>1. Space = FreeBytes
  BY OffsetsAre, RingIs
<1>2. QED
  BY <1>1, OffsetsAre DEF Offsets

LEMMA SubmitStep ==
    ASSUME RingInv, NEW c \in Commands, Submit(c)
    PROVE  RingInv'
<1>1. /\ Whole' /\ Told' /\ Ordered'
      /\ UNCHANGED <<ccb, ui32HostWriteOffset, ui32Size, ui32ReadOffset,
                     fwWriteOffset, fwSize, kicks, free>>
      /\ pc' = "try" /\ cmd' = c /\ ui32RetryCount' = 2 /\ ~TooBig(c.size)
  BY AloneKept DEF Submit
<1>2. TypeOK'
  BY <1>1 DEF RingInv, TypeOK
<1>3. Caller'
  BY <1>1 DEF RingInv, Caller, TooBig
<1>4. QED
  BY <1>1, <1>2, <1>3 DEF RingInv

LEMMA SampleStep ==
    ASSUME RingInv, Sample PROVE RingInv'
<1>1. /\ Whole' /\ Told' /\ Ordered' /\ FreeBytes' = FreeBytes
      /\ UNCHANGED <<ccb, ui32HostWriteOffset, ui32Size, ui32ReadOffset,
                     fwWriteOffset, fwSize, kicks, cmd>>
      /\ pc = "try" /\ pc' = "decide"
      /\ free' = Space /\ ui32RetryCount' = ui32RetryCount - 1
  BY AloneKept DEF Sample
<1>2. ui32RetryCount' \in 0..2 /\ Space = FreeBytes /\ Space \in Offsets
  BY <1>1, SampleIs DEF RingInv, TypeOK, Caller
<1>3. TypeOK'
  BY <1>1, <1>2 DEF RingInv, TypeOK
<1>4. FreeBytes \in Nat
  BY OffsetsAre
<1>5. Caller'
  BY <1>1, <1>2, <1>4 DEF RingInv, Caller, TooBig
<1>6. QED
  BY <1>1, <1>3, <1>5 DEF RingInv

\* A command that is tried is smaller than the ring.
LEMMA CommandIs ==
    ASSUME RingInv, pc # "idle"
    PROVE  /\ cmd \in Commands /\ cmd \in Headers
           /\ cmd.size \in Nat /\ cmd.size > PaddingSize
           /\ cmd.size + PaddingSize + 1 <= ui32Size
<1>1. cmd \in Commands /\ ~TooBig(cmd.size)
  BY DEF RingInv, Caller
<1>2. cmd \in Headers /\ cmd.size \in Nat /\ cmd.size > PaddingSize
  BY <1>1, HeaderIs
<1>3. QED
  BY <1>1, <1>2, OffsetsAre DEF TooBig

LEMMA AcquireHereStep ==
    ASSUME RingInv, AcquireHere PROVE RingInv'
<1>1. /\ Whole' /\ Told' /\ Ordered' /\ FreeBytes' = FreeBytes
      /\ UNCHANGED <<ccb, ui32HostWriteOffset, ui32Size, ui32ReadOffset,
                     fwWriteOffset, fwSize, kicks, cmd, ui32RetryCount>>
      /\ pc = "decide" /\ FitsBeforeEnd(cmd.size) /\ free' = 0
      /\ pc' \in {"fill", "again"} /\ (pc' = "fill" => free > cmd.size)
  BY AloneKept DEF AcquireHere, Retry
<1>2. 0 \in Offsets
  BY OffsetsAre DEF Offsets
<1>3. TypeOK'
  BY <1>1, <1>2 DEF RingInv, TypeOK
<1>4. pc' = "fill" => HasRoom'
  <2>1. free \in Nat /\ free <= FreeBytes /\ FreeBytes \in Nat
    BY <1>1, OffsetsAre DEF RingInv, TypeOK, Caller, Offsets
  <2>2. FitsBeforeEnd(cmd.size)'
    BY <1>1 DEF FitsBeforeEnd
  <2>3. QED
    BY <1>1, <2>1, <2>2, CommandIs DEF HasRoom
<1>5. Caller'
  BY <1>1, <1>4 DEF RingInv, Caller, TooBig
<1>6. QED
  BY <1>1, <1>3, <1>5 DEF RingInv

LEMMA AcquireElseStep ==
    ASSUME RingInv, AcquireElse PROVE RingInv'
<1>1. /\ Whole' /\ Told' /\ Ordered' /\ FreeBytes' = FreeBytes
      /\ UNCHANGED <<ccb, ui32HostWriteOffset, ui32Size, ui32ReadOffset,
                     fwWriteOffset, fwSize, kicks, cmd, ui32RetryCount>>
      /\ pc = "decide" /\ free' = 0
      /\ pc' \in {"grow", "again"} /\ (pc' = "grow" => MayGrow)
  BY AloneKept DEF AcquireElse, Retry
<1>2. 0 \in Offsets
  BY OffsetsAre DEF Offsets
<1>3. TypeOK'
  BY <1>1, <1>2 DEF RingInv, TypeOK
<1>4. Caller'
  BY <1>1 DEF RingInv, Caller, TooBig, MayGrow, Growable
<1>5. QED
  BY <1>1, <1>3, <1>4 DEF RingInv

LEMMA AgainStep ==
    ASSUME RingInv, GrowFails \/ TryAgain PROVE RingInv'
<1>1. /\ Whole' /\ Told' /\ Ordered' /\ FreeBytes' = FreeBytes
      /\ UNCHANGED <<ccb, ui32HostWriteOffset, ui32Size, ui32ReadOffset,
                     fwWriteOffset, fwSize, kicks, cmd, free>>
      /\ pc # "idle" /\ pc' \in {"again", "try"}
      /\ ui32RetryCount' = ui32RetryCount \/ ui32RetryCount' = 2
      /\ pc' = "try" => ui32RetryCount' = 2
  BY AloneKept DEF GrowFails, TryAgain, Retry
<1>2. TypeOK'
  BY <1>1 DEF RingInv, TypeOK
<1>3. Caller'
  BY <1>1 DEF RingInv, Caller, TooBig
<1>4. QED
  BY <1>1, <1>2, <1>3 DEF RingInv

\* Room for a command that wraps is behind the write offset and before the read
\* offset, and the rest of the ring can hold a padding header.
LEMMA WrapIs ==
    ASSUME RingInv, pc # "idle", ~FitsBeforeEnd(cmd.size), Remain + cmd.size < FreeBytes
    PROVE  /\ ui32ReadOffset <= ui32HostWriteOffset
           /\ cmd.size < ui32ReadOffset
           /\ Padding(Remain) \in Headers /\ Padding(Remain).size = Remain
           /\ \A o \in Offsets : Released(o) =>
                 cmd.size < o /\ o < ui32HostWriteOffset
<1>1. /\ cmd.size \in Nat /\ cmd.size > PaddingSize
      /\ cmd.size + PaddingSize + 1 <= ui32Size
  BY CommandIs
<1>2. /\ ui32ReadOffset <= ui32HostWriteOffset
      /\ cmd.size < ui32ReadOffset
  BY <1>1, OffsetsAre DEF FreeBytes, Distance, Remain
<1>3. Remain \in PaddingSize..MaxSize
  <2>1. ui32HostWriteOffset # 0
    BY <1>1, OffsetsAre DEF FitsBeforeEnd
  <2>2. ui32HostWriteOffset + PaddingSize <= ui32Size
    BY <2>1 DEF RingInv, Caller
  <2>3. QED
    BY <2>2, OffsetsAre DEF Remain
<1>4. \A o \in Offsets : Released(o) => cmd.size < o /\ o < ui32HostWriteOffset
  BY <1>1, <1>2, OffsetsAre DEF Released, Distance, Offsets
<1>5. QED
  BY <1>2, <1>3, <1>4, HeaderIs

LEMMA AcquireWrappedStep ==
    ASSUME RingInv, AcquireWrapped PROVE RingInv'
<1>1. /\ ccb' = Written(ccb, ui32HostWriteOffset, Padding(Remain))
      /\ UNCHANGED <<ui32HostWriteOffset, ui32Size, ui32ReadOffset,
                     fwWriteOffset, fwSize, kicks, cmd, ui32RetryCount>>
      /\ pc = "decide" /\ pc' = "fill" /\ free' = 0
      /\ ~FitsBeforeEnd(cmd.size) /\ free > Remain + cmd.size
  BY DEF AcquireWrapped, MayWrap, hostVars, fwVars
<1>2. Remain + cmd.size < FreeBytes
  <2>1. free \in Nat /\ free <= FreeBytes
    BY <1>1, OffsetsAre DEF RingInv, TypeOK, Caller, Offsets
  <2>2. QED
    BY <1>1, <2>1, CommandIs, OffsetsAre
<1>3. /\ Padding(Remain) \in Headers /\ Padding(Remain).size = Remain
      /\ \A o \in Offsets : Released(o) => o < ui32HostWriteOffset
  BY <1>1, <1>2, WrapIs
<1>4. ccb \in [Offsets -> Headers \cup {Garbage, Body}]
  BY DEF RingInv, TypeOK
<1>5. /\ ccb' \in [Offsets -> Headers \cup {Garbage, Body}]
      /\ ccb'[ui32HostWriteOffset] = Padding(Remain)
      /\ \A i \in 1..(Remain - 1) : ui32HostWriteOffset + i \in Offsets =>
             ccb'[ui32HostWriteOffset + i] \notin Headers
      /\ \A i \in Offsets : i < ui32HostWriteOffset => ccb'[i] = ccb[i]
  BY <1>1, <1>3, <1>4, OffsetsAre, WrittenIs
<1>6. \A i \in 1..(Remain - 1) : ui32HostWriteOffset + i \in Offsets
  BY OffsetsAre DEF Offsets, Remain
<1>7. /\ Whole' /\ FreeBytes' = FreeBytes
      /\ \A o : Boundary(o)' <=> Boundary(o)
      /\ \A o : Distance(o)' = Distance(o)
  BY <1>1, <1>3, <1>5, ReleasedKept DEF hostVars
<1>8. Told' /\ Ordered'
  BY <1>1, <1>7, ToldKept DEF hostVars
<1>9. 0 \in Offsets
  BY OffsetsAre DEF Offsets
<1>10. TypeOK'
  BY <1>1, <1>5, <1>9 DEF RingInv, TypeOK
<1>11. HasRoom'
  <2>1. ~FitsBeforeEnd(cmd.size)' /\ Remain' = Remain
    BY <1>1 DEF FitsBeforeEnd, Remain
  <2>2. QED
    BY <1>1, <1>2, <1>5, <1>6, <1>7, <2>1 DEF HasRoom, NoHeaders
<1>12. Caller'
  BY <1>1, <1>11 DEF RingInv, Caller, TooBig
<1>13. QED
  BY <1>7, <1>8, <1>10, <1>12 DEF RingInv

-----------------------------------------------------------------------------
(* Writing and releasing the command.                                      *)

\* Where the command goes nothing is released, and neither is the padding that
\* goes before it there.
LEMMA RoomIs ==
    ASSUME RingInv, pc \in {"fill", "release"}
    PROVE  /\ Start \in Offsets /\ Start + cmd.size < ui32Size
           /\ \A o \in Offsets : Released(o) => o < Start \/ o >= Start + cmd.size
           /\ ~FitsBeforeEnd(cmd.size) =>
                 /\ Start = 0 /\ cmd.size < ui32ReadOffset
                 /\ ui32ReadOffset <= ui32HostWriteOffset
                 /\ Padding(Remain) \in Headers /\ Padding(Remain).size = Remain
           /\ FitsBeforeEnd(cmd.size) => Start = ui32HostWriteOffset
<1>1. HasRoom /\ pc # "idle"
  BY DEF RingInv, Caller
<1>2. /\ cmd.size \in Nat /\ cmd.size > PaddingSize
      /\ cmd.size + PaddingSize + 1 <= ui32Size
  BY <1>1, CommandIs
<1>3. CASE FitsBeforeEnd(cmd.size)
  <2>1. /\ Start = ui32HostWriteOffset /\ cmd.size < FreeBytes
        /\ ui32HostWriteOffset + cmd.size + PaddingSize <= ui32Size
    BY <1>1, <1>3 DEF HasRoom, Start, FitsBeforeEnd
  <2>2. \A o \in Offsets : Released(o) => o < Start \/ o >= Start + cmd.size
    BY <1>2, <2>1, OffsetsAre DEF Released, Distance, FreeBytes, Offsets
  <2>3. QED
    BY <1>2, <1>3, <2>1, <2>2, OffsetsAre
<1>4. CASE ~FitsBeforeEnd(cmd.size)
  <2>1. Start = 0 /\ Remain + cmd.size < FreeBytes
    BY <1>1, <1>4 DEF HasRoom, Start
  <2>2. /\ ui32ReadOffset <= ui32HostWriteOffset /\ cmd.size < ui32ReadOffset
        /\ Padding(Remain) \in Headers /\ Padding(Remain).size = Remain
        /\ \A o \in Offsets : Released(o) => cmd.size < o
    BY <1>1, <1>4, <2>1, WrapIs
  <2>3. 0 \in Offsets /\ \A o \in Offsets : o \in Nat
    BY OffsetsAre DEF Offsets
  <2>4. QED
    BY <1>2, <1>4, <2>1, <2>2, <2>3, OffsetsAre
<1>5. QED
  BY <1>3, <1>4

LEMMA FillStep ==
    ASSUME RingInv, Fill PROVE RingInv'
<1>1. /\ ccb' = Written(ccb, Start, cmd)
      /\ UNCHANGED <<ui32HostWriteOffset, ui32Size, ui32ReadOffset,
                     fwWriteOffset, fwSize, kicks, cmd, free, ui32RetryCount>>
      /\ pc = "fill" /\ pc' = "release"
  BY DEF Fill, hostVars, fwVars
<1>2. /\ Start \in Offsets /\ Start + cmd.size < ui32Size
      /\ \A o \in Offsets : Released(o) => o < Start \/ o >= Start + cmd.size
      /\ ~FitsBeforeEnd(cmd.size) =>
            /\ Start = 0 /\ cmd.size < ui32ReadOffset
            /\ ui32ReadOffset <= ui32HostWriteOffset
  BY <1>1, RoomIs
<1>3. cmd \in Headers /\ cmd.size \in Nat /\ cmd.size > 0
  BY <1>1, CommandIs, OffsetsAre
<1>4. ccb \in [Offsets -> Headers \cup {Garbage, Body}]
  BY DEF RingInv, TypeOK
<1>5. /\ ccb' \in [Offsets -> Headers \cup {Garbage, Body}]
      /\ ccb'[Start] = cmd
      /\ \A i \in 1..(cmd.size - 1) : Start + i \in Offsets => ccb'[Start + i] \notin Headers
      /\ \A i \in Offsets : i < Start \/ i >= Start + cmd.size => ccb'[i] = ccb[i]
  BY <1>1, <1>2, <1>3, <1>4, WrittenIs
<1>6. \A i \in 1..(cmd.size - 1) : Start + i \in Offsets
  BY <1>2, <1>3, OffsetsAre DEF Offsets
<1>7. /\ Whole' /\ FreeBytes' = FreeBytes
      /\ \A o : Boundary(o)' <=> Boundary(o)
      /\ \A o : Distance(o)' = Distance(o)
  BY <1>1, <1>2, <1>5, ReleasedKept DEF hostVars
<1>8. Told' /\ Ordered'
  BY <1>1, <1>7, ToldKept DEF hostVars
<1>9. TypeOK'
  BY <1>1, <1>5 DEF RingInv, TypeOK
<1>10. /\ FitsBeforeEnd(cmd.size)' <=> FitsBeforeEnd(cmd.size)
       /\ Remain' = Remain /\ Start' = Start
  BY <1>1 DEF FitsBeforeEnd, Remain, Start
<1>11. HasRoom'
  <2>1. HasRoom
    BY <1>1 DEF RingInv, Caller
  <2>2. CASE FitsBeforeEnd(cmd.size)
    BY <1>1, <1>7, <1>10, <2>1, <2>2 DEF HasRoom
  <2>3. CASE ~FitsBeforeEnd(cmd.size)
    <3>1. \A i \in 0..(Remain - 1) :
              /\ ui32HostWriteOffset + i \in Offsets
              /\ ui32HostWriteOffset + i >= Start + cmd.size
      BY <1>2, <1>3, <2>3, OffsetsAre DEF Offsets, Remain
    <3>2. \A i \in 0..(Remain - 1) :
              ccb'[ui32HostWriteOffset + i] = ccb[ui32HostWriteOffset + i]
      BY <1>5, <3>1
    <3>3. ccb'[ui32HostWriteOffset] = ccb[ui32HostWriteOffset]
      <4>1. 0 \in 0..(Remain - 1) /\ ui32HostWriteOffset + 0 = ui32HostWriteOffset
        BY OffsetsAre
      <4>2. QED
        BY <3>2, <4>1
    <3>4. \A i \in 1..(Remain - 1) : i \in 0..(Remain - 1)
      BY OffsetsAre
    <3>5. QED
      BY <1>1, <1>7, <1>10, <2>1, <2>3, <3>2, <3>3, <3>4 DEF HasRoom, NoHeaders
  <2>4. QED
    BY <2>2, <2>3
<1>12. ccb'[Start'] = cmd' /\ NoHeaders(Start, cmd.size)'
  BY <1>1, <1>5, <1>6, <1>10 DEF NoHeaders
<1>13. Caller'
  BY <1>1, <1>11, <1>12 DEF RingInv, Caller, TooBig
<1>14. QED
  BY <1>7, <1>8, <1>9, <1>13 DEF RingInv

\* What is thrown away was not released.
LEMMA AbandonStep ==
    ASSUME RingInv, Abandon PROVE RingInv'
<1>1. /\ ccb' = Discarded
      /\ UNCHANGED <<ui32HostWriteOffset, ui32Size, ui32ReadOffset,
                     fwWriteOffset, fwSize, kicks, free>>
      /\ pc' = "idle" /\ cmd' = Idle /\ ui32RetryCount' = 0
  BY DEF Abandon, Done, hostVars, fwVars
<1>2. \A o \in Offsets : Released(o) => ccb'[o] = ccb[o]
  <2> SUFFICES ASSUME NEW o \in Offsets, Released(o) PROVE ccb'[o] = ccb[o]
    OBVIOUS
  <2>1. o \in 0..(ui32Size - 1)
    BY OffsetsAre DEF Offsets, Released
  <2>2. /\ (o + ui32Size - ui32ReadOffset) % ui32Size = Distance(o)
        /\ Unread = Distance(ui32HostWriteOffset)
    BY <2>1, OffsetsAre, RingIs
  <2>3. QED
    BY <1>1, <2>2 DEF Discarded, Released
<1>3. ccb' \in [Offsets -> Headers \cup {Garbage, Body}]
  BY <1>1 DEF Discarded, RingInv, TypeOK
<1>4. /\ Whole' /\ FreeBytes' = FreeBytes
      /\ \A o : Boundary(o)' <=> Boundary(o)
      /\ \A o : Distance(o)' = Distance(o)
  BY <1>1, <1>2, ReleasedKept DEF hostVars
<1>5. Told' /\ Ordered'
  BY <1>1, <1>4, ToldKept DEF hostVars
<1>6. TypeOK'
  BY <1>1, <1>3 DEF RingInv, TypeOK
<1>7. Caller'
  BY <1>1 DEF RingInv, Caller
<1>8. QED
  BY <1>4, <1>5, <1>6, <1>7 DEF RingInv

\* The write offset passes the command, which is at a, and the padding at w
\* before it.
LEMMA ReleaseIs ==
    ASSUME RingInv, Release, NEW a, a = Start, NEW w, w = ui32HostWriteOffset
    PROVE  /\ pc = "release" /\ pc' = "kick"
           /\ UNCHANGED <<ccb, ui32Size, ui32ReadOffset, fwWriteOffset, fwSize, kicks,
                          cmd, free, ui32RetryCount>>
           /\ ui32HostWriteOffset' = a + cmd.size
           /\ a \in Offsets /\ w \in Offsets /\ a + cmd.size < ui32Size
           /\ \A o : Distance(o)' = Distance(o)
           /\ Distance(a) + cmd.size = Distance(a + cmd.size)
           /\ Distance(w) \in Nat /\ Distance(a) \in Nat
           /\ Distance(w) <= Distance(a)
           /\ Distance(a + cmd.size) \in 0..(ui32Size - 1)
           /\ cmd \in Headers /\ cmd.size \in Nat /\ cmd.size > PaddingSize
           /\ ccb[a] = cmd /\ NoHeaders(a, cmd.size)
<1>1. /\ pc = "release" /\ pc' = "kick"
      /\ UNCHANGED <<ccb, ui32Size, ui32ReadOffset, fwWriteOffset, fwSize, kicks,
                     cmd, free, ui32RetryCount>>
      /\ ui32HostWriteOffset' = (a + cmd.size) % ui32Size
  BY DEF Release, fwVars
<1>2. /\ a \in Offsets /\ a + cmd.size < ui32Size
      /\ ~FitsBeforeEnd(cmd.size) =>
            /\ a = 0 /\ cmd.size < ui32ReadOffset
            /\ ui32ReadOffset <= w
      /\ FitsBeforeEnd(cmd.size) => a = w
  BY <1>1, RoomIs
<1>3. /\ cmd \in Headers /\ cmd.size \in Nat /\ cmd.size > PaddingSize /\ HasRoom
      /\ ccb[a] = cmd /\ NoHeaders(a, cmd.size)
      /\ w \in Offsets
  BY <1>1, CommandIs, OffsetsAre DEF RingInv, Caller
<1>4. a + cmd.size \in 0..(ui32Size - 1)
  BY <1>2, <1>3, OffsetsAre DEF Offsets
<1>5. (a + cmd.size) % ui32Size = a + cmd.size
  BY <1>4, OffsetsAre
<1>6. \A o : Distance(o)' = Distance(o)
  BY <1>1 DEF Distance
<1>7. Distance(a) + cmd.size = Distance(a + cmd.size) /\ Distance(w) <= Distance(a)
  <2>1. CASE FitsBeforeEnd(cmd.size)
    <3>1. cmd.size < FreeBytes /\ a = w
      BY <1>2, <1>3, <2>1 DEF HasRoom
    <3>2. QED
      BY <1>2, <1>3, <3>1, OffsetsAre DEF FreeBytes, Distance
  <2>2. CASE ~FitsBeforeEnd(cmd.size)
    BY <1>2, <1>3, <2>2, OffsetsAre DEF Distance
  <2>3. QED
    BY <2>1, <2>2
<1>8. Distance(a) \in Nat /\ Distance(w) \in Nat
  BY <1>2, <1>3, OffsetsAre DEF Distance, Offsets
<1>9. Distance(a + cmd.size) \in 0..(ui32Size - 1)
  BY <1>4, OffsetsAre, RingIs
<1>10. QED
  BY <1>1, <1>2, <1>3, <1>5, <1>6, <1>7, <1>8, <1>9

\* The padding, which is there when the command does not fit before the end.
LEMMA PaddingIs ==
    ASSUME RingInv, Release, ~FitsBeforeEnd(cmd.size),
           NEW a, a = Start, NEW w, w = ui32HostWriteOffset
    PROVE  /\ a = 0
           /\ ccb[w] \in Headers /\ ccb[w].size \in Nat /\ w + ccb[w].size = ui32Size
           /\ Distance(w) + ccb[w].size = Distance(a)
           /\ NoHeaders(w, ccb[w].size)
<1>1. pc = "release"
  BY DEF Release
<1>2. /\ a = 0 /\ cmd.size < ui32ReadOffset /\ ui32ReadOffset <= w
      /\ Padding(Remain) \in Headers /\ Padding(Remain).size = Remain
  BY <1>1, RoomIs
<1>3. ccb[w] = Padding(Remain) /\ NoHeaders(w, Remain)
  BY <1>1 DEF RingInv, Caller, HasRoom
<1>4. cmd.size \in Nat
  BY <1>1, CommandIs
<1>5. w + Remain = ui32Size /\ Distance(w) + Remain = Distance(0)
  BY <1>2, <1>4, OffsetsAre DEF Remain, Distance
<1>6. Remain \in Nat
  BY OffsetsAre
<1>7. QED
  BY <1>2, <1>3, <1>5, <1>6

\* What it passes is that command and that padding.
LEMMA ReleasedHeaders ==
    ASSUME RingInv, Release, NEW a, a = Start, NEW w, w = ui32HostWriteOffset
    PROVE  /\ \A o \in Offsets : IsHeader(o)' =>
                 IsHeader(o) \/ o = a \/ (~FitsBeforeEnd(cmd.size) /\ o = w)
           /\ \A o : Boundary(o) => Boundary(o)'
           /\ Boundary(a)'
<1>1. /\ UNCHANGED <<ccb, ui32Size, ui32ReadOffset>>
      /\ ui32HostWriteOffset' = a + cmd.size
      /\ a \in Offsets /\ w \in Offsets /\ a + cmd.size < ui32Size
      /\ \A o : Distance(o)' = Distance(o)
      /\ Distance(a) + cmd.size = Distance(a + cmd.size)
      /\ Distance(w) \in Nat /\ Distance(a) \in Nat
      /\ Distance(w) <= Distance(a)
      /\ cmd \in Headers /\ cmd.size \in Nat /\ cmd.size > PaddingSize
      /\ ccb[a] = cmd /\ NoHeaders(a, cmd.size)
  BY ReleaseIs
<1>2. PICK d : d = Distance(a) + cmd.size
  OBVIOUS
<1>3. /\ d \in Nat /\ Distance(w) < d /\ Distance(a) < d
      /\ \A o : IsHeader(o)' <=>
            o \in Offsets /\ o < ui32Size /\ Distance(o) < d /\ ccb[o] \in Headers
  BY <1>1, <1>2, OffsetsAre DEF IsHeader, Released
<1>4. \A o \in Offsets : o < ui32Size => Distance(o) \in Nat
  BY OffsetsAre DEF Distance, Offsets
<1>5. \A o : IsHeader(o) => IsHeader(o)'
  <2> SUFFICES ASSUME NEW o, IsHeader(o) PROVE IsHeader(o)'
    OBVIOUS
  <2>1. o \in Offsets /\ o < ui32Size /\ ccb[o] \in Headers /\ Distance(o) < Distance(w)
    BY DEF IsHeader, Released
  <2>2. Distance(o) < d
    BY <1>1, <1>3, <1>4, <2>1
  <2>3. QED
    BY <1>3, <2>1, <2>2
<1>6. IsHeader(a)'
  <2>1. a < ui32Size
    BY <1>1, OffsetsAre DEF Offsets
  <2>2. QED
    BY <1>1, <1>3, <2>1
<1>7. IsHeader(w)'
  <2>1. CASE FitsBeforeEnd(cmd.size)
    <3>1. w = a
      BY <2>1 DEF Start
    <3>2. QED
      BY <1>6, <3>1
  <2>2. CASE ~FitsBeforeEnd(cmd.size)
    <3>1. ccb[w] \in Headers
      BY <2>2, PaddingIs
    <3>2. w < ui32Size
      BY OffsetsAre
    <3>3. QED
      BY <1>1, <1>3, <3>1, <3>2
  <2>3. QED
    BY <2>1, <2>2
<1>8. \A o : Boundary(o) => Boundary(o)'
  BY <1>5, <1>7 DEF Boundary
<1>9. ASSUME NEW o \in Offsets, IsHeader(o)', ~IsHeader(o)
      PROVE  o = a \/ (~FitsBeforeEnd(cmd.size) /\ o = w)
  <2>1. /\ o < ui32Size /\ Distance(o) < d /\ ccb[o] \in Headers /\ o \in Nat
        /\ Distance(w) <= Distance(o)
    BY <1>1, <1>3, <1>4, <1>9 DEF IsHeader, Released, Offsets
  <2>2. \A i \in 1..(cmd.size - 1) : o # a + i
    BY <1>1, <2>1 DEF NoHeaders
  <2>3. CASE FitsBeforeEnd(cmd.size)
    <3>1. w = a
      BY <2>3 DEF Start
    <3>2. o >= a /\ o < a + cmd.size
      BY <1>1, <1>2, <2>1, <3>1, OffsetsAre DEF Distance, Offsets
    <3>3. o = a \/ \E i \in 1..(cmd.size - 1) : o = a + i
      <4>1. o = a + (o - a) /\ (o = a \/ o - a \in 1..(cmd.size - 1))
        BY <1>1, <2>1, <3>2 DEF Offsets
      <4>2. QED
        BY <4>1
    <3>4. QED
      BY <2>2, <3>3
  <2>4. CASE ~FitsBeforeEnd(cmd.size)
    <3>1. /\ a = 0 /\ ccb[w].size \in Nat /\ w + ccb[w].size = ui32Size
          /\ Distance(w) + ccb[w].size = Distance(a)
          /\ NoHeaders(w, ccb[w].size)
      BY <2>4, PaddingIs
    <3>2. \A i \in 1..(ccb[w].size - 1) : o # w + i
      BY <2>1, <3>1 DEF NoHeaders
    <3>3. \/ o = w \/ o - w \in 1..(ccb[w].size - 1)
          \/ o = a \/ o - a \in 1..(cmd.size - 1)
      BY <1>1, <1>2, <2>1, <3>1, OffsetsAre DEF Distance, Offsets
    <3>4. o = w + (o - w) /\ o = a + (o - a)
      BY <1>1, <2>1 DEF Offsets
    <3>5. QED
      BY <2>2, <2>4, <3>2, <3>3, <3>4
  <2>5. QED
    BY <2>3, <2>4
<1>10. QED
  BY <1>6, <1>8, <1>9 DEF Boundary

LEMMA ReleaseStep ==
    ASSUME RingInv, Release PROVE RingInv'
<1>0. PICK a, w : a = Start /\ w = ui32HostWriteOffset
  OBVIOUS
<1>1. /\ pc = "release" /\ pc' = "kick"
      /\ UNCHANGED <<ccb, ui32Size, ui32ReadOffset, fwWriteOffset, fwSize, kicks,
                     cmd, free, ui32RetryCount>>
      /\ ui32HostWriteOffset' = a + cmd.size
      /\ a \in Offsets /\ w \in Offsets /\ a + cmd.size < ui32Size
      /\ \A o : Distance(o)' = Distance(o)
      /\ Distance(a) + cmd.size = Distance(a + cmd.size)
      /\ Distance(w) \in Nat /\ Distance(a) \in Nat
      /\ Distance(w) <= Distance(a)
      /\ Distance(a + cmd.size) \in 0..(ui32Size - 1)
      /\ cmd \in Headers /\ cmd.size \in Nat /\ cmd.size > PaddingSize
      /\ ccb[a] = cmd /\ NoHeaders(a, cmd.size)
  BY <1>0, ReleaseIs
<1>2. /\ \A o \in Offsets : IsHeader(o)' =>
             IsHeader(o) \/ o = a \/ (~FitsBeforeEnd(cmd.size) /\ o = w)
      /\ \A o : Boundary(o) => Boundary(o)'
      /\ Boundary(a)'
  BY <1>0, ReleasedHeaders
<1>3. PICK d : d = Distance(a + cmd.size)
  OBVIOUS
<1>4. Distance(ui32HostWriteOffset)' = d
  BY <1>1, <1>3
<1>5. ASSUME NEW o \in Offsets, IsHeader(o)'
      PROVE  /\ o + ccb[o].size <= ui32Size
             /\ Distance(o) + ccb[o].size <= d
             /\ \A i \in 1..(ccb[o].size - 1) : ccb[o + i] \notin Headers
             /\ \E b : b = Behind(o) /\ Boundary(b)'
  <2>1. CASE IsHeader(o)
    <3>1. /\ ccb[o].size \in Nat /\ o + ccb[o].size <= ui32Size
          /\ Distance(o) \in Nat
          /\ Distance(o) + ccb[o].size <= Distance(w)
          /\ \A i \in 1..(ccb[o].size - 1) : ccb[o + i] \notin Headers
          /\ Boundary(Behind(o))
      BY <1>0, <2>1, HeaderAt
    <3>2. Distance(o) + ccb[o].size <= d
      BY <1>1, <1>3, <3>1
    <3>3. \E b : b = Behind(o) /\ Boundary(b)'
      BY <1>2, <3>1
    <3>4. QED
      BY <3>1, <3>2, <3>3
  <2>2. CASE o = a
    <3>1. a + cmd.size <= ui32Size /\ Distance(a) + cmd.size <= d
      BY <1>1, <1>3, OffsetsAre DEF Offsets
    <3>2. Behind(a) = a + cmd.size /\ Boundary(a + cmd.size)'
      <4>1. PICK e : e = a + cmd.size
        OBVIOUS
      <4>2. Behind(a) = e /\ Boundary(e)'
        BY <1>1, <4>1, OffsetsAre DEF Behind, Boundary, Offsets
      <4>3. QED
        BY <1>1, <4>1, <4>2 DEF Boundary
    <3>3. \E b : b = Behind(a) /\ Boundary(b)'
      <4>1. PICK e : e = a + cmd.size
        OBVIOUS
      <4>2. Behind(a) = e /\ Boundary(e)'
        BY <1>1, <4>1, OffsetsAre DEF Behind, Boundary, Offsets
      <4>3. QED
        BY <4>2
    <3>4. QED
      BY <1>1, <2>2, <3>1, <3>3 DEF NoHeaders
  <2>3. CASE ~FitsBeforeEnd(cmd.size) /\ o = w
    <3>1. /\ a = 0 /\ ccb[w].size \in Nat /\ w + ccb[w].size = ui32Size
          /\ Distance(w) + ccb[w].size = Distance(a)
          /\ NoHeaders(w, ccb[w].size)
      BY <1>0, <2>3, PaddingIs
    <3>2. Behind(w) = a
      BY <3>1 DEF Behind
    <3>3. w + ccb[w].size <= ui32Size /\ Distance(w) + ccb[w].size <= d
      BY <1>1, <1>3, <3>1, OffsetsAre
    <3>4. QED
      BY <1>2, <2>3, <3>1, <3>2, <3>3 DEF NoHeaders
  <2>4. QED
    BY <1>2, <1>5, <2>1, <2>2, <2>3
<1>6. Boundary(ui32ReadOffset)'
  <2>1. PICK r : r = ui32ReadOffset
    OBVIOUS
  <2>2. Boundary(r)'
    BY <1>2, <2>1 DEF RingInv, Whole
  <2>3. QED
    BY <1>1, <2>1, <2>2 DEF Boundary
<1>7. Whole'
  <2>1. \A o : Behind(o)' = Behind(o)
    BY <1>1 DEF Behind
  <2>2. ASSUME NEW o \in Offsets, IsHeader(o)' PROVE Boundary(Behind(o))'
    <3>1. PICK b : b = Behind(o) /\ Boundary(b)'
      BY <1>5, <2>2
    <3>2. b = Behind(o)'
      BY <2>1, <3>1
    <3>3. QED
      BY <3>1, <3>2 DEF Boundary
  <2>3. QED
    BY <1>1, <1>4, <1>5, <1>6, <2>2 DEF Whole
<1>8. \A x, s : Knows(x, s) => Knows(x, s)'
  BY <1>1, <1>2 DEF Knows
<1>9. \A x, s, k : Before(x, s, k)' <=> Before(x, s, k)
  BY <1>1 DEF Before
<1>10. Told' /\ Ordered'
  <2>1. Told /\ Ordered
    BY DEF RingInv
  <2>2. Told'
    BY <1>1, <1>8, <2>1 DEF Told
  <2>3. Ordered'
    BY <1>1, <1>9, <2>1 DEF Ordered
  <2>4. QED
    BY <2>2, <2>3
<1>11. ui32HostWriteOffset' \in 0..(ui32Size - 1)
  BY <1>1, OffsetsAre DEF Offsets
<1>12. TypeOK'
  BY <1>1, <1>11 DEF RingInv, TypeOK
<1>13. ui32HostWriteOffset' + PaddingSize <= ui32Size
  <2>1. CASE FitsBeforeEnd(cmd.size)
    BY <1>0, <1>1, <2>1 DEF FitsBeforeEnd, Start
  <2>2. CASE ~FitsBeforeEnd(cmd.size)
    <3>1. a = 0 /\ cmd.size + PaddingSize + 1 <= ui32Size
      BY <1>0, <1>1, <2>2, CommandIs DEF Start
    <3>2. QED
      BY <1>1, <3>1, OffsetsAre
  <2>3. QED
    BY <2>1, <2>2
<1>14. Caller'
  BY <1>1, <1>13 DEF RingInv, Caller, TooBig
<1>15. QED
  BY <1>7, <1>10, <1>12, <1>14 DEF RingInv

\* A kick tells the firmware of all that is released.
LEMMA KickStep ==
    ASSUME RingInv, Kick PROVE RingInv'
<1>1. /\ kicks' = Append(kicks, KickData)
      /\ UNCHANGED <<ccb, ui32HostWriteOffset, ui32Size, ui32ReadOffset,
                     fwWriteOffset, fwSize, free>>
      /\ pc' = "idle" /\ cmd' = Idle /\ ui32RetryCount' = 0
  BY DEF Kick, Done, hostVars, fwVars
<1>2. PICK k : k = KickData
  OBVIOUS
<1>3. /\ k \in [woff : Offsets, size : Sizes]
      /\ k.woff = ui32HostWriteOffset /\ k.size = ui32Size
  BY <1>2, OffsetsAre DEF KickData, RingInv, TypeOK
<1>4. kicks \in Seq([woff : Offsets, size : Sizes])
  BY DEF RingInv, TypeOK
<1>5. /\ kicks' \in Seq([woff : Offsets, size : Sizes])
      /\ Len(kicks) \in Nat /\ Len(kicks') = Len(kicks) + 1
      /\ kicks'[Len(kicks) + 1] = k
      /\ \A i \in 1..Len(kicks) : kicks'[i] = kicks[i]
  BY <1>1, <1>2, <1>3, <1>4, AppendProperties, LenProperties
<1>6. /\ Whole' /\ FreeBytes' = FreeBytes
      /\ \A o : Boundary(o)' <=> Boundary(o)
      /\ \A o : Distance(o)' = Distance(o)
  BY <1>1, ReleasedKept DEF hostVars
<1>7. \A x, s : Knows(x, s)' <=> Knows(x, s)
  BY <1>1, <1>6 DEF Knows
<1>8. \A x, s, l : Before(x, s, l)' <=> Before(x, s, l)
  BY <1>6 DEF Before
<1>9. Knows(k.woff, k.size)
  BY <1>3, OffsetsAre DEF Knows, Boundary
<1>10. \A x, s : Knows(x, s) => Before(x, s, k)
  <2> SUFFICES ASSUME NEW x, NEW s, Knows(x, s) PROVE Before(x, s, k)
    OBVIOUS
  <2>1. x = ui32HostWriteOffset \/ (x \in Offsets /\ x < ui32Size
            /\ Distance(x) < Distance(ui32HostWriteOffset))
    BY DEF Knows, Boundary, IsHeader, Released
  <2>2. x \in 0..(ui32Size - 1)
    BY <2>1, OffsetsAre DEF Offsets
  <2>3. Distance(x) \in Nat
    BY <2>2, OffsetsAre, RingIs
  <2>4. Distance(x) <= Distance(ui32HostWriteOffset)
    BY <2>1, <2>3, OffsetsAre
  <2>5. QED
    BY <1>3, <2>4 DEF Before, Knows
<1>11. \A i \in 1..Len(kicks') : i \in 1..Len(kicks) \/ i = Len(kicks) + 1
  BY <1>5
<1>12. Told
  BY DEF RingInv
<1>13. Told'
  BY <1>1, <1>5, <1>7, <1>9, <1>11, <1>12 DEF Told
<1>14. Ordered'
  <2>1. \A i \in 1..Len(kicks') : Before(fwWriteOffset, fwSize, kicks'[i])
    BY <1>5, <1>10, <1>11, <1>12 DEF Told, RingInv, Ordered
  <2>2. ASSUME NEW i \in 1..Len(kicks'), NEW j \in 1..Len(kicks'), i < j
        PROVE  Before(kicks'[i].woff, kicks'[i].size, kicks'[j])
    <3>1. i \in 1..Len(kicks)
      BY <1>5, <2>2
    <3>2. Before(kicks[i].woff, kicks[i].size, k)
      BY <1>10, <1>12, <3>1 DEF Told
    <3>3. j \in 1..Len(kicks) => Before(kicks[i].woff, kicks[i].size, kicks[j])
      BY <2>2, <3>1 DEF RingInv, Ordered
    <3>4. QED
      BY <1>5, <1>11, <3>1, <3>2, <3>3
  <2>3. QED
    BY <1>1, <1>8, <2>1, <2>2 DEF Ordered
<1>15. TypeOK'
  BY <1>1, <1>5 DEF RingInv, TypeOK
<1>16. Caller'
  BY <1>1 DEF RingInv, Caller
<1>17. QED
  BY <1>6, <1>13, <1>14, <1>15, <1>16 DEF RingInv

LEMMA DoneStep ==
    ASSUME RingInv, KickFails \/ GiveUp PROVE RingInv'
<1>1. /\ Whole' /\ Told' /\ Ordered'
      /\ UNCHANGED <<ccb, ui32HostWriteOffset, ui32Size, ui32ReadOffset,
                     fwWriteOffset, fwSize, kicks, free>>
      /\ pc' = "idle" /\ cmd' = Idle /\ ui32RetryCount' = 0
  BY AloneKept DEF KickFails, GiveUp, Done
<1>2. TypeOK'
  BY <1>1 DEF RingInv, TypeOK
<1>3. Caller'
  BY <1>1 DEF RingInv, Caller
<1>4. QED
  BY <1>1, <1>2, <1>3 DEF RingInv

-----------------------------------------------------------------------------
(* Growing.                                                                *)

\* Before the ring grows nothing that is released wraps, so that the larger ring
\* finds it at the same offsets.
LEMMA GrowIs ==
    ASSUME RingInv, Grow
    PROVE  /\ pc = "grow" /\ pc' \in {"try", "again"}
           /\ pc' = "try" => ui32RetryCount > 0
           /\ UNCHANGED <<ccb, ui32HostWriteOffset, ui32ReadOffset, fwWriteOffset,
                          fwSize, kicks, cmd, free, ui32RetryCount>>
           /\ ui32Size' = 2 * ui32Size /\ ui32Size' \in Sizes
           /\ ui32ReadOffset <= ui32HostWriteOffset
           /\ Distance(ui32HostWriteOffset)' = Distance(ui32HostWriteOffset)
           /\ \A o : Boundary(o) => /\ o \in Nat /\ ui32ReadOffset <= o
                                    /\ Distance(o)' = Distance(o)
           /\ \A o \in Offsets : IsHeader(o)' <=> IsHeader(o)
           /\ \A o : Boundary(o)' <=> Boundary(o)
<1>1. /\ pc = "grow" /\ pc' \in {"try", "again"}
      /\ pc' = "try" => ui32RetryCount > 0
      /\ UNCHANGED <<ccb, ui32HostWriteOffset, ui32ReadOffset, fwWriteOffset,
                     fwSize, kicks, cmd, free, ui32RetryCount>>
      /\ ui32Size' = 2 * ui32Size
  BY DEF Grow, Retry, fwVars
<1>2. Growable /\ ui32ReadOffset <= ui32HostWriteOffset
  <2>1. MayGrow
    BY <1>1 DEF RingInv, Caller
  <2>2. QED
    BY <2>1, OffsetsAre DEF MayGrow
<1>3. ui32Size' \in Sizes
  BY <1>1, <1>2, SizeIs DEF RingInv, TypeOK
<1>4. ui32HostWriteOffset < ui32Size
  BY OffsetsAre
<1>5. \A o \in Offsets : Released(o) <=>
          ui32ReadOffset <= o /\ o < ui32HostWriteOffset
  BY <1>2, OffsetsAre DEF Released, Distance, Offsets
<1>6. \A o \in Offsets : Released(o)' <=>
          ui32ReadOffset <= o /\ o < ui32HostWriteOffset
  BY <1>1, <1>2, OffsetsAre DEF Released, Distance, Offsets
<1>7. Distance(ui32HostWriteOffset)' = Distance(ui32HostWriteOffset)
  BY <1>1, <1>2 DEF Distance
<1>8. \A o \in Offsets : IsHeader(o)' <=> IsHeader(o)
  BY <1>1, <1>5, <1>6 DEF IsHeader
<1>9. \A o : Boundary(o) => o \in Nat /\ ui32ReadOffset <= o
  BY <1>2, <1>5, OffsetsAre DEF Boundary, IsHeader, Offsets
<1>10. \A o : Boundary(o) => Distance(o)' = Distance(o)
  BY <1>1, <1>9 DEF Distance
<1>11. \A o : Boundary(o)' <=> Boundary(o)
  BY <1>1, <1>8 DEF Boundary, IsHeader
<1>12. QED
  BY <1>1, <1>2, <1>3, <1>7, <1>8, <1>9, <1>10, <1>11

LEMMA GrowStep ==
    ASSUME RingInv, Grow PROVE RingInv'
<1>1. /\ pc = "grow" /\ pc' \in {"try", "again"}
      /\ pc' = "try" => ui32RetryCount > 0
      /\ UNCHANGED <<ccb, ui32HostWriteOffset, ui32ReadOffset, fwWriteOffset,
                     fwSize, kicks, cmd, free, ui32RetryCount>>
      /\ ui32Size' = 2 * ui32Size /\ ui32Size' \in Sizes
      /\ ui32ReadOffset <= ui32HostWriteOffset
      /\ Distance(ui32HostWriteOffset)' = Distance(ui32HostWriteOffset)
      /\ \A o : Boundary(o) => /\ o \in Nat /\ ui32ReadOffset <= o
                               /\ Distance(o)' = Distance(o)
      /\ \A o \in Offsets : IsHeader(o)' <=> IsHeader(o)
      /\ \A o : Boundary(o)' <=> Boundary(o)
  BY GrowIs
<1>2. TypeOK'
  <2>1. ui32HostWriteOffset' \in 0..(ui32Size' - 1)
    BY <1>1, OffsetsAre
  <2>2. QED
    BY <1>1, <2>1 DEF RingInv, TypeOK
<1>3. Whole'
  <2>1. Boundary(ui32ReadOffset)'
    <3>1. Boundary(ui32ReadOffset)
      BY DEF RingInv, Whole
    <3>2. QED
      BY <1>1, <3>1, OffsetsAre DEF Boundary, IsHeader
  <2>2. ASSUME NEW o \in Offsets, IsHeader(o)'
        PROVE  /\ o + ccb[o].size <= ui32Size'
               /\ Distance(o)' + ccb[o].size <= Distance(ui32HostWriteOffset)
               /\ \A i \in 1..(ccb[o].size - 1) : ccb[o + i] \notin Headers
               /\ Boundary(Behind(o))'
    <3>1. IsHeader(o) /\ Boundary(o)
      BY <1>1, <2>2 DEF Boundary
    <3>2. /\ ccb[o].size \in Nat \ {0} /\ o + ccb[o].size <= ui32Size
          /\ Distance(o) + ccb[o].size <= Distance(ui32HostWriteOffset)
          /\ \A i \in 1..(ccb[o].size - 1) : ccb[o + i] \notin Headers
          /\ Boundary(Behind(o))
      BY <3>1, HeaderAt
    <3>3. Distance(o)' = Distance(o) /\ ui32ReadOffset <= o /\ o \in Nat
      BY <1>1, <3>1
    <3>4. o + ccb[o].size < ui32Size
      BY <1>1, <3>2, <3>3, OffsetsAre DEF Distance
    <3>5. PICK b : b = o + ccb[o].size
      OBVIOUS
    <3>6. b = Behind(o) /\ b = Behind(o)'
      BY <1>1, <3>2, <3>3, <3>4, <3>5, OffsetsAre DEF Behind
    <3>7. Boundary(b)'
      BY <1>1, <3>2, <3>6
    <3>8. Boundary(Behind(o))'
      BY <3>6, <3>7 DEF Boundary
    <3>9. o + ccb[o].size <= ui32Size'
      BY <1>1, <3>2, <3>3, <3>4, OffsetsAre
    <3>10. QED
      BY <3>2, <3>3, <3>8, <3>9
  <2>3. QED
    BY <1>1, <2>1, <2>2 DEF Whole
<1>4. \A x, s : s \in Nat /\ Knows(x, s) => Knows(x, s)'
  <2> SUFFICES ASSUME NEW x, NEW s \in Nat, Knows(x, s) PROVE Knows(x, s)'
    OBVIOUS
  <2>1. Boundary(x) /\ x < s /\ s <= ui32Size
    BY DEF Knows
  <2>2. Boundary(x)' /\ ui32ReadOffset <= x
    BY <1>1, <2>1
  <2>3. s <= ui32Size'
    BY <1>1, <2>1, OffsetsAre
  <2>4. QED
    BY <1>1, <2>1, <2>2, <2>3 DEF Knows
<1>5. \A i \in 1..Len(kicks) : kicks[i].size \in Nat /\ fwSize \in Nat
  <2>1. kicks \in Seq([woff : Offsets, size : Sizes])
    BY DEF RingInv, TypeOK
  <2>2. \A i \in 1..Len(kicks) : kicks[i] \in [woff : Offsets, size : Sizes]
    BY <2>1, ElementOfSeq
  <2>3. QED
    BY <2>2, SizeIs, OffsetsAre
<1>6. Told'
  BY <1>1, <1>4, <1>5, OffsetsAre DEF RingInv, Told
<1>7. /\ Distance(fwWriteOffset)' = Distance(fwWriteOffset)
      /\ \A i \in 1..Len(kicks) : Distance(kicks[i].woff)' = Distance(kicks[i].woff)
  <2>1. Boundary(fwWriteOffset) /\ \A i \in 1..Len(kicks) : Boundary(kicks[i].woff)
    BY DEF RingInv, Told, Knows
  <2>2. /\ ui32ReadOffset <= fwWriteOffset
        /\ \A i \in 1..Len(kicks) : ui32ReadOffset <= kicks[i].woff
    BY <1>1, <2>1
  <2>3. QED
    BY <1>1, <2>2 DEF Distance
<1>8. Ordered'
  <2>1. Ordered
    BY DEF RingInv
  <2>2. QED
    BY <1>1, <1>7, <2>1 DEF Ordered, Before
<1>9. Caller'
  <2>1. /\ ui32HostWriteOffset = 0 \/ ui32HostWriteOffset + PaddingSize <= ui32Size'
    BY <1>1, OffsetsAre DEF RingInv, Caller
  <2>2. cmd \in Commands /\ ~TooBig(cmd.size)'
    BY <1>1, CommandIs, OffsetsAre DEF TooBig
  <2>3. QED
    BY <1>1, <2>1, <2>2 DEF Caller, TooBig
<1>10. QED
  BY <1>2, <1>3, <1>6, <1>8, <1>9 DEF RingInv

-----------------------------------------------------------------------------
(* The firmware.                                                           *)

\* A kick brings it further in what is released.
LEMMA FwKickStep ==
    ASSUME RingInv, FwKick PROVE RingInv'
<1>1. /\ kicks # <<>> /\ kicks' = Tail(kicks)
      /\ fwWriteOffset' = Head(kicks).woff /\ fwSize' = Head(kicks).size
      /\ UNCHANGED <<ccb, ui32HostWriteOffset, ui32Size, ui32ReadOffset,
                     pc, cmd, free, ui32RetryCount>>
  BY DEF FwKick, hostVars, callerVars
<1>2. kicks \in Seq([woff : Offsets, size : Sizes])
  BY DEF RingInv, TypeOK
<1>3. /\ Len(kicks) \in Nat \ {0} /\ Len(kicks') = Len(kicks) - 1
      /\ Head(kicks) = kicks[1]
      /\ kicks' \in Seq([woff : Offsets, size : Sizes])
      /\ \A i \in 1..Len(kicks') : kicks'[i] = kicks[i + 1]
  <2>1. /\ Tail(kicks) \in Seq([woff : Offsets, size : Sizes])
        /\ Len(Tail(kicks)) = Len(kicks) - 1
        /\ \A i \in 1..Len(Tail(kicks)) : Tail(kicks)[i] = kicks[i + 1]
    BY <1>1, <1>2, HeadTailProperties
  <2>2. Len(kicks) \in Nat \ {0}
    BY <1>1, <1>2, LenProperties, EmptySeq
  <2>3. Head(kicks) = kicks[1]
    OBVIOUS
  <2>4. QED
    BY <1>1, <2>1, <2>2, <2>3
<1>4. /\ 1 \in 1..Len(kicks)
      /\ \A i \in 1..Len(kicks') : i + 1 \in 2..Len(kicks) /\ i + 1 \in 1..Len(kicks)
  BY <1>3
<1>5. PICK k : k = kicks[1]
  OBVIOUS
<1>6. /\ fwWriteOffset' = k.woff /\ fwSize' = k.size
      /\ k \in [woff : Offsets, size : Sizes]
  <2>1. k \in [woff : Offsets, size : Sizes]
    BY <1>2, <1>4, <1>5, ElementOfSeq
  <2>2. Head(kicks) = k
    BY <1>3, <1>5
  <2>3. QED
    BY <1>1, <2>1, <2>2
<1>7. Told /\ Ordered
  BY DEF RingInv
<1>8. /\ Knows(k.woff, k.size) /\ fwSize <= k.size
  BY <1>4, <1>5, <1>7 DEF Told, Ordered, Before
<1>9. /\ Whole'
      /\ \A o : Boundary(o)' <=> Boundary(o)
      /\ \A o : Distance(o)' = Distance(o)
      /\ FreeBytes' = FreeBytes
  BY <1>1, ReleasedKept DEF hostVars
<1>10. \A x, s : Knows(x, s)' <=> Knows(x, s)
  BY <1>1, <1>9 DEF Knows
<1>11. \A x, s, l : Before(x, s, l)' <=> Before(x, s, l)
  BY <1>9 DEF Before
<1>12. Told'
  <2>1. \A i \in 1..Len(kicks') : Knows(kicks[i + 1].woff, kicks[i + 1].size)
    BY <1>4, <1>7 DEF Told
  <2>2. QED
    BY <1>3, <1>6, <1>8, <1>10, <2>1 DEF Told
<1>13. Ordered'
  <2>1. \A i \in 1..Len(kicks') : Before(k.woff, k.size, kicks[i + 1])
    BY <1>4, <1>5, <1>7 DEF Ordered
  <2>2. \A i, j \in 1..Len(kicks') : i < j =>
            Before(kicks[i + 1].woff, kicks[i + 1].size, kicks[j + 1])
    BY <1>4, <1>7 DEF Ordered
  <2>3. QED
    BY <1>3, <1>6, <1>11, <2>1, <2>2 DEF Ordered
<1>14. TypeOK'
  <2>1. k.woff \in Nat /\ k.size \in Nat /\ k.size \in Sizes
    BY <1>6, SizeIs DEF Offsets
  <2>2. k.woff \in 0..(k.size - 1)
    BY <1>8, <2>1 DEF Knows
  <2>3. ui32ReadOffset \in 0..(fwSize - 1) /\ fwSize \in Nat
    BY OffsetsAre DEF RingInv, TypeOK
  <2>4. ui32ReadOffset \in 0..(k.size - 1)
    BY <1>8, <2>1, <2>3
  <2>5. QED
    BY <1>1, <1>3, <1>6, <2>1, <2>2, <2>4 DEF RingInv, TypeOK
<1>15. Caller'
  <2>1. /\ Caller /\ FreeBytes' = FreeBytes
        /\ UNCHANGED <<ccb, ui32HostWriteOffset, ui32Size, ui32ReadOffset,
                       pc, cmd, free, ui32RetryCount>>
    BY <1>1, <1>9 DEF RingInv
  <2>2. QED
    BY <2>1 DEF Caller, TooBig, HasRoom, NoHeaders, FitsBeforeEnd, Start, Remain,
                MayGrow, Growable
<1>16. QED
  BY <1>9, <1>12, <1>13, <1>14, <1>15 DEF RingInv

\* The firmware works on the first command that is released.
LEMMA ExecuteIs ==
    ASSUME RingInv, FwExecute, NEW r, r = ui32ReadOffset, NEW n, n = ccb[r].size
    PROVE  /\ IsHeader(r) /\ n \in Nat \ {0} /\ r + n <= ui32Size
           /\ n <= Distance(ui32HostWriteOffset)
           /\ fwWriteOffset # r
           /\ \A x : Boundary(x) /\ x # r => x \in 0..(ui32Size - 1) /\ n <= Distance(x)
<1>1. r # fwWriteOffset /\ ccb[r] \in Headers
  BY DEF FwExecute
<1>2. Distance(ui32HostWriteOffset) = 0 <=> r = ui32HostWriteOffset
  BY OffsetsAre DEF Distance
<1>3. r # ui32HostWriteOffset
  <2>1. Boundary(fwWriteOffset)
    BY DEF RingInv, Told, Knows
  <2>2. CASE fwWriteOffset = ui32HostWriteOffset
    BY <1>1, <2>2
  <2>3. CASE IsHeader(fwWriteOffset)
    <3>1. fwWriteOffset \in 0..(ui32Size - 1)
      BY <2>3, OffsetsAre DEF IsHeader, Released, Offsets
    <3>2. Distance(fwWriteOffset) \in Nat
      BY <3>1, OffsetsAre, RingIs
    <3>3. QED
      BY <1>2, <2>3, <3>2, OffsetsAre DEF IsHeader, Released
  <2>4. QED
    BY <2>1, <2>2, <2>3 DEF Boundary
<1>4. IsHeader(r)
  BY <1>3 DEF RingInv, Whole, Boundary
<1>5. r \in Offsets /\ r \in 0..(ui32Size - 1)
  BY OffsetsAre
<1>6. /\ n \in Nat \ {0} /\ r + n <= ui32Size
      /\ Distance(r) + n <= Distance(ui32HostWriteOffset)
      /\ \A i \in 1..(n - 1) : ccb[r + i] \notin Headers
  BY <1>4, <1>5, HeaderAt
<1>7. Distance(r) = 0
  BY <1>5 DEF Distance
<1>8. n <= Distance(ui32HostWriteOffset)
  BY <1>6, <1>7
<1>9. ASSUME NEW x, Boundary(x), x # r
      PROVE  x \in 0..(ui32Size - 1) /\ n <= Distance(x)
  <2>1. CASE x = ui32HostWriteOffset
    BY <1>8, <2>1, OffsetsAre
  <2>2. CASE IsHeader(x)
    <3>1. x \in 0..(ui32Size - 1) /\ ccb[x] \in Headers
      BY <2>2, OffsetsAre DEF IsHeader, Released, Offsets
    <3>2. \A i \in 1..(n - 1) : x # r + i
      BY <1>6, <3>1
    <3>3. x - r \notin 1..(n - 1)
      <4>1. x = r + (x - r)
        BY <1>5, <3>1
      <4>2. QED
        BY <3>2, <4>1
    <3>4. n <= Distance(x)
      BY <1>5, <1>6, <1>9, <3>1, <3>3, OffsetsAre DEF Distance
    <3>5. QED
      BY <3>1, <3>4
  <2>3. QED
    BY <1>9, <2>1, <2>2 DEF Boundary
<1>10. QED
  BY <1>1, <1>4, <1>6, <1>8, <1>9

\* It goes on where that command ends, also when it takes the ring to be smaller
\* than it is: then what it has been told of does not wrap.
LEMMA ExecutedIs ==
    ASSUME RingInv, FwExecute, NEW r, r = ui32ReadOffset, NEW n, n = ccb[r].size
    PROVE  /\ UNCHANGED <<ui32HostWriteOffset, ui32Size, fwWriteOffset, fwSize, kicks,
                          pc, cmd, free, ui32RetryCount>>
           /\ ui32ReadOffset' = Behind(r)
           /\ ui32ReadOffset' = r + n \/ (r + n = ui32Size /\ ui32ReadOffset' = 0)
           /\ ui32ReadOffset' # r
           /\ ui32ReadOffset' \in 0..(fwSize - 1)
           /\ ui32ReadOffset' \in 0..(ui32Size - 1)
           /\ ccb' \in [Offsets -> Headers \cup {Garbage, Body}]
           /\ \A o \in Offsets : ccb'[o] = Garbage \/ ccb'[o] = ccb[o]
           /\ \A o \in Offsets : o < r \/ o >= r + n => ccb'[o] = ccb[o]
<1>1. /\ UNCHANGED <<ui32HostWriteOffset, ui32Size, fwWriteOffset, fwSize, kicks,
                     pc, cmd, free, ui32RetryCount>>
      /\ ui32ReadOffset' = (r + n) % fwSize
      /\ ccb' = [o \in Offsets |-> IF o \in r..(r + n - 1) THEN Garbage ELSE ccb[o]]
  BY DEF FwExecute, hostVars, callerVars
<1>2. /\ n \in Nat \ {0} /\ r + n <= ui32Size
      /\ n <= Distance(ui32HostWriteOffset)
      /\ fwWriteOffset # r
      /\ \A x : Boundary(x) /\ x # r => x \in 0..(ui32Size - 1) /\ n <= Distance(x)
  BY ExecuteIs
<1>3. r \in 0..(ui32Size - 1) /\ fwSize \in Nat \ {0} /\ fwSize <= ui32Size
  <2>1. fwSize \in Nat \ {0}
    BY SizeIs DEF RingInv, TypeOK
  <2>2. QED
    BY <2>1, OffsetsAre
<1>4. n < ui32Size
  BY <1>2, <1>3, OffsetsAre
<1>5. /\ fwWriteOffset \in 0..(ui32Size - 1) /\ n <= Distance(fwWriteOffset)
      /\ fwWriteOffset < fwSize
      /\ fwSize < ui32Size => r <= fwWriteOffset
  BY <1>2 DEF RingInv, Told, Knows
<1>6. /\ ui32ReadOffset' = Behind(r)
      /\ ui32ReadOffset' = r + n \/ (r + n = ui32Size /\ ui32ReadOffset' = 0)
      /\ ui32ReadOffset' # r
      /\ ui32ReadOffset' \in 0..(fwSize - 1)
  <2>1. PICK e : e = r + n
    OBVIOUS
  <2>2. /\ e \in Nat /\ e <= ui32Size /\ e # r /\ r < ui32Size
        /\ ui32ReadOffset' = e % fwSize
        /\ Behind(r) = IF e = ui32Size THEN 0 ELSE e
    <3>1. Behind(r) = IF r + n = ui32Size THEN 0 ELSE r + n
      BY DEF Behind
    <3>2. e \in Nat /\ e <= ui32Size /\ e # r /\ r < ui32Size
      BY <1>2, <1>3, <2>1, OffsetsAre
    <3>3. ui32ReadOffset' = e % fwSize
      BY <1>1, <2>1
    <3>4. QED
      BY <2>1, <3>1, <3>2, <3>3
  <2>3. \A x \in 0..(fwSize - 1) : x % fwSize = x
    BY <1>3
  <2>4. CASE e = ui32Size /\ fwSize = ui32Size
    <3>1. e % fwSize = 0
      BY <1>3, <2>4
    <3>2. 0 # r
      BY <1>4, <2>1, <2>4, <1>2, <1>3
    <3>3. QED
      BY <1>3, <2>1, <2>2, <2>4, <3>1, <3>2
  <2>5. CASE e # ui32Size /\ fwSize = ui32Size
    <3>1. e \in 0..(fwSize - 1)
      BY <1>3, <2>2, <2>5, OffsetsAre
    <3>2. QED
      BY <2>1, <2>2, <2>3, <2>5, <3>1
  <2>6. CASE fwSize # ui32Size
    <3>1. Distance(fwWriteOffset) = fwWriteOffset - r
      BY <1>3, <1>5, <2>6, OffsetsAre DEF Distance
    <3>2. e \in 0..(fwSize - 1) /\ e # ui32Size
      BY <1>2, <1>3, <1>5, <2>1, <3>1, OffsetsAre
    <3>3. QED
      BY <2>1, <2>2, <2>3, <3>2
  <2>7. QED
    BY <2>4, <2>5, <2>6
<1>7. ui32ReadOffset' \in 0..(ui32Size - 1)
  BY <1>3, <1>6, OffsetsAre
<1>8. /\ ccb' \in [Offsets -> Headers \cup {Garbage, Body}]
      /\ \A o \in Offsets : ccb'[o] = Garbage \/ ccb'[o] = ccb[o]
      /\ \A o \in Offsets : o < r \/ o >= r + n => ccb'[o] = ccb[o]
  <2>1. \A o \in Offsets : ccb'[o] = IF o \in r..(r + n - 1) THEN Garbage ELSE ccb[o]
    BY <1>1
  <2>2. \A o \in Offsets : ccb'[o] = Garbage \/ ccb'[o] = ccb[o]
    BY <2>1
  <2>3. \A o \in Offsets : o < r \/ o >= r + n => o \notin r..(r + n - 1)
    BY <1>2, <1>3, OffsetsAre DEF Offsets
  <2>4. \A o \in Offsets : ccb[o] \in Headers \cup {Garbage, Body}
    BY DEF RingInv, TypeOK
  <2>5. ccb' \in [Offsets -> Headers \cup {Garbage, Body}]
    BY <1>1, <2>4
  <2>6. QED
    BY <2>1, <2>2, <2>3, <2>5
<1>9. QED
  BY <1>1, <1>6, <1>7, <1>8

\* All that remains released is nearer by the size of the command.
LEMMA NearerIs ==
    ASSUME RingInv, FwExecute, NEW r, r = ui32ReadOffset, NEW n, n = ccb[r].size
    PROVE  /\ \A o \in 0..(ui32Size - 1) :
                 n <= Distance(o) => Distance(o)' = Distance(o) - n
           /\ Distance(ui32HostWriteOffset)' = Distance(ui32HostWriteOffset) - n
           /\ \A o \in Offsets : r <= o /\ o < r + n => Released(o)
           /\ \A o \in Offsets : IsHeader(o)' <=> IsHeader(o) /\ o # r
           /\ \A o \in Offsets : IsHeader(o)' => ccb'[o] = ccb[o]
           /\ \A x : Boundary(x) /\ x # r => Boundary(x)'
<1>1. /\ IsHeader(r) /\ n \in Nat \ {0} /\ r + n <= ui32Size
      /\ n <= Distance(ui32HostWriteOffset)
      /\ \A x : Boundary(x) /\ x # r => x \in 0..(ui32Size - 1) /\ n <= Distance(x)
  BY ExecuteIs
<1>2. /\ UNCHANGED <<ui32HostWriteOffset, ui32Size>>
      /\ ui32ReadOffset' = r + n \/ (r + n = ui32Size /\ ui32ReadOffset' = 0)
      /\ \A o \in Offsets : ccb'[o] = Garbage \/ ccb'[o] = ccb[o]
      /\ \A o \in Offsets : o < r \/ o >= r + n => ccb'[o] = ccb[o]
  BY ExecutedIs
<1>3. /\ r \in 0..(ui32Size - 1) /\ ui32Size \in Nat \ {0}
      /\ ui32HostWriteOffset \in 0..(ui32Size - 1)
      /\ ui32Size <= MaxSize /\ MaxSize \in Nat
      /\ Distance(ui32HostWriteOffset) \in 0..(ui32Size - 1)
  BY OffsetsAre
<1>4. \A o \in 0..(ui32Size - 1) :
          /\ Distance(o) \in 0..(ui32Size - 1)
          /\ n <= Distance(o) => Distance(o)' = Distance(o) - n
          /\ n > Distance(o) => /\ Distance(o)' = Distance(o) + ui32Size - n
                                /\ r <= o /\ o < r + n
  BY <1>1, <1>2, <1>3 DEF Distance
<1>5. Distance(ui32HostWriteOffset)' = Distance(ui32HostWriteOffset) - n
  BY <1>1, <1>2, <1>3 DEF Distance
<1>6. \A o \in Offsets : r <= o /\ o < r + n =>
          o \in 0..(ui32Size - 1) /\ Distance(o) < n /\ Released(o)
  BY <1>1, <1>3 DEF Released, Distance, Offsets
<1>7. \A o \in Offsets : Released(o)' <=> Released(o) /\ n <= Distance(o)
  <2> SUFFICES ASSUME NEW o \in Offsets
               PROVE  Released(o)' <=> Released(o) /\ n <= Distance(o)
    OBVIOUS
  <2>1. CASE o \in 0..(ui32Size - 1)
    BY <1>1, <1>2, <1>3, <1>4, <1>5, <2>1 DEF Released
  <2>2. CASE o \notin 0..(ui32Size - 1)
    <3>1. ~(o < ui32Size)
      BY <1>3, <2>2 DEF Offsets
    <3>2. QED
      BY <1>2, <3>1 DEF Released
  <2>3. QED
    BY <2>1, <2>2
<1>8. \A o \in Offsets : Released(o)' => ccb'[o] = ccb[o]
  <2> SUFFICES ASSUME NEW o \in Offsets, Released(o)' PROVE ccb'[o] = ccb[o]
    OBVIOUS
  <2>1. n <= Distance(o) /\ o < ui32Size /\ o \in 0..(ui32Size - 1)
    BY <1>3, <1>7 DEF Released, Offsets
  <2>2. ~(r <= o /\ o < r + n)
    BY <1>1, <1>4, <1>6, <2>1
  <2>3. o < r \/ o >= r + n
    BY <1>1, <1>3, <2>1, <2>2
  <2>4. QED
    BY <1>2, <2>3
<1>9. \A o \in Offsets : IsHeader(o)' => IsHeader(o) /\ o # r
  <2>1. Distance(r) = 0
    BY <1>3 DEF Distance
  <2>2. QED
    BY <1>1, <1>7, <1>8, <2>1 DEF IsHeader
<1>10. \A o \in Offsets : IsHeader(o) /\ o # r => IsHeader(o)'
  BY <1>1, <1>7, <1>8 DEF IsHeader, Boundary
<1>11. \A x : Boundary(x) /\ x # r => Boundary(x)'
  BY <1>2, <1>10 DEF Boundary, IsHeader
<1>12. QED
  BY <1>4, <1>5, <1>6, <1>8, <1>9, <1>10, <1>11 DEF IsHeader

LEMMA FwExecuteStep ==
    ASSUME RingInv, FwExecute PROVE RingInv'
<1>0. PICK r : r = ui32ReadOffset
  OBVIOUS
<1>1. PICK n : n = ccb[r].size
  OBVIOUS
<1>2. /\ IsHeader(r) /\ n \in Nat \ {0} /\ r + n <= ui32Size
      /\ n <= Distance(ui32HostWriteOffset)
      /\ fwWriteOffset # r
      /\ \A x : Boundary(x) /\ x # r => x \in 0..(ui32Size - 1) /\ n <= Distance(x)
  BY <1>0, <1>1, ExecuteIs
<1>3. /\ UNCHANGED <<ui32HostWriteOffset, ui32Size, fwWriteOffset, fwSize, kicks,
                     pc, cmd, free, ui32RetryCount>>
      /\ ui32ReadOffset' = Behind(r)
      /\ ui32ReadOffset' = r + n \/ (r + n = ui32Size /\ ui32ReadOffset' = 0)
      /\ ui32ReadOffset' # r
      /\ ui32ReadOffset' \in 0..(fwSize - 1)
      /\ ccb' \in [Offsets -> Headers \cup {Garbage, Body}]
      /\ \A o \in Offsets : ccb'[o] = Garbage \/ ccb'[o] = ccb[o]
      /\ \A o \in Offsets : o < r \/ o >= r + n => ccb'[o] = ccb[o]
  BY <1>0, <1>1, ExecutedIs
<1>4. /\ \A o \in 0..(ui32Size - 1) :
            n <= Distance(o) => Distance(o)' = Distance(o) - n
      /\ Distance(ui32HostWriteOffset)' = Distance(ui32HostWriteOffset) - n
      /\ \A o \in Offsets : r <= o /\ o < r + n => Released(o)
      /\ \A o \in Offsets : IsHeader(o)' <=> IsHeader(o) /\ o # r
      /\ \A o \in Offsets : IsHeader(o)' => ccb'[o] = ccb[o]
      /\ \A x : Boundary(x) /\ x # r => Boundary(x)'
  BY <1>0, <1>1, NearerIs
<1>5. /\ r \in 0..(ui32Size - 1) /\ r \in Offsets /\ ui32Size \in Nat \ {0}
      /\ ui32HostWriteOffset \in 0..(ui32Size - 1)
      /\ ui32HostWriteOffset \in Offsets
      /\ ui32Size <= MaxSize /\ MaxSize \in Nat
      /\ Distance(ui32HostWriteOffset) \in 0..(ui32Size - 1)
  BY <1>0, OffsetsAre
<1>6. TypeOK'
  BY <1>3 DEF RingInv, TypeOK
<1>7. Boundary(ui32ReadOffset)'
  <2>1. PICK b : b = Behind(r)
    OBVIOUS
  <2>2. Boundary(b)
    BY <1>2, <1>5, <2>1, HeaderAt
  <2>3. Boundary(b)'
    BY <1>3, <1>4, <2>1, <2>2
  <2>4. QED
    BY <1>3, <2>1, <2>3 DEF Boundary
<1>8. ASSUME NEW o \in Offsets, IsHeader(o)'
      PROVE  /\ o + ccb'[o].size <= ui32Size
             /\ Distance(o)' + ccb'[o].size <= Distance(ui32HostWriteOffset)'
             /\ \A i \in 1..(ccb'[o].size - 1) : ccb'[o + i] \notin Headers
             /\ Boundary(Behind(o))'
  <2>1. /\ IsHeader(o) /\ o # r /\ ccb'[o] = ccb[o]
    BY <1>4, <1>8
  <2>2. PICK m : m = ccb[o].size
    OBVIOUS
  <2>3. /\ m \in Nat \ {0} /\ o + m <= ui32Size
        /\ Distance(o) \in Nat
        /\ Distance(o) + m <= Distance(ui32HostWriteOffset)
        /\ \A i \in 1..(m - 1) : ccb[o + i] \notin Headers
        /\ Boundary(Behind(o))
    BY <2>1, <2>2, HeaderAt
  <2>4. o \in 0..(ui32Size - 1) /\ n <= Distance(o)
    BY <1>2, <2>1 DEF Boundary
  <2>5. Distance(o)' = Distance(o) - n
    BY <1>4, <2>4
  <2>6. Distance(o)' + m <= Distance(ui32HostWriteOffset)'
    BY <1>2, <1>4, <1>5, <2>3, <2>5
  <2>7. ASSUME NEW i \in 1..(m - 1) PROVE ccb'[o + i] \notin Headers
    <3>1. o + i \in Offsets
      BY <1>5, <2>3, <2>4 DEF Offsets
    <3>2. ccb[o + i] \notin Headers /\ Garbage \notin Headers
      BY <2>3, HeaderIs
    <3>3. ccb'[o + i] = Garbage \/ ccb'[o + i] = ccb[o + i]
      BY <1>3, <3>1
    <3>4. QED
      BY <3>2, <3>3
  <2>8. PICK b : b = Behind(o)
    OBVIOUS
  <2>9. b = IF o + m = ui32Size THEN 0 ELSE o + m
    BY <2>2, <2>8 DEF Behind
  <2>10. b # r
    BY <1>0, <1>5, <2>3, <2>4, <2>9 DEF Distance
  <2>11. Boundary(b)'
    BY <1>4, <2>3, <2>8, <2>10
  <2>12. Behind(o)' = b
    BY <1>3, <2>1, <2>2, <2>9 DEF Behind
  <2>13. Boundary(Behind(o))'
    BY <2>11, <2>12 DEF Boundary
  <2>14. QED
    BY <2>1, <2>2, <2>3, <2>6, <2>7, <2>13
<1>9. Whole'
  BY <1>3, <1>7, <1>8 DEF Whole
<1>10. \A x, s : s \in Nat /\ x # r /\ Knows(x, s) => Knows(x, s)'
  <2> SUFFICES ASSUME NEW x, NEW s \in Nat, x # r, Knows(x, s) PROVE Knows(x, s)'
    OBVIOUS
  <2>1. /\ Boundary(x) /\ x < s /\ s <= ui32Size
        /\ s < ui32Size => r <= x
    BY <1>0 DEF Knows
  <2>2. Boundary(x)' /\ x \in 0..(ui32Size - 1) /\ n <= Distance(x)
    BY <1>2, <1>4, <2>1
  <2>3. s < ui32Size => ui32ReadOffset' <= x
    BY <1>0, <1>2, <1>3, <1>5, <2>1, <2>2 DEF Distance
  <2>4. QED
    BY <1>3, <2>1, <2>2, <2>3 DEF Knows
<1>11. Told /\ Ordered
  BY DEF RingInv
<1>12. \A i \in 1..Len(kicks) : kicks[i].size \in Nat
  <2>1. kicks \in Seq([woff : Offsets, size : Sizes])
    BY DEF RingInv, TypeOK
  <2>2. \A i \in 1..Len(kicks) : kicks[i] \in [woff : Offsets, size : Sizes]
    BY <2>1, ElementOfSeq
  <2>3. QED
    BY <2>2, SizeIs
<1>13. /\ Boundary(fwWriteOffset)
       /\ \A i \in 1..Len(kicks) : Boundary(kicks[i].woff) /\ kicks[i].woff # r
  <2>1. Boundary(fwWriteOffset) /\ \A i \in 1..Len(kicks) : Boundary(kicks[i].woff)
    BY <1>11 DEF Told, Knows
  <2>2. /\ Distance(fwWriteOffset) >= n /\ Distance(r) = 0
        /\ fwWriteOffset \in 0..(ui32Size - 1)
    BY <1>0, <1>2, <1>5, <2>1 DEF Distance
  <2>3. \A i \in 1..Len(kicks) : Distance(fwWriteOffset) <= Distance(kicks[i].woff)
    BY <1>11 DEF Ordered, Before
  <2>4. Distance(fwWriteOffset) \in Nat
    BY <2>2, OffsetsAre, RingIs
  <2>5. \A i \in 1..Len(kicks) : kicks[i].woff # r
    BY <1>2, <2>2, <2>3, <2>4
  <2>6. QED
    BY <2>1, <2>5
<1>14. Told'
  <2>1. /\ Knows(fwWriteOffset, fwSize)
        /\ \A i \in 1..Len(kicks) : Knows(kicks[i].woff, kicks[i].size)
    BY <1>11 DEF Told
  <2>2. PICK x, s : x = fwWriteOffset /\ s = fwSize
    OBVIOUS
  <2>3. Knows(x, s)'
    BY <1>2, <1>10, <2>1, <2>2, OffsetsAre
  <2>4. Knows(fwWriteOffset, fwSize)'
    BY <1>3, <2>2, <2>3 DEF Knows
  <2>5. ASSUME NEW i \in 1..Len(kicks) PROVE Knows(kicks[i].woff, kicks[i].size)'
    <3>1. PICK y, t : y = kicks[i].woff /\ t = kicks[i].size
      OBVIOUS
    <3>2. Knows(y, t)'
      BY <1>10, <1>12, <1>13, <2>1, <3>1
    <3>3. QED
      BY <1>3, <3>1, <3>2 DEF Knows
  <2>6. QED
    BY <1>3, <2>4, <2>5 DEF Told
<1>15. \A x : Boundary(x) /\ x # r =>
           /\ Distance(x) \in Int /\ Distance(x)' = Distance(x) - n
  <2> SUFFICES ASSUME NEW x, Boundary(x), x # r
               PROVE  Distance(x) \in Int /\ Distance(x)' = Distance(x) - n
    OBVIOUS
  <2>1. x \in 0..(ui32Size - 1) /\ n <= Distance(x)
    BY <1>2
  <2>2. Distance(x) \in Int
    BY <2>1, OffsetsAre, RingIs
  <2>3. QED
    BY <1>4, <2>1, <2>2
<1>16. Ordered'
  <2>1. PICK x : x = fwWriteOffset
    OBVIOUS
  <2>2. Distance(x) \in Int /\ Distance(x)' = Distance(x) - n
    BY <1>2, <1>13, <1>15, <2>1
  <2>3. Distance(fwWriteOffset)' = Distance(fwWriteOffset) - n
    BY <1>3, <2>1, <2>2 DEF Distance
  <2>4. ASSUME NEW i \in 1..Len(kicks)
        PROVE  /\ Distance(kicks[i].woff) \in Int
               /\ Distance(kicks[i].woff)' = Distance(kicks[i].woff) - n
    <3>1. PICK y : y = kicks[i].woff
      OBVIOUS
    <3>2. Distance(y) \in Int /\ Distance(y)' = Distance(y) - n
      BY <1>13, <1>15, <3>1
    <3>3. QED
      BY <1>3, <3>1, <3>2 DEF Distance
  <2>5. \A i \in 1..Len(kicks) : Before(fwWriteOffset, fwSize, kicks[i])'
    <3>1. \A i \in 1..Len(kicks) : /\ Distance(fwWriteOffset) <= Distance(kicks[i].woff)
                                   /\ fwSize <= kicks[i].size
      BY <1>11 DEF Ordered, Before
    <3>2. \A i \in 1..Len(kicks) :
              Distance(fwWriteOffset)' <= Distance(kicks[i].woff)'
      BY <1>2, <2>1, <2>2, <2>3, <2>4, <3>1
    <3>3. QED
      BY <1>3, <3>1, <3>2 DEF Before
  <2>6. \A i, j \in 1..Len(kicks) : i < j =>
            Before(kicks[i].woff, kicks[i].size, kicks[j])'
    <3>1. \A i, j \in 1..Len(kicks) : i < j =>
              /\ Distance(kicks[i].woff) <= Distance(kicks[j].woff)
              /\ kicks[i].size <= kicks[j].size
      BY <1>11 DEF Ordered, Before
    <3>2. \A i, j \in 1..Len(kicks) : i < j =>
              Distance(kicks[i].woff)' <= Distance(kicks[j].woff)'
      BY <1>2, <2>4, <3>1
    <3>3. QED
      BY <1>3, <3>1, <3>2 DEF Before
  <2>7. QED
    BY <1>3, <2>5, <2>6 DEF Ordered, Before
<1>17. FreeBytes' = FreeBytes + n /\ FreeBytes \in Nat
  BY <1>2, <1>3, <1>4, <1>5 DEF FreeBytes
<1>18. pc \in {"fill", "release"} => HasRoom'
  <2> SUFFICES ASSUME pc \in {"fill", "release"} PROVE HasRoom'
    OBVIOUS
  <2>1. HasRoom /\ cmd.size \in Nat
    BY CommandIs DEF RingInv, Caller
  <2>2. /\ FitsBeforeEnd(cmd.size)' <=> FitsBeforeEnd(cmd.size)
        /\ Remain' = Remain
    BY <1>3 DEF FitsBeforeEnd, Remain
  <2>3. CASE FitsBeforeEnd(cmd.size)
    BY <1>2, <1>3, <1>17, <2>1, <2>2, <2>3 DEF HasRoom
  <2>4. CASE ~FitsBeforeEnd(cmd.size)
    <3>1. /\ Remain + cmd.size < FreeBytes
          /\ ccb[ui32HostWriteOffset] = Padding(Remain)
          /\ \A i \in 1..(Remain - 1) : ccb[ui32HostWriteOffset + i] \notin Headers
      BY <2>1, <2>4 DEF HasRoom, NoHeaders
    <3>2. Remain + cmd.size < FreeBytes'
      BY <1>2, <1>17, <2>1, <3>1, OffsetsAre
    <3>3. ccb'[ui32HostWriteOffset] = ccb[ui32HostWriteOffset]
      <4>1. ~Released(ui32HostWriteOffset)
        BY <1>5 DEF Released
      <4>2. ui32HostWriteOffset < r \/ ui32HostWriteOffset >= r + n
        BY <1>2, <1>4, <1>5, <4>1
      <4>3. QED
        BY <1>3, <1>5, <4>2
    <3>4. ASSUME NEW i \in 1..(Remain - 1)
          PROVE  ccb'[ui32HostWriteOffset + i] \notin Headers
      <4>1. ui32HostWriteOffset + i \in Offsets
        BY <1>5 DEF Remain, Offsets
      <4>2. QED
        BY <1>3, <3>1, <4>1, HeaderIs
    <3>5. QED
      BY <1>3, <2>2, <2>4, <3>1, <3>2, <3>3, <3>4 DEF HasRoom, NoHeaders
  <2>5. QED
    BY <2>3, <2>4
<1>19. pc = "release" => ccb'[Start'] = cmd /\ NoHeaders(Start, cmd.size)'
  <2> SUFFICES ASSUME pc = "release"
               PROVE  ccb'[Start'] = cmd /\ NoHeaders(Start, cmd.size)'
    OBVIOUS
  <2>1. PICK a : a = Start
    OBVIOUS
  <2>2. Start' = a
    BY <1>3, <2>1 DEF Start, FitsBeforeEnd
  <2>3. /\ ccb[a] = cmd /\ \A i \in 1..(cmd.size - 1) : ccb[a + i] \notin Headers
    BY <2>1 DEF RingInv, Caller, NoHeaders
  <2>4. /\ a \in Offsets /\ a + cmd.size < ui32Size
        /\ \A o \in Offsets : Released(o) => o < a \/ o >= a + cmd.size
    BY <2>1, RoomIs
  <2>5. cmd.size \in Nat /\ cmd.size > 0
    BY CommandIs, OffsetsAre
  <2>6. ccb'[a] = ccb[a]
    <3>1. ~Released(a)
      BY <2>4, <2>5 DEF Offsets
    <3>2. a < r \/ a >= r + n
      BY <1>2, <1>4, <1>5, <2>4, <3>1 DEF Offsets
    <3>3. QED
      BY <1>3, <2>4, <3>2
  <2>7. ASSUME NEW i \in 1..(cmd.size - 1) PROVE ccb'[a + i] \notin Headers
    <3>1. a + i \in Offsets
      BY <1>5, <2>4, <2>5 DEF Offsets
    <3>2. QED
      BY <1>3, <2>3, <3>1, HeaderIs
  <2>8. QED
    BY <1>3, <2>2, <2>3, <2>6, <2>7 DEF NoHeaders
<1>20. pc = "grow" => MayGrow'
  <2> SUFFICES ASSUME pc = "grow" PROVE MayGrow'
    OBVIOUS
  <2>1. Growable /\ r <= ui32HostWriteOffset
    BY <1>0, <1>5 DEF RingInv, Caller, MayGrow
  <2>2. ui32ReadOffset' <= ui32HostWriteOffset
    BY <1>0, <1>2, <1>3, <1>5, <2>1 DEF Distance
  <2>3. QED
    BY <1>3, <1>5, <1>6, <2>1, <2>2, <1>2 DEF MayGrow, Growable
<1>21. Caller'
  <2>1. pc = "decide" => free <= FreeBytes'
    <3>1. free \in Nat /\ (pc = "decide" => free <= FreeBytes)
      BY DEF RingInv, Caller, TypeOK, Offsets
    <3>2. QED
      BY <1>2, <1>17, <3>1
  <2>2. QED
    BY <1>3, <1>18, <1>19, <1>20, <2>1 DEF RingInv, Caller, TooBig
<1>22. QED
  BY <1>6, <1>9, <1>14, <1>16, <1>21 DEF RingInv

-----------------------------------------------------------------------------
(* The invariant.                                                          *)

LEMMA RingInit == Init => RingInv
<1> SUFFICES ASSUME Init PROVE RingInv
  OBVIOUS
<1>1. /\ ccb = [o \in Offsets |-> Garbage] /\ ui32HostWriteOffset = 0
      /\ ui32Size = InitialSize /\ ui32ReadOffset = 0
      /\ fwWriteOffset = 0 /\ fwSize = InitialSize /\ kicks = <<>>
      /\ pc = "idle" /\ cmd = Idle /\ free = 0 /\ ui32RetryCount = 0
  BY DEF Init
<1>2. InitialSize \in Sizes /\ InitialSize \in Nat \ {0}
  BY ClientCCBAssumption
<1>3. 0 \in Offsets
  BY <1>2, SizeIs DEF Offsets
<1>4. kicks \in Seq([woff : Offsets, size : Sizes]) /\ Len(kicks) = 0
  BY <1>1, EmptySeq
<1>5. TypeOK
  BY <1>1, <1>2, <1>3, <1>4 DEF TypeOK
<1>6. Whole
  <2>1. Boundary(ui32ReadOffset)
    BY <1>1 DEF Boundary
  <2>2. \A o \in Offsets : ~IsHeader(o)
    BY <1>1, HeaderIs DEF IsHeader
  <2>3. QED
    BY <2>1, <2>2 DEF Whole
<1>7. Told
  <2>1. Knows(fwWriteOffset, fwSize)
    BY <1>1, <1>2 DEF Knows, Boundary
  <2>2. QED
    BY <1>4, <2>1 DEF Told
<1>8. Ordered
  BY <1>4 DEF Ordered
<1>9. Caller
  BY <1>1 DEF Caller
<1>10. QED
  BY <1>5, <1>6, <1>7, <1>8, <1>9 DEF RingInv

LEMMA RingStep == RingInv /\ [Next]_vars => RingInv'
<1> SUFFICES ASSUME RingInv, [Next]_vars PROVE RingInv'
  OBVIOUS
<1>1. CASE \E c \in Commands : Submit(c)
  BY <1>1, SubmitStep
<1>2. CASE Sample
  BY <1>2, SampleStep
<1>3. CASE AcquireHere
  BY <1>3, AcquireHereStep
<1>4. CASE AcquireWrapped
  BY <1>4, AcquireWrappedStep
<1>5. CASE AcquireElse
  BY <1>5, AcquireElseStep
<1>6. CASE Grow
  BY <1>6, GrowStep
<1>7. CASE GrowFails \/ TryAgain
  BY <1>7, AgainStep
<1>8. CASE Fill
  BY <1>8, FillStep
<1>9. CASE Abandon
  BY <1>9, AbandonStep
<1>10. CASE Release
  BY <1>10, ReleaseStep
<1>11. CASE Kick
  BY <1>11, KickStep
<1>12. CASE KickFails \/ GiveUp
  BY <1>12, DoneStep
<1>13. CASE FwKick
  BY <1>13, FwKickStep
<1>14. CASE FwExecute
  BY <1>14, FwExecuteStep
<1>15. CASE UNCHANGED vars
  <2>1. UNCHANGED <<ccb, ui32HostWriteOffset, ui32Size, ui32ReadOffset, fwWriteOffset,
                    fwSize, kicks, pc, cmd, free, ui32RetryCount>>
    BY <1>15 DEF vars, hostVars, fwVars, callerVars
  <2>2. Whole' /\ Told' /\ Ordered' /\ FreeBytes' = FreeBytes
    BY <2>1, AloneKept DEF hostVars, fwVars
  <2>3. TypeOK'
    BY <2>1 DEF RingInv, TypeOK
  <2>4. Caller'
    BY <2>1, <2>2 DEF RingInv, Caller, TooBig, HasRoom, NoHeaders, FitsBeforeEnd, Start,
                      Remain, MayGrow, Growable
  <2>5. QED
    BY <2>2, <2>3, <2>4 DEF RingInv
<1>16. QED
  BY <1>1, <1>2, <1>3, <1>4, <1>5, <1>6, <1>7, <1>8, <1>9, <1>10, <1>11, <1>12,
     <1>13, <1>14, <1>15 DEF Next

\* The released part of the ring is a chain of whole commands and padding, none
\* of which the end of the ring splits; each kick under way ends at one of them
\* in a ring no smaller than the one before, and a caller's space stays free.
THEOREM RingInvariant == Spec => []RingInv
<1>1. Init => RingInv
  BY RingInit
<1>2. RingInv /\ [Next]_vars => RingInv'
  BY RingStep
<1>3. QED
  BY <1>1, <1>2, PTL DEF Spec

\* The offsets of host and firmware lie in the ring as large as each knows it.
THEOREM OffsetsInRing == Spec => []TypeOK
<1>1. RingInv => TypeOK
  BY DEF RingInv
<1>2. QED
  BY <1>1, RingInvariant, PTL

\* The firmware finds a command or padding at its read offset until it has
\* caught up, also while the ring has grown and it has not been told.
THEOREM HeadersMet == Spec => []FirmwareMeetsHeaders
<1>1. RingInv => FirmwareMeetsHeaders
  <2> SUFFICES ASSUME RingInv PROVE FirmwareMeetsHeaders
    OBVIOUS
  <2>1. Told /\ Boundary(ui32ReadOffset)
    BY DEF RingInv, Whole
  <2>2. \A i \in 1..Len(kicks) : kicks[i].woff < kicks[i].size
    BY <2>1 DEF Told, Knows
  <2>3. ASSUME ui32ReadOffset # fwWriteOffset PROVE ccb[ui32ReadOffset] \in Headers
    <3>1. Boundary(fwWriteOffset)
      BY <2>1 DEF Told, Knows
    <3>2. ui32ReadOffset # ui32HostWriteOffset
      <4>1. CASE fwWriteOffset = ui32HostWriteOffset
        BY <2>3, <4>1
      <4>2. CASE IsHeader(fwWriteOffset)
        <5>1. fwWriteOffset \in 0..(ui32Size - 1)
          BY <4>2, OffsetsAre DEF IsHeader, Released, Offsets
        <5>2. Distance(fwWriteOffset) \in Nat
          BY <5>1, OffsetsAre, RingIs
        <5>3. ui32ReadOffset = ui32HostWriteOffset => Distance(ui32HostWriteOffset) = 0
          BY OffsetsAre DEF Distance
        <5>4. QED
          BY <4>2, <5>2, <5>3, OffsetsAre DEF IsHeader, Released
      <4>3. QED
        BY <3>1, <4>1, <4>2 DEF Boundary
    <3>3. QED
      BY <2>1, <3>2 DEF Boundary, IsHeader
  <2>4. QED
    BY <2>2, <2>3 DEF FirmwareMeetsHeaders
<1>2. QED
  BY <1>1, RingInvariant, PTL
-----------------------------------------------------------------------------
(* What is accepted and not executed: the walk from header to header.      *)

\* The walk from an offset on, and what a header adds to the walk behind it.
Rest(o)      == Walk[Distance(o)]
Joined(h, s) == IF h \in Commands THEN <<h>> \o s ELSE s

\* One step of the walk, given the walk of what is behind.
WalkStep(f, n) ==
    IF n >= Unread THEN <<>>
    ELSE LET h == ccb[(ui32ReadOffset + n) % ui32Size] IN
         CASE h \in Commands           -> <<h>> \o f[n + h.size]
           [] h \in Headers \ Commands -> f[n + h.size]
           [] OTHER                    -> <<Garbage>>

\* A set of natural numbers has a least element.
LEMMA LeastNatural ==
    ASSUME NEW T, T \subseteq Nat, T # {}
    PROVE  \E x \in T : \A y \in T : ~(y < x)
<1>1. \E x \in T : \A y \in T : ~(<<y, x>> \in OpToRel(<, Nat))
  BY NatLessThanWellFounded, WFMin, Zenon
<1>2. QED
  BY <1>1 DEF OpToRel

\* The offset at a distance.
LEMMA PlaceIs ==
    ASSUME RingInv, NEW n \in 0..(ui32Size - 1)
    PROVE  \E o \in 0..(ui32Size - 1) :
              o = (ui32ReadOffset + n) % ui32Size /\ Distance(o) = n /\ o \in Offsets
<1>1. /\ ui32Size \in Nat \ {0} /\ ui32Size <= MaxSize /\ MaxSize \in Nat
      /\ ui32ReadOffset \in 0..(ui32Size - 1)
  BY OffsetsAre
<1>2. \A a \in 0..(ui32Size - 1) : a % ui32Size = a /\ (a + ui32Size) % ui32Size = a
  BY <1>1
<1>3. CASE ui32ReadOffset + n < ui32Size
  <2>1. ui32ReadOffset + n \in 0..(ui32Size - 1)
    BY <1>1, <1>3
  <2>2. (ui32ReadOffset + n) % ui32Size = ui32ReadOffset + n
    BY <1>2, <2>1
  <2>3. Distance(ui32ReadOffset + n) = n /\ ui32ReadOffset + n \in Offsets
    BY <1>1, <2>1 DEF Distance, Offsets
  <2>4. QED
    BY <2>1, <2>2, <2>3
<1>4. CASE ~(ui32ReadOffset + n < ui32Size)
  <2>1. PICK o : o = ui32ReadOffset + n - ui32Size
    OBVIOUS
  <2>2. o \in 0..(ui32Size - 1) /\ ui32ReadOffset + n = o + ui32Size
    BY <1>1, <1>4, <2>1
  <2>3. (ui32ReadOffset + n) % ui32Size = o
    BY <1>2, <2>2
  <2>4. Distance(o) = n /\ o \in Offsets
    BY <1>1, <2>1, <2>2 DEF Distance, Offsets
  <2>5. QED
    BY <2>2, <2>3, <2>4
<1>5. QED
  BY <1>3, <1>4

\* A step of the walk looks at what is behind it only, and within its domain.
LEMMA WalkStepIs ==
    ASSUME RingInv, NEW f, NEW g, NEW n \in 0..(2 * MaxSize),
           \A m \in 0..(2 * MaxSize) : n < m => f[m] = g[m]
    PROVE  WalkStep(f, n) = WalkStep(g, n)
<1>1. CASE n >= Unread
  BY <1>1 DEF WalkStep
<1>2. CASE ~(n >= Unread)
  <2>1. /\ ui32Size \in Nat \ {0} /\ ui32Size <= MaxSize /\ MaxSize \in Nat
        /\ Unread = Distance(ui32HostWriteOffset)
        /\ Unread \in 0..(ui32Size - 1)
    BY OffsetsAre, RingIs
  <2>2. n \in 0..(ui32Size - 1)
    BY <1>2, <2>1
  <2>3. PICK o \in 0..(ui32Size - 1) :
            o = (ui32ReadOffset + n) % ui32Size /\ Distance(o) = n /\ o \in Offsets
    BY <2>2, PlaceIs
  <2>4. PICK h : h = ccb[o]
    OBVIOUS
  <2>5. ASSUME h \in Headers PROVE f[n + h.size] = g[n + h.size]
    <3>1. IsHeader(o)
      BY <1>2, <2>1, <2>3, <2>4, <2>5 DEF IsHeader, Released
    <3>2. h.size \in Nat \ {0} /\ n + h.size <= Unread
      BY <2>1, <2>3, <2>4, <3>1, HeaderAt
    <3>3. n + h.size \in 0..(2 * MaxSize) /\ n < n + h.size
      BY <2>1, <3>2
    <3>4. QED
      BY <3>3
  <2>6. \A F : WalkStep(F, n) =
            CASE h \in Commands           -> <<h>> \o F[n + h.size]
              [] h \in Headers \ Commands -> F[n + h.size]
              [] OTHER                    -> <<Garbage>>
    BY <1>2, <2>3, <2>4 DEF WalkStep
  <2>7. CASE h \in Commands
    BY <2>5, <2>6, <2>7, HeaderIs
  <2>8. CASE h \in Headers \ Commands
    BY <2>5, <2>6, <2>8
  <2>9. CASE h \notin Headers
    BY <2>6, <2>9, HeaderIs
  <2>10. QED
    BY <2>7, <2>8, <2>9
<1>3. QED
  BY <1>1, <1>2

\* There is such a walk: it is built from its end.
LEMMA WalkExists ==
    ASSUME RingInv
    PROVE  \E f : f = [n \in 0..(2 * MaxSize) |-> WalkStep(f, n)]
<1>1. PICK D : D = 0..(2 * MaxSize)
  OBVIOUS
<1>2. MaxSize \in Nat /\ \A n \in D : n \in Nat /\ n <= 2 * MaxSize
  BY <1>1, OffsetsAre
<1> DEFINE From(k) == \E f : /\ f = [n \in D |-> f[n]]
                             /\ \A n \in D : n >= k => f[n] = WalkStep(f, n)
           T == {j \in 0..(2 * MaxSize + 1) : ~From(2 * MaxSize + 1 - j)}
<1>3. From(2 * MaxSize + 1)
  <2>1. PICK f : f = [n \in D |-> <<>>]
    OBVIOUS
  <2>2. f = [n \in D |-> f[n]]
    BY <2>1
  <2>3. \A n \in D : ~(n >= 2 * MaxSize + 1)
    BY <1>2
  <2>4. QED
    BY <2>2, <2>3
<1>4. ASSUME NEW k \in 0..(2 * MaxSize), From(k + 1) PROVE From(k)
  <2>1. PICK f : /\ f = [n \in D |-> f[n]]
                 /\ \A n \in D : n >= k + 1 => f[n] = WalkStep(f, n)
    BY <1>4
  <2>2. PICK g : g = [n \in D |-> IF n = k THEN WalkStep(f, k) ELSE f[n]]
    OBVIOUS
  <2>3. /\ g = [n \in D |-> g[n]]
        /\ \A n \in D : n # k => g[n] = f[n]
        /\ k \in D => g[k] = WalkStep(f, k)
    BY <2>2
  <2>4. ASSUME NEW n \in D, n >= k PROVE g[n] = WalkStep(g, n)
    <3>1. \A m \in 0..(2 * MaxSize) : n < m => f[m] = g[m]
      BY <1>1, <1>2, <2>3, <2>4
    <3>2. WalkStep(f, n) = WalkStep(g, n)
      BY <1>1, <3>1, WalkStepIs
    <3>3. CASE n = k
      BY <2>3, <2>4, <3>2, <3>3
    <3>4. CASE n # k
      <4>1. n >= k + 1
        BY <1>2, <2>4, <3>4
      <4>2. QED
        BY <2>1, <2>3, <2>4, <3>2, <3>4, <4>1
    <3>5. QED
      BY <3>3, <3>4
  <2>5. QED
    BY <2>3, <2>4
<1>5. From(0)
  <2>1. SUFFICES ASSUME ~From(0) PROVE FALSE
    OBVIOUS
  <2>2. T \subseteq Nat /\ 2 * MaxSize + 1 \in T
    <3>1. 2 * MaxSize + 1 \in 0..(2 * MaxSize + 1)
      BY <1>2
    <3>2. 2 * MaxSize + 1 - (2 * MaxSize + 1) = 0
      BY <1>2
    <3>3. ~From(2 * MaxSize + 1 - (2 * MaxSize + 1))
      BY ONLY <2>1, <3>2
    <3>4. QED
      BY <1>2, <3>1, <3>3
  <2>3. PICK j \in T : \A y \in T : ~(y < j)
    <3> HIDE DEF T
    <3>1. QED
      BY <2>2, LeastNatural
  <2>4. j \in 0..(2 * MaxSize + 1) /\ ~From(2 * MaxSize + 1 - j)
    BY <2>3
  <2>5. CASE j = 0
    <3>1. 2 * MaxSize + 1 - j = 2 * MaxSize + 1
      BY <1>2, <2>5
    <3>2. QED
      BY ONLY <1>3, <2>4, <3>1
  <2>6. CASE j # 0
    <3>1. PICK k : k = 2 * MaxSize + 1 - j
      OBVIOUS
    <3>2. /\ k \in 0..(2 * MaxSize) /\ k + 1 = 2 * MaxSize + 1 - (j - 1)
          /\ j - 1 \in 0..(2 * MaxSize + 1) /\ j - 1 < j
      BY <1>2, <2>4, <2>6, <3>1
    <3>3. j - 1 \notin T
      BY <2>3, <3>2
    <3>4. From(2 * MaxSize + 1 - (j - 1))
      BY <3>2, <3>3
    <3>5. From(k + 1)
      BY ONLY <3>2, <3>4
    <3>6. From(k)
      <4> HIDE DEF From
      <4>1. QED
        BY <1>4, <3>2, <3>5
    <3>7. QED
      BY ONLY <2>4, <3>1, <3>6
  <2>7. QED
    BY <2>5, <2>6
<1>6. PICK f : /\ f = [n \in D |-> f[n]]
               /\ \A n \in D : n >= 0 => f[n] = WalkStep(f, n)
  BY <1>5
<1>7. \A n \in D : f[n] = WalkStep(f, n)
  BY <1>2, <1>6
<1>8. f = [n \in D |-> WalkStep(f, n)]
  BY <1>6, <1>7
<1>9. QED
  BY <1>1, <1>8

\* The walk of the model is one.
LEMMA WalkIs ==
    ASSUME RingInv
    PROVE  \A n \in 0..(2 * MaxSize) : Walk[n] = WalkStep(Walk, n)
<1>1. Walk = CHOOSE f : f = [n \in 0..(2 * MaxSize) |-> WalkStep(f, n)]
  BY DEF Walk, WalkStep
<1>2. Walk = [n \in 0..(2 * MaxSize) |-> WalkStep(Walk, n)]
  BY <1>1, WalkExists
<1>3. PICK w : w = Walk
  OBVIOUS
<1>4. w = [n \in 0..(2 * MaxSize) |-> WalkStep(w, n)]
  BY <1>2, <1>3
<1>5. QED
  BY <1>3, <1>4

\* The offset behind a command is behind it by the size of the command.
LEMMA BehindIs ==
    ASSUME RingInv, NEW o \in Offsets, IsHeader(o), NEW b, b = Behind(o)
    PROVE  /\ b \in Offsets /\ Boundary(b)
           /\ Distance(o) \in Nat /\ ccb[o].size \in Nat \ {0}
           /\ Distance(b) = Distance(o) + ccb[o].size
           /\ Distance(b) <= Distance(ui32HostWriteOffset)
           /\ Distance(b) \in Nat /\ Distance(o) < Distance(b)
<1>1. /\ ccb[o].size \in Nat \ {0} /\ o + ccb[o].size <= ui32Size
      /\ Distance(o) \in Nat
      /\ Distance(o) + ccb[o].size <= Distance(ui32HostWriteOffset)
      /\ Boundary(b)
  BY HeaderAt
<1>2. b = IF o + ccb[o].size = ui32Size THEN 0 ELSE o + ccb[o].size
  BY DEF Behind
<1>3. o \in 0..(ui32Size - 1)
  BY OffsetsAre DEF IsHeader, Released, Offsets
<1>4. b \in Offsets
  BY <1>1, OffsetsAre DEF Boundary, IsHeader
<1>5. Distance(b) = Distance(o) + ccb[o].size
  BY <1>1, <1>2, <1>3, OffsetsAre DEF Distance
<1>6. Distance(b) \in Nat /\ Distance(o) < Distance(b)
  BY <1>1, <1>5
<1>7. QED
  BY <1>1, <1>4, <1>5, <1>6

\* Closer to the end by the size of what is between.
LEMMA CloserIs ==
    ASSUME NEW u \in Nat, NEW k \in Nat, NEW d \in Nat, NEW e \in Nat,
           d < e, e <= u, d + k = u
    PROVE  u - e \in Nat /\ u - e < k /\ e + (u - e) = u
  OBVIOUS

\* The walk along the headers.
LEMMA RestIs ==
    ASSUME RingInv
    PROVE  /\ Rest(ui32HostWriteOffset) = <<>>
           /\ Rest(ui32ReadOffset) = Walk[0]
           /\ \A o \in Offsets : IsHeader(o) => Rest(o) = Joined(ccb[o], Rest(Behind(o)))
<1>1. /\ Unread = Distance(ui32HostWriteOffset) /\ Unread \in 0..(ui32Size - 1)
      /\ ui32Size \in Nat \ {0} /\ ui32Size <= MaxSize /\ MaxSize \in Nat
  BY OffsetsAre, RingIs
<1>2. \A n \in 0..(ui32Size - 1) : n \in 0..(2 * MaxSize)
  BY <1>1
<1>3. Rest(ui32HostWriteOffset) = <<>>
  <2>1. Walk[Unread] = WalkStep(Walk, Unread)
    BY <1>1, <1>2, WalkIs
  <2>2. Unread >= Unread
    BY <1>1
  <2>3. QED
    BY <1>1, <2>1, <2>2 DEF Rest, WalkStep
<1>4. Rest(ui32ReadOffset) = Walk[0]
  <2>1. Distance(ui32ReadOffset) = 0
    BY OffsetsAre DEF Distance
  <2>2. QED
    BY <2>1 DEF Rest
<1>5. ASSUME NEW o \in Offsets, IsHeader(o)
      PROVE  Rest(o) = Joined(ccb[o], Rest(Behind(o)))
  <2>1. PICK b, n : b = Behind(o) /\ n = Distance(o)
    OBVIOUS
  <2>2. Distance(b) = n + ccb[o].size /\ n \in Nat
    BY <1>5, <2>1, BehindIs
  <2>3. /\ n \in 0..(ui32Size - 1) /\ ~(n >= Unread) /\ o \in 0..(ui32Size - 1)
    BY <1>1, <1>5, <2>1, <2>2 DEF IsHeader, Released, Offsets
  <2>4. PICK p \in 0..(ui32Size - 1) :
            p = (ui32ReadOffset + n) % ui32Size /\ Distance(p) = n /\ p \in Offsets
    BY <2>3, PlaceIs
  <2>5. p = o
    <3>1. /\ Distance(p) = Distance(o)
          /\ ui32Size \in Nat \ {0} /\ ui32ReadOffset \in 0..(ui32Size - 1)
      BY <2>1, <2>4, OffsetsAre
    <3>2. QED
      BY <2>3, <3>1 DEF Distance
  <2>6. Walk[n] = WalkStep(Walk, n)
    BY <1>2, <2>3, WalkIs
  <2>7. PICK h : h = ccb[o]
    OBVIOUS
  <2>8. Walk[n] = CASE h \in Commands           -> <<h>> \o Walk[n + h.size]
                    [] h \in Headers \ Commands -> Walk[n + h.size]
                    [] OTHER                    -> <<Garbage>>
    BY <2>3, <2>4, <2>5, <2>6, <2>7 DEF WalkStep
  <2>9. Rest(o) = Walk[n] /\ Rest(b) = Walk[n + h.size]
    BY <2>1, <2>2, <2>7 DEF Rest
  <2>10. h \in Headers
    BY <1>5, <2>7 DEF IsHeader
  <2>11. Rest(o) = Joined(h, Rest(b))
    BY <2>8, <2>9, <2>10 DEF Joined
  <2>12. QED
    BY <2>1, <2>7, <2>11
<1>6. QED
  BY <1>3, <1>4, <1>5

LEMMA JoinedIs ==
    ASSUME NEW h, NEW s \in Seq(Commands), NEW t \in Seq(Commands)
    PROVE  /\ Joined(h, s) \in Seq(Commands)
           /\ Joined(h, s \o t) = Joined(h, s) \o t
           /\ h \in Commands => Joined(h, s) # <<>> /\ Tail(Joined(h, s)) = s
<1>1. CASE h \in Commands
  <2>1. PICK x : x = <<h>>
    OBVIOUS
  <2>2. x \in Seq(Commands) /\ Len(x) = 1
    BY <1>1, <2>1
  <2>3. /\ Joined(h, s) = x \o s /\ Joined(h, s \o t) = x \o (s \o t)
    BY <1>1, <2>1 DEF Joined
  <2>4. /\ x \o s \in Seq(Commands)
        /\ (x \o s) \o t = x \o (s \o t)
        /\ Len(x \o s) = 1 + Len(s)
        /\ \A i \in 1..(1 + Len(s)) : (x \o s)[i] = IF i <= 1 THEN x[i] ELSE s[i - 1]
    <3>1. (x \o s) \o t = x \o (s \o t)
      BY <2>2, ConcatAssociative
    <3>2. /\ x \o s \in Seq(Commands) /\ Len(x \o s) = Len(x) + Len(s)
          /\ \A i \in 1..(Len(x) + Len(s)) :
                (x \o s)[i] = IF i <= Len(x) THEN x[i] ELSE s[i - Len(x)]
      BY <2>2, ConcatProperties
    <3>3. QED
      BY <2>2, <3>1, <3>2
  <2>5. /\ Len(s) \in Nat /\ DOMAIN s = 1..Len(s)
    BY LenProperties
  <2>6. x \o s # <<>>
    BY <2>4, <2>5, EmptySeq
  <2>7. /\ Tail(x \o s) \in Seq(Commands) /\ Len(Tail(x \o s)) = Len(s)
        /\ \A i \in 1..Len(s) : Tail(x \o s)[i] = (x \o s)[i + 1]
    BY <2>4, <2>5, <2>6, HeadTailProperties
  <2>8. \A i \in 1..Len(s) : Tail(x \o s)[i] = s[i]
    <3> SUFFICES ASSUME NEW i \in 1..Len(s) PROVE Tail(x \o s)[i] = s[i]
      OBVIOUS
    <3>1. i + 1 \in 1..(1 + Len(s)) /\ ~(i + 1 <= 1) /\ (i + 1) - 1 = i
      BY <2>5
    <3>2. (x \o s)[i + 1] = s[(i + 1) - 1]
      BY <2>4, <3>1
    <3>3. QED
      BY <2>7, <3>1, <3>2
  <2>9. Tail(x \o s) = s
    BY <2>7, <2>8, SeqEqual
  <2>10. QED
    BY <2>3, <2>4, <2>6, <2>9
<1>2. CASE h \notin Commands
  BY <1>2 DEF Joined
<1>3. QED
  BY <1>1, <1>2

\* From every boundary on, the walk is a sequence of commands.
LEMMA RestInSeq ==
    ASSUME RingInv, NEW o \in Offsets, Boundary(o)
    PROVE  Rest(o) \in Seq(Commands)
<1>1. PICK u : u = Distance(ui32HostWriteOffset)
  OBVIOUS
<1>2. u \in Nat /\ ui32HostWriteOffset \in Offsets
  BY <1>1, OffsetsAre
<1> DEFINE Wrong(x) == Boundary(x) /\ Rest(x) \notin Seq(Commands)
           T == {k \in Nat : \E x \in Offsets : Wrong(x) /\ Distance(x) + k = u}
<1>3. ASSUME NEW x \in Offsets, Boundary(x)
      PROVE  Distance(x) \in Nat /\ Distance(x) <= u
  <2>1. CASE x = ui32HostWriteOffset
    BY <1>1, <1>2, <2>1
  <2>2. CASE IsHeader(x)
    <3>1. PICK b : b = Behind(x)
      OBVIOUS
    <3>2. Distance(x) \in Nat /\ ccb[x].size \in Nat /\ Distance(x) + ccb[x].size <= u
      BY <1>1, <2>2, <3>1, HeaderAt
    <3>3. QED
      BY <1>2, <3>2
  <2>3. QED
    BY <1>3, <2>1, <2>2 DEF Boundary
<1>4. T = {}
  <2> SUFFICES ASSUME T # {} PROVE FALSE
    OBVIOUS
  <2>1. PICK k \in T : \A y \in T : ~(y < k)
    <3>1. T \subseteq Nat
      OBVIOUS
    <3> HIDE DEF T
    <3>2. QED
      BY <3>1, LeastNatural
  <2>2. PICK x \in Offsets : Wrong(x) /\ Distance(x) + k = u
    BY <2>1
  <2>3. x # ui32HostWriteOffset
    <3>1. <<>> \in Seq(Commands)
      BY EmptySeq
    <3>2. QED
      BY <2>2, <3>1, RestIs
  <2>4. IsHeader(x)
    BY <2>2, <2>3 DEF Boundary
  <2>5. PICK b : b = Behind(x)
    OBVIOUS
  <2>6. /\ b \in Offsets /\ Boundary(b) /\ Distance(b) <= u
        /\ Distance(x) \in Nat /\ Distance(b) \in Nat /\ Distance(x) < Distance(b)
    BY <1>1, <2>4, <2>5, BehindIs
  <2>7. Rest(b) \notin Seq(Commands)
    <3>1. Rest(x) = Joined(ccb[x], Rest(b))
      BY <2>4, <2>5, RestIs
    <3>2. QED
      BY <2>2, <3>1, JoinedIs
  <2>8. PICK j : j = u - Distance(b)
    OBVIOUS
  <2>9. j \in Nat /\ j < k /\ Distance(b) + j = u
    <3>1. k \in Nat /\ Distance(x) + k = u
      BY <2>1, <2>2
    <3>2. QED
      BY ONLY <1>2, <2>6, <2>8, <3>1, CloserIs
  <2>10. j \in T
    BY <2>6, <2>7, <2>9
  <2>11. QED
    BY <2>1, <2>9, <2>10
<1>5. QED
  <2>1. PICK k : k = u - Distance(o)
    OBVIOUS
  <2>2. k \in Nat /\ Distance(o) + k = u
    BY <1>2, <1>3, <2>1
  <2>3. k \notin T
    BY <1>4
  <2>4. QED
    BY <2>2, <2>3

\* The same for rigid offsets, and so for the next state.
RestFacts ==
    /\ \A w : w = ui32HostWriteOffset => Rest(w) = <<>>
    /\ \A r : r = ui32ReadOffset => Rest(r) = Walk[0]
    /\ \A o, b \in Offsets :
          IsHeader(o) /\ b = Behind(o) => Rest(o) = Joined(ccb[o], Rest(b))
    /\ \A o \in Offsets : Boundary(o) => Rest(o) \in Seq(Commands)

LEMMA RestFactsHold == RingInv => RestFacts
  BY RestIs, RestInSeq DEF RestFacts

LEMMA RestFactsNext == RingInv' => RestFacts'
  BY RestFactsHold, PTL

\* When the headers in a part of the ring stay and keep what is behind them in
\* that part, what the walk gains at the former write offset it gains at all of
\* them.
LEMMA RestFollows ==
    ASSUME RingInv, RingInv', NEW S \in Seq(Commands), NEW Q \in SUBSET Offsets,
           NEW w, w = ui32HostWriteOffset, Rest(w)' = S,
           \A o \in Q : IsHeader(o) =>
               /\ IsHeader(o)' /\ ccb'[o] = ccb[o]
               /\ Behind(o)' = Behind(o) /\ Behind(o) \in Q,
           NEW q \in Q, Boundary(q)
    PROVE  Rest(q)' = Rest(q) \o S
<1>1. PICK u : u = Distance(w)
  OBVIOUS
<1>2. u \in Nat /\ w \in Offsets
  BY <1>1, OffsetsAre
<1>3. RestFacts /\ RestFacts'
  BY RestFactsHold, RestFactsNext
<1> DEFINE Wrong(x) == Boundary(x) /\ ~(Rest(x)' = Rest(x) \o S)
           T == {k \in Nat : \E x \in Q : Wrong(x) /\ Distance(x) + k = u}
<1>4. ASSUME NEW x \in Q, Boundary(x)
      PROVE  Distance(x) \in Nat /\ Distance(x) <= u
  <2>1. CASE x = w
    BY <1>1, <1>2, <2>1
  <2>2. CASE IsHeader(x)
    <3>1. Distance(x) \in Nat /\ ccb[x].size \in Nat /\ Distance(x) + ccb[x].size <= u
      BY <1>1, <2>2, HeaderAt
    <3>2. QED
      BY <1>2, <3>1
  <2>3. QED
    BY <1>4, <2>1, <2>2 DEF Boundary
<1>5. T = {}
  <2> SUFFICES ASSUME T # {} PROVE FALSE
    OBVIOUS
  <2>1. PICK k \in T : \A y \in T : ~(y < k)
    <3>1. T \subseteq Nat
      OBVIOUS
    <3> HIDE DEF T
    <3>2. QED
      BY <3>1, LeastNatural
  <2>2. PICK x \in Q : Wrong(x) /\ Distance(x) + k = u
    BY <2>1
  <2>3. x # w
    <3>1. ASSUME x = w PROVE FALSE
      <4>1. Rest(x) = <<>> /\ Rest(x)' = S
        BY <1>3, <3>1 DEF RestFacts
      <4>2. <<>> \o S = S
        BY ConcatEmptySeq
      <4>3. QED
        BY <2>2, <4>1, <4>2
    <3>2. QED
      BY <3>1
  <2>4. IsHeader(x) /\ x \in Offsets
    BY <2>2, <2>3 DEF Boundary
  <2>5. PICK b : b = Behind(x)
    OBVIOUS
  <2>6. /\ b \in Offsets /\ Boundary(b) /\ Distance(b) <= u
        /\ Distance(x) \in Nat /\ Distance(b) \in Nat /\ Distance(x) < Distance(b)
    BY <1>1, <2>4, <2>5, BehindIs
  <2>7. /\ IsHeader(x)' /\ ccb'[x] = ccb[x] /\ b = Behind(x)' /\ b \in Q
    BY <2>4, <2>5
  <2>8. /\ Rest(x) = Joined(ccb[x], Rest(b))
        /\ Rest(x)' = Joined(ccb[x], Rest(b)')
        /\ Rest(b) \in Seq(Commands)
    <3>1. \A o, c \in Offsets :
              IsHeader(o)' /\ c = Behind(o)' => Rest(o)' = Joined(ccb'[o], Rest(c)')
      BY <1>3 DEF RestFacts, Joined
    <3>2. QED
      BY <1>3, <2>4, <2>5, <2>6, <2>7, <3>1 DEF RestFacts
  <2>9. ~(Rest(b)' = Rest(b) \o S)
    <3>1. ASSUME Rest(b)' = Rest(b) \o S PROVE FALSE
      <4>1. Joined(ccb[x], Rest(b) \o S) = Joined(ccb[x], Rest(b)) \o S
        BY <2>8, JoinedIs
      <4>2. QED
        BY <2>2, <2>8, <3>1, <4>1
    <3>2. QED
      BY <3>1
  <2>10. PICK j : j = u - Distance(b)
    OBVIOUS
  <2>11. j \in Nat /\ j < k /\ Distance(b) + j = u
    <3>1. k \in Nat /\ Distance(x) + k = u
      BY <2>1, <2>2
    <3>2. QED
      BY ONLY <1>2, <2>6, <2>10, <3>1, CloserIs
  <2>12. j \in T
    BY <2>6, <2>7, <2>9, <2>11
  <2>13. QED
    BY <2>1, <2>11, <2>12
<1>6. QED
  <2>1. PICK k : k = u - Distance(q)
    OBVIOUS
  <2>2. k \in Nat /\ Distance(q) + k = u
    BY <1>2, <1>4, <2>1
  <2>3. k \notin T
    BY <1>5
  <2>4. QED
    BY <2>2, <2>3

\* Steps that leave the offsets and what is released alone do not change the walk.
LEMMA WalkKept ==
    ASSUME RingInv, RingInv', UNCHANGED <<ui32ReadOffset, ui32HostWriteOffset, ui32Size>>,
           \A o \in Offsets : Released(o) => ccb'[o] = ccb[o]
    PROVE  Walk[0]' = Walk[0]
<1>1. PICK w, r : w = ui32HostWriteOffset /\ r = ui32ReadOffset
  OBVIOUS
<1>2. RestFacts /\ RestFacts'
  BY RestFactsHold, RestFactsNext
<1>3. w \in Offsets /\ r \in Offsets /\ Boundary(r)
  BY <1>1, OffsetsAre DEF RingInv, Whole
<1>4. /\ Rest(w)' = <<>> /\ Rest(r) = Walk[0] /\ Rest(r)' = Walk[0]'
      /\ Rest(r) \in Seq(Commands)
  BY <1>1, <1>2, <1>3 DEF RestFacts
<1>5. ASSUME NEW o \in Offsets, IsHeader(o)
      PROVE  /\ IsHeader(o)' /\ ccb'[o] = ccb[o]
             /\ Behind(o)' = Behind(o) /\ Behind(o) \in Offsets
  <2>1. ccb'[o] = ccb[o]
    BY <1>5 DEF IsHeader
  <2>2. Released(o)' <=> Released(o)
    BY DEF Released, Distance
  <2>3. PICK b : b = Behind(o)
    OBVIOUS
  <2>4. b \in Offsets
    BY <1>5, <2>3, BehindIs
  <2>5. Behind(o)' = Behind(o)
    BY <2>1 DEF Behind
  <2>6. QED
    BY <1>5, <2>1, <2>2, <2>3, <2>4, <2>5 DEF IsHeader
<1>6. <<>> \in Seq(Commands)
  BY EmptySeq
<1>7. PICK Q : Q = Offsets
  OBVIOUS
<1>8. Q \in SUBSET Offsets /\ r \in Q
  BY <1>3, <1>7
<1>9. \A o \in Q : IsHeader(o) =>
          /\ IsHeader(o)' /\ ccb'[o] = ccb[o]
          /\ Behind(o)' = Behind(o) /\ Behind(o) \in Q
  BY <1>5, <1>7
<1>10. Rest(r)' = Rest(r) \o <<>>
  BY <1>1, <1>3, <1>4, <1>6, <1>8, <1>9, RestFollows
<1>11. QED
  BY <1>4, <1>10, ConcatEmptySeq

\* Neither does growing, as nothing released wraps then.
LEMMA GrowWalk ==
    ASSUME RingInv, RingInv', Grow PROVE Walk[0]' = Walk[0]
<1>1. /\ UNCHANGED <<ccb, ui32HostWriteOffset, ui32ReadOffset>>
      /\ ui32Size' = 2 * ui32Size
      /\ ui32ReadOffset <= ui32HostWriteOffset
      /\ \A o : Boundary(o) => o \in Nat /\ ui32ReadOffset <= o
      /\ \A o \in Offsets : IsHeader(o)' <=> IsHeader(o)
  BY GrowIs
<1>2. PICK w, r, Q : w = ui32HostWriteOffset /\ r = ui32ReadOffset /\ Q = Offsets
  OBVIOUS
<1>3. RestFacts /\ RestFacts'
  BY RestFactsHold, RestFactsNext
<1>4. w \in Offsets /\ r \in Offsets /\ Boundary(r)
  BY <1>2, OffsetsAre DEF RingInv, Whole
<1>5. /\ Rest(w)' = <<>> /\ Rest(r) = Walk[0] /\ Rest(r)' = Walk[0]'
      /\ Rest(r) \in Seq(Commands)
  BY <1>1, <1>2, <1>3, <1>4 DEF RestFacts
<1>6. ASSUME NEW o \in Offsets, IsHeader(o)
      PROVE  /\ IsHeader(o)' /\ ccb'[o] = ccb[o]
             /\ Behind(o)' = Behind(o) /\ Behind(o) \in Offsets
  <2>1. PICK b, m : b = Behind(o) /\ m = ccb[o].size
    OBVIOUS
  <2>2. /\ b \in Offsets
        /\ m \in Nat \ {0} /\ Distance(o) + m <= Distance(ui32HostWriteOffset)
    BY <1>6, <2>1, BehindIs, HeaderAt
  <2>3. o \in Nat /\ ui32ReadOffset <= o
    BY <1>1, <1>6 DEF Boundary
  <2>4. o + m < ui32Size
    BY <1>1, <2>2, <2>3, OffsetsAre DEF Distance
  <2>5. Behind(o) = o + m /\ Behind(o)' = o + m
    <3>1. o + m # ui32Size /\ o + m # 2 * ui32Size
      BY <2>2, <2>3, <2>4, OffsetsAre
    <3>2. QED
      BY <1>1, <2>1, <3>1 DEF Behind
  <2>6. QED
    BY <1>1, <1>6, <2>1, <2>2, <2>5
<1>7. <<>> \in Seq(Commands)
  BY EmptySeq
<1>8. Q \in SUBSET Offsets /\ r \in Q
  BY <1>2, <1>4
<1>9. \A o \in Q : IsHeader(o) =>
          /\ IsHeader(o)' /\ ccb'[o] = ccb[o]
          /\ Behind(o)' = Behind(o) /\ Behind(o) \in Q
  BY <1>2, <1>6
<1>10. Rest(r)' = Rest(r) \o <<>>
  BY <1>2, <1>4, <1>5, <1>7, <1>8, <1>9, RestFollows
<1>11. QED
  BY <1>5, <1>10, ConcatEmptySeq

\* Padding is no command.
LEMMA PaddingNoCommand == \A n : Padding(n) \notin Commands
<1>1. \A h \in Commands : h.eCmdType = "COMMAND"
  BY DEF Commands, Command
<1>2. \A n : Padding(n).eCmdType = "PADDING"
  BY DEF Padding
<1>3. QED
  BY <1>1, <1>2

\* The release adds the caller's command, and nothing for the padding.
LEMMA ReleaseWalk ==
    ASSUME RingInv, RingInv', Release
    PROVE  cmd \in Commands /\ Walk[0]' = Append(Walk[0], cmd)
<1>1. PICK a, w, r, Q : a = Start /\ w = ui32HostWriteOffset /\ r = ui32ReadOffset
                        /\ Q = Offsets
  OBVIOUS
<1>2. /\ pc = "release"
      /\ UNCHANGED <<ccb, ui32Size, ui32ReadOffset>>
      /\ ui32HostWriteOffset' = a + cmd.size
      /\ a \in Offsets /\ w \in Offsets /\ a + cmd.size < ui32Size
      /\ \A o : Distance(o)' = Distance(o)
      /\ Distance(a) + cmd.size = Distance(a + cmd.size)
      /\ Distance(w) \in Nat /\ Distance(a) \in Nat
      /\ Distance(w) <= Distance(a)
      /\ cmd.size \in Nat /\ cmd.size > PaddingSize
      /\ ccb[a] = cmd
  BY <1>1, ReleaseIs
<1>3. /\ cmd \in Commands /\ PaddingSize \in Nat /\ ui32Size \in Nat
      /\ r \in Offsets /\ Boundary(r)
  BY <1>1, <1>2, OffsetsAre DEF RingInv, Caller, Whole
<1>4. PICK c, S : c = cmd /\ S = <<c>>
  OBVIOUS
<1>5. PICK e : e = a + c.size
  OBVIOUS
<1>6. RestFacts /\ RestFacts'
  BY RestFactsHold, RestFactsNext
<1>7. /\ \A o : Boundary(o) => Boundary(o)'
      /\ Boundary(a)'
  BY <1>1, ReleasedHeaders
<1>8. /\ Distance(e) > Distance(w) /\ Distance(e) > Distance(a)
      /\ e = ui32HostWriteOffset' /\ e < ui32Size /\ e \in Offsets
  <2>1. e = ui32HostWriteOffset' /\ e < ui32Size /\ Distance(e) = Distance(a) + c.size
    BY <1>2, <1>4, <1>5
  <2>2. c.size \in Nat /\ c.size > 0
    BY <1>2, <1>3, <1>4
  <2>3. Distance(e) > Distance(w) /\ Distance(e) > Distance(a)
    BY <1>2, <2>1, <2>2
  <2>4. e \in Offsets
    BY <1>2, <1>5, <2>1, <2>2, OffsetsAre DEF Offsets
  <2>5. QED
    BY <2>1, <2>3, <2>4
<1>9. IsHeader(a)' /\ IsHeader(w)'
  <2>1. a # e /\ w # e
    BY <1>2, <1>8
  <2>2. Boundary(w)'
    BY <1>1, <1>7 DEF Boundary
  <2>3. QED
    BY <1>7, <1>8, <2>1, <2>2 DEF Boundary
<1>10. ASSUME NEW o \in Offsets, IsHeader(o)
       PROVE  /\ IsHeader(o)' /\ ccb'[o] = ccb[o]
              /\ Behind(o)' = Behind(o) /\ Behind(o) \in Offsets
  <2>1. PICK b : b = Behind(o)
    OBVIOUS
  <2>2. b \in Offsets /\ Distance(o) \in Nat
    BY <1>10, <2>1, BehindIs
  <2>3. Distance(o) < Distance(w)
    BY <1>1, <1>10 DEF IsHeader, Released
  <2>4. Boundary(o)' /\ o # e
    BY <1>2, <1>7, <1>8, <1>10, <2>2, <2>3 DEF Boundary
  <2>5. IsHeader(o)'
    BY <1>8, <2>4 DEF Boundary
  <2>6. Behind(o)' = Behind(o)
    BY <1>2 DEF Behind
  <2>7. QED
    BY <1>2, <2>1, <2>2, <2>5, <2>6
<1>11. S \in Seq(Commands) /\ S \o <<>> = S
  <2>1. S \in Seq(Commands)
    BY <1>3, <1>4
  <2>2. QED
    BY <2>1, ConcatEmptySeq
<1>12. Rest(a)' = S
  <2>1. Behind(a)' = e
    BY <1>2, <1>4, <1>5, <1>8 DEF Behind
  <2>2. Rest(e)' = <<>> /\ Rest(a)' = Joined(ccb'[a], Rest(e)')
    BY <1>2, <1>6, <1>8, <1>9, <2>1 DEF RestFacts, Joined
  <2>3. QED
    BY <1>2, <1>3, <1>4, <1>11, <2>2 DEF Joined
<1>13. Rest(w)' = S
  <2>1. CASE FitsBeforeEnd(cmd.size)
    BY <1>1, <1>12, <2>1 DEF Start
  <2>2. CASE ~FitsBeforeEnd(cmd.size)
    <3>1. a = 0 /\ w + ccb[w].size = ui32Size
      BY <1>1, <2>2, PaddingIs
    <3>2. ccb[w] = Padding(Remain)
      BY <1>1, <1>2, <2>2 DEF RingInv, Caller, HasRoom
    <3>3. Behind(w)' = a
      BY <1>2, <3>1 DEF Behind
    <3>4. Rest(w)' = Joined(ccb'[w], Rest(a)')
      BY <1>2, <1>6, <1>9, <3>3 DEF RestFacts, Joined
    <3>5. QED
      BY <1>2, <1>12, <3>2, <3>4, PaddingNoCommand DEF Joined
  <2>3. QED
    BY <2>1, <2>2
<1>14. Rest(r)' = Rest(r) \o S
  <2>1. \A o \in Q : IsHeader(o) =>
            /\ IsHeader(o)' /\ ccb'[o] = ccb[o]
            /\ Behind(o)' = Behind(o) /\ Behind(o) \in Q
    BY <1>1, <1>10
  <2>2. Q \in SUBSET Offsets /\ r \in Q
    BY <1>1, <1>3
  <2>3. QED
    BY <1>1, <1>3, <1>11, <1>13, <2>1, <2>2, RestFollows
<1>15. /\ Rest(r) = Walk[0] /\ Rest(r)' = Walk[0]' /\ Rest(r) \in Seq(Commands)
  BY <1>1, <1>2, <1>3, <1>6 DEF RestFacts
<1>16. Append(Rest(r), c) = Rest(r) \o <<c>>
  BY <1>3, <1>4, <1>15, AppendIsConcat
<1>17. QED
  BY <1>3, <1>4, <1>14, <1>15, <1>16

\* The firmware takes the oldest command off, or skips padding.
LEMMA ExecuteWalk ==
    ASSUME RingInv, RingInv', FwExecute
    PROVE  \/ Walk[0]' = Walk[0]
           \/ Walk[0] # <<>> /\ Walk[0]' = Tail(Walk[0])
<1>1. PICK r, w : r = ui32ReadOffset /\ w = ui32HostWriteOffset
  OBVIOUS
<1>2. PICK n, b : n = ccb[r].size /\ b = Behind(r)
  OBVIOUS
<1>3. /\ IsHeader(r) /\ n \in Nat \ {0} /\ n <= Distance(w)
      /\ \A x : Boundary(x) /\ x # r => x \in 0..(ui32Size - 1) /\ n <= Distance(x)
  BY <1>1, <1>2, ExecuteIs
<1>4. /\ UNCHANGED <<ui32HostWriteOffset, ui32Size>>
      /\ ui32ReadOffset' = b /\ b # r
  BY <1>1, <1>2, ExecutedIs
<1>5. /\ \A o \in Offsets : IsHeader(o)' <=> IsHeader(o) /\ o # r
      /\ \A o \in Offsets : IsHeader(o)' => ccb'[o] = ccb[o]
  BY <1>1, <1>2, NearerIs
<1>6. /\ r \in Offsets /\ w \in Offsets /\ Distance(r) = 0
      /\ b \in Offsets /\ Boundary(b)
  <2>1. r \in Offsets /\ w \in Offsets /\ Distance(r) = 0
    BY <1>1, OffsetsAre DEF Distance
  <2>2. QED
    BY <1>2, <1>3, <2>1, BehindIs
<1>7. PICK Q : Q = Offsets \ {r}
  OBVIOUS
<1>8. ASSUME NEW o \in Q, IsHeader(o)
      PROVE  /\ IsHeader(o)' /\ ccb'[o] = ccb[o]
             /\ Behind(o)' = Behind(o) /\ Behind(o) \in Q
  <2>1. o \in Offsets /\ o # r
    BY <1>7
  <2>2. IsHeader(o)' /\ ccb'[o] = ccb[o]
    BY <1>5, <1>8, <2>1
  <2>3. PICK x : x = Behind(o)
    OBVIOUS
  <2>4. /\ x \in Offsets /\ Distance(o) \in Nat /\ ccb[o].size \in Nat \ {0}
        /\ Distance(x) = Distance(o) + ccb[o].size
    BY <1>8, <2>1, <2>3, BehindIs
  <2>5. x # r
    BY <1>6, <2>4
  <2>6. Behind(o)' = Behind(o)
    BY <1>4, <2>2 DEF Behind
  <2>7. QED
    BY <1>7, <2>2, <2>3, <2>4, <2>5, <2>6
<1>9. RestFacts /\ RestFacts'
  BY RestFactsHold, RestFactsNext
<1>10. <<>> \in Seq(Commands)
  BY EmptySeq
<1>11. Rest(b)' = Rest(b)
  <2>1. Rest(w)' = <<>>
    BY <1>1, <1>4, <1>9 DEF RestFacts
  <2>2. Q \in SUBSET Offsets /\ b \in Q
    BY <1>4, <1>6, <1>7
  <2>3. Rest(b)' = Rest(b) \o <<>>
    BY <1>1, <1>6, <1>8, <1>10, <2>1, <2>2, RestFollows
  <2>4. Rest(b) \in Seq(Commands)
    BY <1>6, <1>9 DEF RestFacts
  <2>5. QED
    BY <2>3, <2>4, ConcatEmptySeq
<1>12. Rest(b)' = Walk[0]'
  BY <1>4, <1>9 DEF RestFacts
<1>13. /\ Walk[0] = Joined(ccb[r], Rest(b))
       /\ Rest(b) \in Seq(Commands)
  BY <1>1, <1>2, <1>3, <1>6, <1>9 DEF RestFacts
<1>14. CASE ccb[r] \in Commands
  <2>1. Joined(ccb[r], Rest(b)) # <<>> /\ Tail(Joined(ccb[r], Rest(b))) = Rest(b)
    BY <1>10, <1>13, <1>14, JoinedIs
  <2>2. QED
    BY ONLY <1>11, <1>12, <1>13, <2>1
<1>15. CASE ccb[r] \notin Commands
  BY <1>11, <1>12, <1>13, <1>15 DEF Joined
<1>16. QED
  BY <1>14, <1>15

\* Steps of the caller before it releases, and kicks.
LEMMA OtherWalk ==
    ASSUME RingInv, RingInv',
           \/ UNCHANGED <<ccb, ui32ReadOffset, ui32HostWriteOffset, ui32Size>>
           \/ AcquireWrapped \/ Fill \/ Abandon
    PROVE  Walk[0]' = Walk[0]
<1>1. CASE UNCHANGED <<ccb, ui32ReadOffset, ui32HostWriteOffset, ui32Size>>
  BY <1>1, WalkKept
<1>2. ccb \in [Offsets -> Headers \cup {Garbage, Body}]
  BY DEF RingInv, TypeOK
<1>3. CASE AcquireWrapped
  <2>1. /\ ccb' = Written(ccb, ui32HostWriteOffset, Padding(Remain))
        /\ UNCHANGED <<ui32HostWriteOffset, ui32Size, ui32ReadOffset>>
        /\ pc = "decide" /\ ~FitsBeforeEnd(cmd.size) /\ free > Remain + cmd.size
    BY <1>3 DEF AcquireWrapped, MayWrap, hostVars, fwVars
  <2>2. Remain + cmd.size < FreeBytes
    <3>1. free \in Nat /\ free <= FreeBytes
      BY <2>1, OffsetsAre DEF RingInv, TypeOK, Caller, Offsets
    <3>2. QED
      BY <2>1, <3>1, CommandIs, OffsetsAre
  <2>3. /\ Padding(Remain) \in Headers
        /\ \A o \in Offsets : Released(o) => o < ui32HostWriteOffset
    BY <2>1, <2>2, WrapIs
  <2>4. \A o \in Offsets : o < ui32HostWriteOffset => ccb'[o] = ccb[o]
    BY <1>2, <2>1, <2>3, OffsetsAre, WrittenIs
  <2>5. QED
    BY <2>1, <2>3, <2>4, WalkKept
<1>4. CASE Fill
  <2>1. /\ ccb' = Written(ccb, Start, cmd) /\ pc = "fill"
        /\ UNCHANGED <<ui32HostWriteOffset, ui32Size, ui32ReadOffset>>
    BY <1>4 DEF Fill, hostVars, fwVars
  <2>2. /\ Start \in Offsets /\ cmd \in Headers
        /\ \A o \in Offsets : Released(o) => o < Start \/ o >= Start + cmd.size
    BY <2>1, RoomIs, CommandIs
  <2>3. \A o \in Offsets : o < Start \/ o >= Start + cmd.size => ccb'[o] = ccb[o]
    BY <1>2, <2>1, <2>2, WrittenIs
  <2>4. QED
    BY <2>1, <2>2, <2>3, WalkKept
<1>5. CASE Abandon
  <2>1. /\ ccb' = Discarded
        /\ UNCHANGED <<ui32HostWriteOffset, ui32Size, ui32ReadOffset>>
    BY <1>5 DEF Abandon, Done, hostVars, fwVars
  <2>2. \A o \in Offsets : Released(o) => ccb'[o] = ccb[o]
    <3> SUFFICES ASSUME NEW o \in Offsets, Released(o) PROVE ccb'[o] = ccb[o]
      OBVIOUS
    <3>1. o \in 0..(ui32Size - 1)
      BY OffsetsAre DEF Offsets, Released
    <3>2. /\ (o + ui32Size - ui32ReadOffset) % ui32Size = Distance(o)
          /\ Unread = Distance(ui32HostWriteOffset)
      BY <3>1, OffsetsAre, RingIs
    <3>3. QED
      BY <2>1, <3>2 DEF Discarded, Released
  <2>3. QED
    BY <2>1, <2>2, WalkKept
<1>6. QED
  BY <1>1, <1>3, <1>4, <1>5

\* Every step executes the oldest command, accepts one, or leaves the queue alone.
LEMMA FifoStep ==
    RingInv /\ RingInv' /\ [Next]_vars => [Fifo!Next]_(Walk[0])
<1> SUFFICES ASSUME RingInv, RingInv', [Next]_vars
             PROVE  \/ Walk[0]' = Walk[0]
                    \/ Walk[0] # <<>> /\ Walk[0]' = Tail(Walk[0])
                    \/ \E c \in Commands : Walk[0]' = Append(Walk[0], c)
  BY DEF Fifo!Next, Fifo!Execute, Fifo!Accept
<1>1. CASE \/ \E c \in Commands : Submit(c)
           \/ Sample \/ AcquireHere \/ AcquireElse \/ GrowFails \/ TryAgain
           \/ GiveUp \/ Kick \/ KickFails \/ FwKick \/ UNCHANGED vars
  <2>1. UNCHANGED <<ccb, ui32ReadOffset, ui32HostWriteOffset, ui32Size>>
    BY <1>1 DEF Submit, Sample, AcquireHere, AcquireElse, GrowFails, TryAgain, Kick,
                GiveUp, KickFails, FwKick, Done, vars, hostVars, fwVars
  <2>2. QED
    BY <2>1, OtherWalk
<1>2. CASE AcquireWrapped \/ Fill \/ Abandon
  BY <1>2, OtherWalk
<1>3. CASE Grow
  BY <1>3, GrowWalk
<1>4. CASE Release
  BY <1>4, ReleaseWalk
<1>5. CASE FwExecute
  BY <1>5, ExecuteWalk
<1>6. QED
  BY <1>1, <1>2, <1>3, <1>4, <1>5 DEF Next

\* The commands released and not executed form a queue: whatever the ring does
\* to keep them whole, the firmware executes each once and in the order in
\* which they were released (rgxccb.c:1104).
THEOREM CommandsInOrder == Spec => FifoSpec
<1>1. Init => Walk[0] = <<>>
  <2> SUFFICES ASSUME Init PROVE Walk[0] = <<>>
    OBVIOUS
  <2>1. RingInv
    BY RingInit
  <2>2. PICK r : r = ui32ReadOffset
    OBVIOUS
  <2>3. r = ui32HostWriteOffset
    BY <2>2 DEF Init
  <2>4. QED
    BY <2>1, <2>2, <2>3, RestFactsHold DEF RestFacts
<1>2. Init => Fifo!Init
  BY <1>1 DEF Fifo!Init
<1>3. QED
  BY <1>2, FifoStep, RingInvariant, PTL DEF Spec, FifoSpec, Fifo!Spec

=============================================================================
