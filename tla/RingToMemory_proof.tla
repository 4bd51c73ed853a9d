------------------------- MODULE RingToMemory_proof -------------------------
(* The way of an item through ring and memory, and what a reader is given of it meanwhile, *)
(* for every size of ring, memory, block and item. What RingBuffer_proof shows of the ring *)
(* is used through an instance.                                                            *)
EXTENDS RingToMemory, TLAPS

RingProof ==
  INSTANCE RingBuffer_proof WITH Size <- RingSize, writer <- ringWriter, reader <- task

-----------------------------------------------------------------------------
(* The ring as a part of this program.                                     *)

\* Its inductive invariant.
RingInv == RingProof!IInv

LEMMA RingSizes == RingProof!RingAssumption
BY RingToMemoryAssumption DEF RingProof!RingAssumption

\* The actions of the two instances are the same.
LEMMA HostSame == Ring!Host => RingProof!Host
BY DEF Ring!Host, RingProof!Host, Ring!WriteBegin, RingProof!WriteBegin, Ring!WriteSlot,
  RingProof!WriteSlot, Ring!StoreCurrent, RingProof!StoreCurrent, Ring!Notify,
  RingProof!Notify, Ring!Overwrite, RingProof!Overwrite, Ring!Full, RingProof!Full,
  Ring!Advance, RingProof!Advance, Ring!hostVars, Ring!taskVars, RingProof!hostVars,
  RingProof!taskVars

LEMMA TaskSame == Ring!Task => RingProof!Task
BY DEF Ring!Task, RingProof!Task, Ring!LoopTop, RingProof!LoopTop, Ring!Poll, RingProof!Poll,
  Ring!Snapshot, RingProof!Snapshot, Ring!Step, RingProof!Step, Ring!Transfer,
  RingProof!Transfer, Ring!StoreThread, RingProof!StoreThread, Ring!Advance,
  RingProof!Advance, Ring!hostVars, RingProof!hostVars

LEMMA StopSame == Ring!RequestStop => RingProof!RequestStop
BY DEF Ring!RequestStop, RingProof!RequestStop, Ring!hostVars, Ring!taskVars,
  RingProof!hostVars, RingProof!taskVars

LEMMA RingSteps ==
  ASSUME RingInv, Ring!Host \/ Ring!Task \/ Ring!RequestStop PROVE RingInv'
<1>1. CASE Ring!Host
  BY <1>1, RingSizes, HostSame, RingProof!HostInv DEF RingInv
<1>2. CASE Ring!Task
  BY <1>2, RingSizes, TaskSame, RingProof!TaskInv DEF RingInv
<1>3. CASE Ring!RequestStop
  BY <1>3, RingSizes, StopSame, RingProof!OtherInv DEF RingInv
<1> QED BY <1>1, <1>2, <1>3

\* The rest of the program leaves the ring alone, but it may end it.
LEMMA RingStutters ==
  ASSUME RingInv, UNCHANGED ringVars, aborted' \in BOOLEAN PROVE RingInv'
<1> USE DEF ringVars, RingInv, RingProof!IInv
<1>1. RingProof!TypeOK'
  BY DEF RingProof!TypeOK
<1>2. (RingProof!Distance /\ RingProof!Pass /\ RingProof!Contents)'
  BY DEF RingProof!Distance, RingProof!Pass, RingProof!Contents, RingProof!Stored,
     RingProof!After, RingProof!Advance, RingProof!Reading, RingProof!Slots
<1>3. (RingProof!Writing /\ RingProof!Told /\ RingProof!NoLostWakeup /\ RingProof!Fifo)'
  BY DEF RingProof!Writing, RingProof!Told, RingProof!Reading, RingProof!NoLostWakeup,
     RingProof!Unread, RingProof!Fifo
<1> QED BY <1>1, <1>2, <1>3

LEMMA RingInitially == Init => RingInv
<1>1. Init => RingProof!Init
  BY DEF Init, Ring!Init, RingProof!Init, Ring!Slots, RingProof!Slots
<1> QED BY <1>1, RingSizes, RingProof!InitInv DEF RingInv

\* While the task is in transfer() it is at the next item.
LEMMA AtItem ==
  ASSUME RingInv, task = "transfer" PROVE slot[rThread] = Len(received) + 1
<1>1. RingProof!Stored = Len(received)
  BY DEF RingProof!Stored, RingInv, RingProof!IInv, RingProof!TypeOK
<1> QED BY <1>1, RingSizes, RingProof!NextUnread DEF RingInv

LEMMA RingTypes ==
  ASSUME RingInv PROVE Ring!TypeOK /\ received \in Seq(Nat) /\ Len(received) \in Nat
<1>1. Ring!TypeOK
  BY DEF RingInv, RingProof!IInv, RingProof!TypeOK, Ring!TypeOK, Ring!Slots, RingProof!Slots
<1> QED BY <1>1 DEF Ring!TypeOK

-----------------------------------------------------------------------------
(* The inductive invariant.                                                *)

\* Where the item the task reads next has its place in the memory.
First == Blink * Len(received)

\* The samples that are in the memory.
Done == IF phase \in {"copy", "advance"} THEN bkStart + pos ELSE bkStart

Types ==
  /\ MemTypeOK
  /\ phase \in {"idle", "extend", "release", "copy", "advance", "last", "check"}
  /\ pos \in 0 .. Blink

\* write() runs inside transfer(); the cursors tell how far it has got, and the memory holds
\* the items the task has read and what is copied of this one.
WriteInv ==
  /\ phase # "idle" => task = "transfer" /\ First + Blink <= Size
  /\ bkStart = IF phase \in {"last", "check"} THEN First + Blink ELSE First
  /\ bkEnd = IF phase \in {"idle", "extend"} THEN First ELSE First + Blink
  /\ phase = "advance" => pos = Blink
  /\ \A c \in Cells : memory[c] = IF c < Done THEN c + 1 ELSE 0

\* Place i of the block has been read.
Read(i) == IF reader = "copy" THEN i > rb ELSE i >= rb

\* A block is being read, or waits to be taken.
Reading == reader # "idle" \/ acknowledge

\* The request, the reading and the answer exclude each other, and the host leaves the offset
\* alone meanwhile.
HandshakeInv ==
  /\ updated => ~Reading
  /\ acknowledge => reader = "idle" /\ rb = 0
  /\ host = "start" => ~updated /\ ~Reading
  /\ Reading => offset = rOffset
  /\ known <= bkStart

\* The locals of read().
LocalInv ==
  /\ reader \in {"loadEnd", "loadStart"} => rb > 0
  /\ reader = "copy" => rb < Block
  /\ reader \in {"loadStart", "copy"} => rEnd <= bkEnd
  /\ reader = "copy" => rOffset + rb < bkStart \/ rOffset + rb > rEnd

\* A place that was read, against the writer and against the places above it. Only the
\* cursors say that a sample is busy: during most of a write the flag is down.
PlaceInv(i) ==
  /\ randomread[i] \in {0, Busy, rOffset + i + 1}
  /\ randomread[i] > 0 => rOffset + i < Done
  /\ rOffset + i < known => randomread[i] > 0
  /\ randomread[i] = Busy =>
       /\ rOffset + i <= bkEnd
       /\ reader \in {"loadStart", "copy"} => rOffset + i <= rEnd

PairInv(i, j) ==
  /\ randomread[j] # 0 => randomread[i] # 0
  /\ randomread[j] > 0 /\ i + Blink <= j => randomread[i] > 0
  /\ randomread[i] = Busy /\ randomread[j] = Busy => j - i <= Blink

BlockInv ==
  Reading =>
    /\ \A i \in Places : Read(i) => PlaceInv(i)
    /\ \A i, j \in Places : Read(i) /\ i < j => PairInv(i, j)

IInv == Types /\ RingInv /\ WriteInv /\ HandshakeInv /\ LocalInv /\ BlockInv

-----------------------------------------------------------------------------
(* The steps.                                                              *)

USE ReaderAssumption DEF Cells, Places, Busy

\* The next item begins where this one ends.
LEMMA Products ==
  \A n \in Nat : Blink * n \in Nat /\ Blink * (n + 1) = Blink * n + Blink /\ n * Blink = Blink * n
OBVIOUS

LEMMA FirstType == RingInv => First \in Nat
BY Products, RingTypes DEF First

\* Nothing is written and nothing is read.
LEMMA InitInv == Init => IInv
<1> SUFFICES ASSUME Init PROVE IInv
  OBVIOUS
<1>0. Len(received) = 0 /\ RingInv
  BY RingInitially DEF Init, Ring!Init
<1> USE DEF Init, MemInit
<1>1. Types
  <2>1. BlockTypeOK
    <3>1. memory \in [Cells -> Nat]
      OBVIOUS
    <3>2. bkStart \in 0 .. Size /\ bkEnd \in 0 .. Size
      OBVIOUS
    <3>3. writing \in BOOLEAN
      OBVIOUS
    <3> QED BY <3>1, <3>2, <3>3, Zenon DEF BlockTypeOK
  <2>2. BusTypeOK
    BY DEF BusTypeOK
  <2>3. ReaderTypeOK
    BY DEF ReaderTypeOK
  <2>4. HostTypeOK
    BY DEF HostTypeOK
  <2>5. aborted = FALSE /\ phase = "idle" /\ pos = 0
    BY Zenon
  <2>6. 0 \in 0 .. Blink
    OBVIOUS
  <2> QED BY <2>1, <2>2, <2>3, <2>4, <2>5, <2>6, Zenon DEF Types, MemTypeOK
<1>2. WriteInv
  BY <1>0 DEF WriteInv, Done, First
<1>3. HandshakeInv /\ LocalInv /\ BlockInv
  BY DEF HandshakeInv, LocalInv, BlockInv, Reading
<1> QED BY <1>0, <1>1, <1>2, <1>3 DEF IInv

\* The steps of the ring outside write() leave memory, reader and host alone.
LEMMA RingStep == ASSUME IInv, RingHost \/ RingTask PROVE IInv'
<1>1. RingInv'
  BY RingSteps DEF IInv, RingHost, RingTask, Ring!Task
<1>2. /\ UNCHANGED <<memAlone, received>>
      /\ task = "transfer" => task' = "transfer"
      /\ aborted' \in BOOLEAN
  BY <1>1, RingTypes DEF IInv, Types, MemTypeOK, RingHost, RingTask, Ring!Host,
     Ring!RequestStop, Ring!WriteBegin, Ring!WriteSlot, Ring!StoreCurrent, Ring!Notify, Ring!Overwrite, Ring!LoopTop, Ring!Poll,
     Ring!Snapshot, Ring!Step, Ring!StoreThread, Ring!hostVars, Ring!taskVars, memAlone
<1> USE <1>2 DEF IInv, memAlone, blockVars, busVars, readerVars, hostVars, writeVars
<1>3. Types'
  BY DEF Types, MemTypeOK, BlockTypeOK, BusTypeOK, ReaderTypeOK, HostTypeOK
<1>4. WriteInv'
  BY DEF WriteInv, Done, First
<1>5. HandshakeInv' /\ LocalInv'
  BY DEF HandshakeInv, LocalInv, Reading
<1>6. BlockInv'
  BY DEF BlockInv, PlaceInv, PairInv, Reading, Read, Done
<1> QED BY <1>1, <1>3, <1>4, <1>5, <1>6

\* What was read stays right while the write moves on.
LEMMA WriteKeepsBlock ==
  ASSUME IInv, UNCHANGED <<busVars, readerVars, hostVars>>, Types', WriteInv',
         bkStart <= bkStart', bkEnd <= bkEnd', Done <= Done'
  PROVE HandshakeInv' /\ LocalInv' /\ BlockInv'
<1> USE DEF IInv, Types, MemTypeOK, BlockTypeOK
<1>1. HandshakeInv'
  BY DEF HandshakeInv, Reading, busVars, readerVars, hostVars, HostTypeOK
<1>2. LocalInv'
  BY DEF LocalInv, readerVars, ReaderTypeOK
<1>3. BlockInv'
  <2> SUFFICES ASSUME Reading PROVE
        /\ \A i \in Places : Read(i) => PlaceInv(i)'
        /\ \A i, j \in Places : Read(i) /\ i < j => PairInv(i, j)'
    BY DEF BlockInv, Reading, Read, busVars, readerVars
  <2>1. ASSUME NEW i \in Places, Read(i) PROVE PlaceInv(i)'
    <3>1. PlaceInv(i)
      BY <2>1 DEF BlockInv
    <3>2. Done \in Int /\ Done' \in Int
      BY DEF Done
    <3> QED BY <3>1, <3>2
          DEF PlaceInv, busVars, readerVars, hostVars, ReaderTypeOK, HostTypeOK
  <2>2. ASSUME NEW i \in Places, NEW j \in Places, Read(i), i < j PROVE PairInv(i, j)'
    BY <2>2 DEF BlockInv, PairInv, readerVars
  <2> QED BY <2>1, <2>2
<1> QED BY <1>1, <1>2, <1>3

\* write(), access by access.
LEMMA WriteStep == ASSUME IInv, Write PROVE IInv'
<1>0. First \in Nat /\ Len(received) \in Nat
  BY FirstType, RingTypes DEF IInv
<1>1. UNCHANGED <<busVars, readerVars, hostVars>> /\ aborted' \in BOOLEAN
  BY DEF Write, WriteBegin, Extend, ReleaseFirst, CopySample, HoldAgain, Advance, ReleaseLast,
     WriteEnd, Ring!Transfer, IInv, Types, MemTypeOK
<1>2. BusTypeOK' /\ ReaderTypeOK' /\ HostTypeOK'
  BY <1>1 DEF IInv, Types, MemTypeOK, BusTypeOK, ReaderTypeOK, HostTypeOK, busVars, readerVars,
     hostVars
<1>3. writing' \in BOOLEAN
  BY DEF Write, WriteBegin, Extend, ReleaseFirst, CopySample, HoldAgain, Advance, ReleaseLast,
     WriteEnd, IInv, Types, MemTypeOK, BlockTypeOK
<1>4. /\ RingInv' /\ WriteInv' /\ pos' \in 0 .. Blink
      /\ bkStart' \in 0 .. Size /\ bkEnd' \in 0 .. Size /\ memory' \in [Cells -> Nat]
      /\ phase' \in {"idle", "extend", "release", "copy", "advance", "last", "check"}
      /\ bkStart <= bkStart' /\ bkEnd <= bkEnd' /\ Done <= Done'
  <2>0. /\ RingInv /\ WriteInv /\ pos \in 0 .. Blink
        /\ bkStart \in 0 .. Size /\ bkEnd \in 0 .. Size /\ memory \in [Cells -> Nat]
    BY DEF IInv, Types, MemTypeOK, BlockTypeOK
  <2> USE DEF WriteInv, Done
  <2>1. CASE UNCHANGED ringVars
    <3>1. RingInv' /\ First' = First /\ task' = task
      BY <1>1, <2>0, <2>1, RingStutters DEF First, ringVars
    <3> HIDE DEF First
    <3>2. CASE /\ UNCHANGED blockVars
               /\ WriteBegin \/ ReleaseFirst \/ HoldAgain \/ ReleaseLast \/ WriteEnd
      <4>1. UNCHANGED <<bkStart, bkEnd, memory>>
        BY <3>2 DEF blockVars
      <4>2. CASE WriteBegin
        BY <1>0, <2>0, <3>1, <4>1, <4>2 DEF WriteBegin, Fits
      <4>3. CASE ReleaseFirst
        BY <1>0, <2>0, <3>1, <4>1, <4>3 DEF ReleaseFirst
      <4>4. CASE HoldAgain
        BY <1>0, <2>0, <3>1, <4>1, <4>4 DEF HoldAgain
      <4>5. CASE ReleaseLast
        BY <1>0, <2>0, <3>1, <4>1, <4>5 DEF ReleaseLast
      <4>6. CASE WriteEnd
        BY <1>0, <2>0, <3>1, <4>1, <4>6, <2>1 DEF WriteEnd, Ring!Transfer, ringVars
      <4> QED BY <2>1, <3>2, <4>2, <4>3, <4>4, <4>5, <4>6
    <3>3. CASE Extend
      BY <1>0, <2>0, <3>1, <3>3 DEF Extend
    <3>5. CASE CopySample
      <4>1. Item - 1 = Len(received)
        BY <2>0, <3>5, AtItem DEF CopySample, Item
      <4>2. (Item - 1) * Blink = bkStart
        BY <1>0, <2>0, <3>5, <4>1, Products DEF CopySample, First
      <4>3. bkStart + pos \in Cells /\ Done = bkStart + pos
        BY <1>0, <2>0, <3>5 DEF CopySample
      <4>4. memory' = [memory EXCEPT ![bkStart + pos] = bkStart + pos + 1]
        BY <1>0, <2>0, <3>5, <4>2 DEF CopySample
      <4>5. \A c \in Cells : memory'[c] = IF c < bkStart + pos + 1 THEN c + 1 ELSE 0
        BY <2>0, <4>3, <4>4
      <4>6. memory' \in [Cells -> Nat]
        BY <2>0, <4>3, <4>4
      <4> QED BY <1>0, <2>0, <3>1, <3>5, <4>5, <4>6 DEF CopySample
    <3>7. CASE Advance
      BY <1>0, <2>0, <3>1, <3>7 DEF Advance
    <3> QED BY <2>1, <3>2, <3>3, <3>5, <3>7
          DEF Write, WriteBegin, ReleaseFirst, HoldAgain, ReleaseLast, WriteEnd
  <2>2. CASE WriteEnd /\ Ring!Transfer
    <3>1. RingInv'
      BY <2>0, <2>2, RingSteps DEF Ring!Task
    <3>2. First' = First + Blink
      BY <1>0, <2>0, <2>2, RingTypes, Products DEF First, Ring!Transfer
    <3>3. UNCHANGED <<bkStart, bkEnd, memory, pos>>
      BY <2>2 DEF WriteEnd, blockVars
    <3> HIDE DEF First
    <3> QED BY <1>0, <2>0, <3>1, <3>2, <3>3, <2>2 DEF WriteEnd
  <2> QED BY <2>1, <2>2 DEF Write, WriteBegin, Extend, ReleaseFirst, CopySample, HoldAgain, Advance,
          ReleaseLast, WriteEnd
<1>5. Types'
  BY <1>1, <1>2, <1>3, <1>4, Zenon DEF Types, MemTypeOK, BlockTypeOK
<1>6. HandshakeInv' /\ LocalInv' /\ BlockInv'
  BY <1>1, <1>4, <1>5, WriteKeepsBlock
<1> QED BY <1>4, <1>5, <1>6 DEF IInv

\* What the steps of reader and host mean for ring and write.
LEMMA WriteAlone ==
  ASSUME IInv, UNCHANGED <<blockVars, ringVars, writeVars>>, aborted' \in BOOLEAN
  PROVE RingInv' /\ WriteInv' /\ Done' = Done
<1>1. RingInv' /\ First' = First /\ UNCHANGED <<bkStart, bkEnd, memory, phase, pos, task>>
  BY RingStutters DEF IInv, First, ringVars, writeVars, blockVars
<1> QED BY <1>1 DEF IInv, WriteInv, Done

\* The host asks, takes and prints.
LEMMA HostStep == ASSUME IInv, Host, UNCHANGED <<ringVars, writeVars>> PROVE IInv'
<1> USE DEF IInv, Types, MemTypeOK, blockVars, readerVars
<1>1. UNCHANGED <<blockVars, writing, readerVars, aborted>>
  BY DEF Host, AskFirst, TakeBlock, PrintSample
<1>2. RingInv' /\ WriteInv' /\ Done' = Done /\ UNCHANGED <<phase, pos>>
  BY <1>1, WriteAlone DEF writeVars
<1>3. BlockTypeOK' /\ ReaderTypeOK' /\ LocalInv'
  BY <1>1 DEF BlockTypeOK, ReaderTypeOK, LocalInv
<1>4. BusTypeOK'
  BY DEF Host, AskFirst, TakeBlock, PrintSample, Ask, BusTypeOK, busVars
<1>5. HostTypeOK'
  <2> USE DEF HostTypeOK, BlockTypeOK
  <2>1. CASE AskFirst
    BY <2>1 DEF AskFirst, Ask
  <2>2. CASE TakeBlock
    BY <2>2 DEF TakeBlock, Ask
  <2>3. CASE PrintSample
    BY <2>3 DEF PrintSample, ReaderTypeOK
  <2> QED BY <2>1, <2>2, <2>3 DEF Host
<1>6. HandshakeInv' /\ (Reading' => Reading /\ UNCHANGED <<acknowledge, known>>)
  <2> USE DEF HandshakeInv, Reading, BlockTypeOK
  <2>1. CASE AskFirst
    BY <2>1 DEF AskFirst, Ask
  <2>2. CASE TakeBlock
    <3>1. ~Reading' /\ ~acknowledge' /\ reader' = "idle" /\ host' # "start"
      BY <2>2 DEF TakeBlock
    <3>2. known' <= bkStart'
      BY <2>2 DEF TakeBlock, Ask
    <3> QED BY <3>1, <3>2
  <2>3. CASE PrintSample
    BY <2>3 DEF PrintSample, busVars
  <2> QED BY <2>1, <2>2, <2>3 DEF Host
<1>7. BlockInv'
  BY <1>1, <1>2, <1>6 DEF BlockInv, Read, PlaceInv, PairInv
<1>8. Types'
  BY <1>1, <1>2, <1>3, <1>4, <1>5 DEF Types, MemTypeOK
<1> QED BY <1>2, <1>3, <1>6, <1>7, <1>8

\* What a step of the reader leaves alone, and the types of what it changes.
LEMMA ReaderFrame ==
  ASSUME IInv, Reader, UNCHANGED <<ringVars, writeVars>> PROVE
    /\ UNCHANGED <<blockVars, hostVars, offset>>
    /\ Types' /\ RingInv' /\ WriteInv' /\ Done' = Done
<1> USE DEF IInv, Types, MemTypeOK, Reader
<1>1. UNCHANGED <<blockVars, hostVars, offset>>
  BY DEF StartRead, Wait, PutBack, LoadEnd, LoadStart, Copy, Finish, busVars
<1>2. BusTypeOK' /\ BlockTypeOK' /\ aborted' \in BOOLEAN
  BY <1>1 DEF StartRead, Wait, PutBack, LoadEnd, LoadStart, Copy, Finish, busVars, blockVars,
              BusTypeOK, BlockTypeOK
<1>3. HostTypeOK'
  BY <1>1 DEF HostTypeOK, hostVars
<1>4. ReaderTypeOK'
  <2> USE DEF ReaderTypeOK, readerVars
  <2>1. CASE StartRead
    BY <2>1 DEF StartRead, OutOfBounds, BusTypeOK
  <2>2. CASE Wait \/ PutBack
    BY <2>2 DEF Wait, PutBack
  <2>3. CASE LoadEnd
    BY <2>3 DEF LoadEnd, BlockTypeOK
  <2>4. CASE LoadStart
    BY <2>4 DEF LoadStart, Place, LocalInv
  <2>5. CASE Copy
    <3>1. rOffset + rb \in Cells /\ rb \in Places
      BY <2>5 DEF Copy, LocalInv
    <3> QED BY <2>5, <3>1 DEF Copy, Place, BlockTypeOK
  <2>6. CASE Finish
    BY <2>6 DEF Finish
  <2> QED BY <2>1, <2>2, <2>3, <2>4, <2>5, <2>6
<1>5. RingInv' /\ WriteInv' /\ Done' = Done /\ UNCHANGED <<phase, pos>>
  BY <1>1, <1>2, WriteAlone DEF writeVars
<1>6. Types'
  BY <1>2, <1>3, <1>4, <1>5 DEF Types, MemTypeOK
<1> QED BY <1>1, <1>5, <1>6

\* The handshake and the locals of read().
LEMMA ReaderLocals ==
  ASSUME IInv, Reader, UNCHANGED <<ringVars, writeVars>> PROVE HandshakeInv' /\ LocalInv'
<1> USE DEF IInv, Types, MemTypeOK, BlockTypeOK, ReaderTypeOK, HandshakeInv, LocalInv, Reading,
            blockVars, busVars, readerVars, hostVars
<1>1. CASE StartRead
  BY <1>1 DEF StartRead, OutOfBounds
<1>2. CASE Wait
  BY <1>2 DEF Wait
<1>3. CASE PutBack
  BY <1>3 DEF PutBack
<1>4. CASE LoadEnd
  BY <1>4 DEF LoadEnd
<1>5. CASE LoadStart
  BY <1>5 DEF LoadStart, Between, Place
<1>6. CASE Copy
  BY <1>6 DEF Copy
<1>7. CASE Finish
  BY <1>7 DEF Finish
<1> QED BY <1>1, <1>2, <1>3, <1>4, <1>5, <1>6, <1>7 DEF Reader

\* The steps that read no sample.
LEMMA WaitKeepsBlock ==
  ASSUME IInv, UNCHANGED <<ringVars, writeVars>>,
         StartRead \/ Wait \/ PutBack \/ LoadEnd \/ Finish
  PROVE BlockInv'
<1> USE DEF IInv, Types, MemTypeOK, BlockTypeOK, ReaderTypeOK, blockVars, busVars, readerVars, hostVars
<1>1. CASE StartRead
  BY <1>1 DEF StartRead, OutOfBounds, BlockInv, Reading, Read, HandshakeInv
<1>2. CASE Wait \/ PutBack \/ LoadEnd \/ Finish
  <2>1. /\ Reading /\ reader # "copy" /\ reader' # "copy"
        /\ UNCHANGED <<bkStart, bkEnd, randomread, rOffset, rb, known>>
    BY <1>2 DEF Wait, PutBack, LoadEnd, Finish, Reading
  <2>2. BlockInv' <=> /\ \A i \in Places : Read(i) => PlaceInv(i)'
                      /\ \A i, j \in Places : Read(i) /\ i < j => PairInv(i, j)
    BY <1>2, <2>1 DEF BlockInv, Reading, Read, PairInv, Wait, PutBack, LoadEnd, Finish
  <2>3. ASSUME NEW i \in Places, Read(i) PROVE PlaceInv(i)'
    <3>1. PlaceInv(i)
      BY <2>1, <2>3 DEF BlockInv
    <3>2. Done' = Done
      BY <1>2, ReaderFrame DEF Reader
    <3>3. CASE Wait
      BY <2>1, <3>1, <3>2, <3>3 DEF PlaceInv, Wait, HandshakeInv
    <3>4. CASE PutBack \/ Finish
      BY <2>1, <3>1, <3>2, <3>4 DEF PlaceInv, PutBack, Finish
    <3>5. CASE LoadEnd
      BY <2>1, <3>1, <3>2, <3>5 DEF PlaceInv, LoadEnd, HandshakeInv
    <3> QED BY <1>2, <3>3, <3>4, <3>5
  <2> QED BY <2>1, <2>2, <2>3 DEF BlockInv
<1> QED BY <1>1, <1>2

\* The place below the ones that were read is busy, or it is left to be copied.
LEMMA LoadStartKeepsBlock ==
  ASSUME IInv, UNCHANGED <<ringVars, writeVars>>, LoadStart PROVE BlockInv'
<1>0. PICK k : k = rb - 1
  OBVIOUS
<1>1. /\ reader = "loadStart" /\ reader' # "loadStart" /\ rb' = k
      /\ UNCHANGED <<bkStart, bkEnd, rOffset, rEnd, known, acknowledge>>
  BY <1>0 DEF LoadStart, blockVars, busVars, hostVars
<1>2. /\ bkStart \in Nat /\ bkEnd \in Nat /\ rOffset \in Nat /\ rEnd \in Nat /\ known \in Nat
      /\ rb \in Nat /\ k \in Places /\ known <= bkStart /\ rEnd <= bkEnd /\ ~acknowledge
      /\ randomread \in [Places -> Nat \cup {Busy}]
  BY <1>0, <1>1 DEF IInv, Types, MemTypeOK, BlockTypeOK, ReaderTypeOK, HostTypeOK, HandshakeInv, LocalInv
<1>3. bkEnd <= bkStart + Blink /\ First \in Nat
  BY <1>2, FirstType DEF IInv, WriteInv
<1>4. Done' = Done /\ Done \in bkStart .. bkStart + Blink
  BY <1>2, ReaderFrame DEF Reader, Done, IInv, Types
<1>5. /\ \A i \in Places : i > k => PlaceInv(i)
      /\ \A i, j \in Places : i > k /\ i < j => PairInv(i, j)
  BY <1>0, <1>1, <1>2 DEF IInv, BlockInv, Reading, Read
<1>6. \A i \in Places : i > k => randomread'[i] = randomread[i]
  BY <1>0, <1>1, <1>2 DEF LoadStart, Place
<1>7. ASSUME NEW i \in Places, i > k PROVE PlaceInv(i)'
  <2>1. PlaceInv(i) /\ randomread'[i] = randomread[i]
    BY <1>5, <1>6, <1>7
  <2>2. CASE randomread[i] = Busy
    BY <1>1, <1>2, <2>1, <2>2 DEF PlaceInv
  <2>3. CASE randomread[i] # Busy
    BY <1>1, <1>4, <2>1, <2>3 DEF PlaceInv
  <2> QED BY <2>2, <2>3
<1>8. ASSUME NEW i \in Places, NEW j \in Places, i > k, i < j PROVE PairInv(i, j)'
  <2>1. PairInv(i, j) /\ randomread'[i] = randomread[i] /\ randomread'[j] = randomread[j]
    BY <1>2, <1>5, <1>6, <1>8
  <2> QED BY <2>1 DEF PairInv
<1>9. CASE Between(rOffset + k, bkStart, rEnd)
  <2>1. /\ randomread'[k] = Busy /\ reader' = "wait"
        /\ bkStart <= rOffset + k /\ rOffset + k <= rEnd
    BY <1>0, <1>2, <1>9 DEF Between, LoadStart, Place
  <2>3. PlaceInv(k)'
    BY <1>1, <1>2, <2>1 DEF PlaceInv, LoadStart
  <2>4. ASSUME NEW j \in Places, k < j PROVE PairInv(k, j)'
    <3>1. PlaceInv(j) /\ randomread'[j] = randomread[j]
      BY <1>2, <1>5, <1>6, <2>4
    <3>2. ~(randomread[j] > 0 /\ k + Blink <= j)
      BY <1>2, <1>4, <2>1, <2>4, <3>1 DEF PlaceInv
    <3>3. randomread[j] = Busy => j - k <= Blink
      BY <1>1, <1>2, <1>3, <2>1, <2>4, <3>1 DEF PlaceInv
    <3> QED BY <2>1, <3>1, <3>2, <3>3 DEF PairInv
  <2>5. \A i \in Places : Read(i)' <=> i >= k
    BY <1>1, <2>1 DEF Read
  <2>6. \A i \in Places : i >= k => i = k \/ i > k
    BY <1>2
  <2>7. ASSUME NEW i \in Places, Read(i)'
        PROVE PlaceInv(i)' /\ \A j \in Places : i < j => PairInv(i, j)'
    <3>1. CASE i = k
      BY <2>3, <2>4, <3>1
    <3>2. CASE i > k
      BY <1>7, <1>8, <3>2
    <3> QED BY <2>5, <2>6, <2>7, <3>1, <3>2
  <2> QED BY <2>7 DEF BlockInv
<1>10. CASE ~Between(rOffset + k, bkStart, rEnd)
  <2>1. reader' = "copy"
    BY <1>0, <1>10 DEF LoadStart, Place
  <2>2. \A i \in Places : Read(i)' => i > k
    BY <1>1, <2>1 DEF Read
  <2> QED BY <1>7, <1>8, <2>2 DEF BlockInv
<1> QED BY <1>9, <1>10

\* The place below the ones that were read is copied. If it is still unwritten, so are the
\* places above it: the writer had not got there when they were looked at.
LEMMA CopyKeepsBlock ==
  ASSUME IInv, UNCHANGED <<ringVars, writeVars>>, Copy PROVE BlockInv'
<1>1. /\ reader = "copy" /\ reader' = "wait"
      /\ UNCHANGED <<bkStart, bkEnd, rOffset, rb, rEnd, known, acknowledge>>
  BY DEF Copy, blockVars, busVars, hostVars
<1>2. /\ bkStart \in Nat /\ rOffset \in Nat /\ rb \in Nat /\ rEnd \in Nat /\ known \in Nat
      /\ rb \in Places /\ rOffset + rb \in Cells /\ known <= bkStart
      /\ rOffset + rb < bkStart \/ rOffset + rb > rEnd
      /\ randomread \in [Places -> Nat \cup {Busy}]
  BY <1>1 DEF IInv, Types, MemTypeOK, BlockTypeOK, ReaderTypeOK, HostTypeOK, HandshakeInv, LocalInv
<1>3. Done' = Done /\ bkStart <= Done /\ Done \in Nat
  BY <1>1, <1>2, ReaderFrame DEF Reader, Done, IInv, Types
<1>4. /\ \A i \in Places : i > rb => PlaceInv(i) /\ randomread'[i] = randomread[i]
      /\ \A i, j \in Places : i > rb /\ i < j => PairInv(i, j)
  BY <1>1, <1>2 DEF IInv, BlockInv, Reading, Read, Copy, Place
<1>5. ASSUME NEW i \in Places, i > rb
      PROVE PlaceInv(i)' /\ \A j \in Places : i < j => PairInv(i, j)'
  <2>1. PlaceInv(i) /\ randomread'[i] = randomread[i]
    BY <1>4, <1>5
  <2>2. PlaceInv(i)'
    BY <1>1, <1>3, <2>1 DEF PlaceInv
  <2>3. ASSUME NEW j \in Places, i < j PROVE PairInv(i, j)'
    <3>1. PairInv(i, j) /\ randomread'[j] = randomread[j]
      BY <1>2, <1>4, <1>5, <2>3
    <3> QED BY <2>1, <3>1 DEF PairInv
  <2> QED BY <2>2, <2>3
<1>6. randomread'[rb] = IF rOffset + rb < Done THEN rOffset + rb + 1 ELSE 0
  <2>1. randomread'[rb] = memory[rOffset + rb]
    BY <1>2 DEF Copy, Place
  <2> QED BY <1>2, <2>1 DEF IInv, WriteInv
<1>7. PlaceInv(rb)'
  BY <1>1, <1>2, <1>3, <1>6 DEF PlaceInv
<1>8. ASSUME NEW j \in Places, rb < j PROVE PairInv(rb, j)'
  <2>1. PlaceInv(j) /\ randomread'[j] = randomread[j]
    BY <1>4, <1>8
  <2>2. CASE rOffset + rb < Done
    BY <1>1, <1>2, <1>6, <2>1, <2>2 DEF PairInv
  <2>3. CASE ~(rOffset + rb < Done)
    <3>1. rOffset + rb > rEnd
      BY <1>2, <1>3, <2>3
    <3>2. randomread[j] # Busy
      BY <1>1, <1>2, <1>8, <2>1, <3>1 DEF PlaceInv
    <3>3. ~(randomread[j] > 0)
      BY <1>2, <1>3, <1>8, <2>1, <2>3 DEF PlaceInv
    <3>4. randomread[j] = 0 /\ randomread'[rb] = 0
      BY <1>2, <1>6, <1>8, <2>3, <3>2, <3>3
    <3> QED BY <1>1, <2>1, <3>4 DEF PairInv
  <2> QED BY <2>2, <2>3
<1>9. ASSUME NEW i \in Places, Read(i)'
      PROVE PlaceInv(i)' /\ \A j \in Places : i < j => PairInv(i, j)'
  <2>1. i = rb \/ i > rb
    BY <1>1, <1>2, <1>9 DEF Read
  <2>2. CASE i = rb
    BY <1>1, <1>7, <1>8, <2>2
  <2>3. CASE i > rb
    BY <1>5, <2>3
  <2> QED BY <2>1, <2>2, <2>3
<1> QED BY <1>9 DEF BlockInv

-----------------------------------------------------------------------------
(* The invariant and what follows from it.                                 *)

\* A step of the reader.
LEMMA ReaderStep == ASSUME IInv, Reader, UNCHANGED <<ringVars, writeVars>> PROVE IInv'
<1>1. BlockInv'
  BY WaitKeepsBlock, LoadStartKeepsBlock, CopyKeepsBlock DEF Reader
<1> QED BY <1>1, ReaderFrame, ReaderLocals DEF IInv

\* A step that changes nothing.
LEMMA Stutter == ASSUME IInv, UNCHANGED vars PROVE IInv'
<1> USE DEF vars, memVars, blockVars, busVars, readerVars, hostVars, writeVars
<1>1. RingInv' /\ WriteInv' /\ Done' = Done
  BY WriteAlone DEF IInv, Types, MemTypeOK
<1>2. Types'
  BY DEF IInv, Types, MemTypeOK, BlockTypeOK, BusTypeOK, ReaderTypeOK, HostTypeOK
<1>3. HandshakeInv' /\ LocalInv' /\ BlockInv'
  BY <1>1 DEF IInv, HandshakeInv, LocalInv, BlockInv, PlaceInv, PairInv, Reading, Read
<1> QED BY <1>1, <1>2, <1>3 DEF IInv

LEMMA Invariance == Spec => []IInv
<1>1. IInv /\ [Next]_vars => IInv'
  BY RingStep, WriteStep, HostStep, ReaderStep, Stutter DEF Next, ReaderSide, Terminated
<1> QED BY <1>1, InitInv, PTL DEF Spec

\* All variables keep their types: a write stays inside the memory, a read inside its block.
THEOREM TypeCorrect == Spec => []TypeOK
<1>1. IInv => TypeOK
  BY RingTypes DEF IInv, Types, TypeOK
<1> QED BY <1>1, Invariance, PTL

\* The slot write() copies from is not overwritten meanwhile (RingBuffer.hpp 58-59).
THEOREM SlotIsKept == Spec => []SlotKept
<1>1. IInv => SlotKept
  BY AtItem DEF IInv, WriteInv, SlotKept
<1> QED BY <1>1, Invariance, PTL

\* Between two writes the memory holds what the task has read, and the cursors have met
\* (RingToMemory.cpp 94-95).
THEOREM StoredInOrder == Spec => []Stored
<1>1. IInv => Stored
  <2> SUFFICES ASSUME IInv PROVE Stored
    OBVIOUS
  <2>1. Done = bkStart \/ phase # "idle"
    BY DEF Done
  <2> QED BY <2>1 DEF IInv, WriteInv, Stored, First
<1> QED BY <1>1, Invariance, PTL

\* An acknowledged block was read whole.
LEMMA WholeBlock ==
  ASSUME IInv, acknowledge PROVE
    /\ \A i \in Places : PlaceInv(i)
    /\ \A i, j \in Places : i < j => PairInv(i, j)
    /\ offset = rOffset
    /\ randomread \in [Places -> Nat \cup {Busy}]
  BY DEF IInv, BlockInv, HandshakeInv, Reading, Read, Types, MemTypeOK, ReaderTypeOK

\* A block has no gap, is fresh and in its place, and is busy for one write and the one behind
\* it at most, although the flag is only up in two short windows of a write.
THEOREM DeliveredBlock == Spec => []Delivered
<1>1. IInv => BlockInOrder
  BY WholeBlock DEF BlockInOrder, PairInv
<1>2. IInv => Fresh
  <2> SUFFICES ASSUME IInv, acknowledge, NEW i \in Places, offset + i < known
               PROVE randomread[i] = offset + i + 1
    BY DEF Fresh
  <2>1. PlaceInv(i) /\ offset = rOffset
    BY WholeBlock
  <2> QED BY <2>1 DEF PlaceInv
<1>3. IInv => Placed
  BY WholeBlock DEF Placed, PlaceInv
<1>4. IInv => FewBusy
  <2> SUFFICES ASSUME IInv, acknowledge, NEW i \in Places, NEW j \in Places,
                      randomread[i] = Busy, randomread[j] = Busy
               PROVE j - i <= Blink
    BY DEF FewBusy
  <2>1. i < j => j - i <= Blink
    BY WholeBlock DEF PairInv
  <2> QED BY <2>1
<1> QED BY <1>1, <1>2, <1>3, <1>4, Invariance, PTL DEF Delivered

=============================================================================
