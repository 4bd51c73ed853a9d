----------------------- MODULE MemoryController_proof -----------------------
(* What a reader is given, for every size of the memory and of the block. *)
EXTENDS MemoryController, TLAPS

\* The samples that are in the memory.
Done == IF writer = "advance" THEN bkStart + 1 ELSE bkStart

\* Place i of the block has been read.
Read(i) == IF reader = "copy" THEN i > rb ELSE i >= rb

\* A block is being read, or waits to be taken.
Reading == reader # "idle" \/ acknowledge

-----------------------------------------------------------------------------
(* The inductive invariant.                                                *)

\* The cursors tell where the writer is, the memory holds what is written, and the flag is up
\* (or about to be put back) during a write.
WriterInv ==
  /\ writer \in {"extend", "store", "advance"} => bkStart < Size
  /\ bkEnd = IF writer \in {"store", "advance"} THEN bkStart + 1 ELSE bkStart
  /\ \A c \in Cells : memory[c] = IF c < Done THEN c + 1 ELSE 0
  /\ writer # "idle" => writing \/ reader = "putBack"

\* The request, the reading and the answer exclude each other, and the host leaves the offset
\* alone meanwhile.
HandshakeInv ==
  /\ updated => ~Reading
  /\ acknowledge => reader = "idle" /\ rb = 0
  /\ host = "start" => ~updated /\ ~Reading
  /\ Reading => offset = rOffset
  /\ known <= bkStart

\* The locals of read().
LocalInv ==
  /\ reader \in {"loadEnd", "loadStart"} => rb > 0
  /\ reader = "copy" => rb < Block
  /\ reader \in {"loadStart", "copy"} => rEnd <= bkEnd
  /\ reader = "copy" => rOffset + rb < bkStart \/ rOffset + rb > rEnd

\* A place that was read, against the writer and against the places above it.
PlaceInv(i) ==
  /\ randomread[i] \in {0, Busy, rOffset + i + 1}
  /\ randomread[i] > 0 => rOffset + i < Done
  /\ rOffset + i < known => randomread[i] > 0
  /\ randomread[i] = Busy =>
       /\ rOffset + i <= bkEnd
       /\ reader \in {"loadStart", "copy"} => rOffset + i <= rEnd
       /\ \/ rOffset + i <= bkStart
          \/ reader \in {"wait", "putBack"} /\ writer \in {"store", "advance"}
          \/ acknowledge

PairInv(i, j) ==
  /\ randomread[j] # 0 => randomread[i] # 0
  /\ randomread[j] > 0 => randomread[i] > 0
  /\ ~(randomread[i] = Busy /\ randomread[j] = Busy)

BlockInv ==
  Reading =>
    /\ \A i \in Places : Read(i) => PlaceInv(i)
    /\ \A i, j \in Places : Read(i) /\ i < j => PairInv(i, j)

IInv == TypeOK /\ WriterInv /\ HandshakeInv /\ LocalInv /\ BlockInv

-----------------------------------------------------------------------------
(* The steps.                                                              *)

USE ReaderAssumption DEF Cells, Places, Busy

\* Nothing is written and nothing is read.
LEMMA InitInv == Init => IInv
<1> SUFFICES ASSUME Init PROVE IInv
  OBVIOUS
<1> USE DEF Init, MemInit
<1>1. TypeOK
  <2>1. BlockTypeOK
    <3>1. memory \in [Cells -> Nat]
      OBVIOUS
    <3>2. bkStart \in 0 .. Size /\ bkEnd \in 0 .. Size
      OBVIOUS
    <3>3. writing \in BOOLEAN
      OBVIOUS
    <3> QED BY <3>1, <3>2, <3>3, Zenon DEF BlockTypeOK
  <2>2. BusTypeOK
    BY DEF BusTypeOK
  <2>3. ReaderTypeOK
    BY DEF ReaderTypeOK
  <2>4. HostTypeOK
    BY DEF HostTypeOK
  <2> QED BY <2>1, <2>2, <2>3, <2>4 DEF TypeOK, MemTypeOK
<1>2. WriterInv
  BY DEF WriterInv, Done
<1>3. HandshakeInv /\ LocalInv /\ BlockInv
  BY DEF HandshakeInv, LocalInv, BlockInv, Reading
<1> QED BY <1>1, <1>2, <1>3 DEF IInv

\* What was read stays right while the writer moves on.
LEMMA WriterKeepsBlock ==
  ASSUME IInv, Writer, TypeOK', WriterInv' PROVE HandshakeInv' /\ LocalInv' /\ BlockInv'
<1> USE DEF IInv, TypeOK, MemTypeOK, BlockTypeOK
<1>1. UNCHANGED <<busVars, readerVars, hostVars>>
  BY DEF Writer, WriteBegin, Extend, Store, Advance, Release
<1>2. /\ bkStart <= bkStart' /\ bkEnd <= bkEnd' /\ Done <= Done'
      /\ writer \in {"store", "advance"} =>
           \/ bkStart' = bkStart /\ writer' \in {"store", "advance"}
           \/ bkStart' = bkEnd
  <2> USE DEF WriterInv, blockVars, Done
  <2>1. CASE WriteBegin
    BY <2>1 DEF WriteBegin
  <2>2. CASE Extend
    BY <2>2 DEF Extend
  <2>3. CASE Store
    BY <2>3 DEF Store
  <2>4. CASE Advance
    BY <2>4 DEF Advance
  <2>5. CASE Release
    BY <2>5 DEF Release
  <2> QED BY <2>1, <2>2, <2>3, <2>4, <2>5 DEF Writer
<1>3. HandshakeInv'
  BY <1>1, <1>2 DEF HandshakeInv, Reading, busVars, readerVars, hostVars, HostTypeOK
<1>4. LocalInv'
  BY <1>1, <1>2 DEF LocalInv, readerVars, ReaderTypeOK
<1>5. BlockInv'
  <2> SUFFICES ASSUME Reading PROVE
        /\ \A i \in Places : Read(i) => PlaceInv(i)'
        /\ \A i, j \in Places : Read(i) /\ i < j => PairInv(i, j)'
    BY <1>1 DEF BlockInv, Reading, Read, busVars, readerVars
  <2>1. ASSUME NEW i \in Places, Read(i) PROVE PlaceInv(i)'
    <3>1. PlaceInv(i)
      BY <2>1 DEF BlockInv
    <3>2. Done \in Int /\ Done' \in Int
      BY DEF Done
    <3> QED BY <1>1, <1>2, <3>1, <3>2
          DEF PlaceInv, busVars, readerVars, hostVars, ReaderTypeOK, HostTypeOK
  <2>2. ASSUME NEW i \in Places, NEW j \in Places, Read(i), i < j PROVE PairInv(i, j)'
    BY <1>1, <2>2 DEF BlockInv, PairInv, readerVars
  <2> QED BY <2>1, <2>2
<1> QED BY <1>3, <1>4, <1>5

\* A write, access by access.
LEMMA WriterStep == ASSUME IInv, Writer PROVE IInv'
<1> USE DEF IInv, TypeOK, MemTypeOK
<1>1. UNCHANGED <<busVars, readerVars, hostVars>> /\ aborted' \in BOOLEAN
  BY DEF Writer, WriteBegin, Extend, Store, Advance, Release
<1>2. BusTypeOK' /\ ReaderTypeOK' /\ HostTypeOK'
  BY <1>1 DEF BusTypeOK, ReaderTypeOK, HostTypeOK, busVars, readerVars, hostVars
<1>3. BlockTypeOK' /\ WriterInv' /\ writer' \in {"idle", "extend", "store", "advance", "release"}
  <2> USE DEF BlockTypeOK, WriterInv, Done, blockVars, readerVars
  <2>1. CASE WriteBegin
    <3>1. CASE bkStart = Size
      BY <2>1, <3>1 DEF WriteBegin
    <3>2. CASE bkStart # Size
      BY <2>1, <3>2 DEF WriteBegin
    <3> QED BY <3>1, <3>2
  <2>2. CASE Extend
    BY <2>2 DEF Extend
  <2>3. CASE Store
    <3>1. /\ \A c \in Cells : memory'[c] = IF c = bkStart THEN bkStart + 1 ELSE memory[c]
          /\ memory' \in [Cells -> Nat]
      BY <2>3 DEF Store
    <3>2. \A c \in Cells : memory'[c] = IF c < bkStart + 1 THEN c + 1 ELSE 0
      BY <2>3, <3>1 DEF Store
    <3> QED BY <2>3, <3>1, <3>2 DEF Store
  <2>4. CASE Advance
    BY <2>4 DEF Advance
  <2>5. CASE Release
    BY <2>5 DEF Release
  <2> QED BY <2>1, <2>2, <2>3, <2>4, <2>5 DEF Writer
<1>4. TypeOK'
  BY <1>1, <1>2, <1>3
<1>5. HandshakeInv' /\ LocalInv' /\ BlockInv'
  BY <1>3, <1>4, WriterKeepsBlock
<1> QED BY <1>3, <1>4, <1>5

\* The host asks, takes and prints.
LEMMA HostStep == ASSUME IInv, Host, UNCHANGED writer PROVE IInv'
<1> USE DEF IInv, TypeOK, MemTypeOK, blockVars, readerVars
<1>1. UNCHANGED <<blockVars, writing, readerVars, aborted>>
  BY DEF Host, AskFirst, TakeBlock, PrintSample
<1>2. BlockTypeOK' /\ ReaderTypeOK' /\ WriterInv' /\ LocalInv'
  BY <1>1 DEF BlockTypeOK, ReaderTypeOK, WriterInv, LocalInv, Done
<1>3. BusTypeOK'
  BY DEF Host, AskFirst, TakeBlock, PrintSample, Ask, BusTypeOK, busVars
<1>4. HostTypeOK'
  <2> USE DEF HostTypeOK, BlockTypeOK
  <2>1. CASE AskFirst
    BY <2>1 DEF AskFirst, Ask
  <2>2. CASE TakeBlock
    BY <2>2 DEF TakeBlock, Ask
  <2>3. CASE PrintSample
    BY <2>3 DEF PrintSample, ReaderTypeOK
  <2> QED BY <2>1, <2>2, <2>3 DEF Host
<1>5. HandshakeInv' /\ (Reading' => Reading /\ UNCHANGED <<acknowledge, known>>)
  <2> USE DEF HandshakeInv, Reading, BlockTypeOK
  <2>1. CASE AskFirst
    BY <2>1 DEF AskFirst, Ask
  <2>2. CASE TakeBlock
    <3>1. ~Reading' /\ ~acknowledge' /\ reader' = "idle" /\ host' # "start"
      BY <2>2 DEF TakeBlock
    <3>2. known' <= bkStart'
      BY <2>2 DEF TakeBlock, Ask
    <3> QED BY <3>1, <3>2
  <2>3. CASE PrintSample
    BY <2>3 DEF PrintSample, busVars
  <2> QED BY <2>1, <2>2, <2>3 DEF Host
<1>6. BlockInv'
  BY <1>1, <1>5 DEF BlockInv, Read, PlaceInv, PairInv, Done
<1> QED BY <1>1, <1>2, <1>3, <1>4, <1>5, <1>6

\* What a step of the reader leaves alone, and the types of what it changes.
LEMMA ReaderFrame ==
  ASSUME IInv, Reader, UNCHANGED writer PROVE
    /\ UNCHANGED <<blockVars, hostVars, offset>>
    /\ TypeOK' /\ WriterInv'
<1> USE DEF IInv, TypeOK, MemTypeOK, Reader
<1>1. UNCHANGED <<blockVars, hostVars, offset>>
  BY DEF StartRead, Wait, PutBack, LoadEnd, LoadStart, Copy, Finish, busVars
<1>2. BusTypeOK' /\ BlockTypeOK' /\ aborted' \in BOOLEAN
  BY <1>1 DEF StartRead, Wait, PutBack, LoadEnd, LoadStart, Copy, Finish, busVars, blockVars,
              BusTypeOK, BlockTypeOK
<1>3. HostTypeOK'
  BY <1>1 DEF HostTypeOK, hostVars
<1>4. ReaderTypeOK'
  <2> USE DEF ReaderTypeOK, readerVars
  <2>1. CASE StartRead
    BY <2>1 DEF StartRead, OutOfBounds, BusTypeOK
  <2>2. CASE Wait \/ PutBack
    BY <2>2 DEF Wait, PutBack
  <2>3. CASE LoadEnd
    BY <2>3 DEF LoadEnd, BlockTypeOK
  <2>4. CASE LoadStart
    BY <2>4 DEF LoadStart, Place, LocalInv
  <2>5. CASE Copy
    <3>1. rOffset + rb \in Cells /\ rb \in Places
      BY <2>5 DEF Copy, LocalInv
    <3> QED BY <2>5, <3>1 DEF Copy, Place, BlockTypeOK
  <2>6. CASE Finish
    BY <2>6 DEF Finish
  <2> QED BY <2>1, <2>2, <2>3, <2>4, <2>5, <2>6
<1>5. WriterInv'
  <2>1. writer # "idle" => writing' \/ reader' = "putBack"
    BY DEF StartRead, Wait, PutBack, LoadEnd, LoadStart, Copy, Finish, WriterInv, readerVars
  <2> QED BY <1>1, <2>1 DEF WriterInv, Done, blockVars
<1> QED BY <1>1, <1>2, <1>3, <1>4, <1>5

\* The handshake and the locals of read().
LEMMA ReaderLocals ==
  ASSUME IInv, Reader, UNCHANGED writer PROVE HandshakeInv' /\ LocalInv'
<1> USE DEF IInv, TypeOK, MemTypeOK, BlockTypeOK, ReaderTypeOK, HandshakeInv, LocalInv, Reading,
            WriterInv, blockVars, busVars, readerVars, hostVars
<1>1. CASE StartRead
  BY <1>1 DEF StartRead, OutOfBounds
<1>2. CASE Wait
  BY <1>2 DEF Wait
<1>3. CASE PutBack
  BY <1>3 DEF PutBack
<1>4. CASE LoadEnd
  BY <1>4 DEF LoadEnd
<1>5. CASE LoadStart
  BY <1>5 DEF LoadStart, Between, Place
<1>6. CASE Copy
  BY <1>6 DEF Copy
<1>7. CASE Finish
  BY <1>7 DEF Finish
<1> QED BY <1>1, <1>2, <1>3, <1>4, <1>5, <1>6, <1>7 DEF Reader

\* The steps that read no sample.
LEMMA WaitKeepsBlock ==
  ASSUME IInv, UNCHANGED writer, StartRead \/ Wait \/ PutBack \/ LoadEnd \/ Finish PROVE BlockInv'
<1> USE DEF IInv, TypeOK, MemTypeOK, BlockTypeOK, ReaderTypeOK, blockVars, busVars, readerVars, hostVars
<1>1. CASE StartRead
  BY <1>1 DEF StartRead, OutOfBounds, BlockInv, Reading, Read, HandshakeInv
<1>2. CASE Wait \/ PutBack \/ LoadEnd \/ Finish
  <2>1. /\ Reading /\ reader # "copy" /\ reader' # "copy"
        /\ UNCHANGED <<bkStart, bkEnd, randomread, rOffset, rb, known>>
    BY <1>2 DEF Wait, PutBack, LoadEnd, Finish, Reading
  <2>2. BlockInv' <=> /\ \A i \in Places : Read(i) => PlaceInv(i)'
                      /\ \A i, j \in Places : Read(i) /\ i < j => PairInv(i, j)
    BY <1>2, <2>1 DEF BlockInv, Reading, Read, PairInv, Wait, PutBack, LoadEnd, Finish
  <2>3. ASSUME NEW i \in Places, Read(i) PROVE PlaceInv(i)'
    <3>1. PlaceInv(i)
      BY <2>1, <2>3 DEF BlockInv
    <3>2. Done' = Done
      BY <2>1 DEF Done
    <3>3. CASE Wait
      BY <2>1, <3>1, <3>2, <3>3 DEF PlaceInv, Wait, WriterInv, HandshakeInv
    <3>4. CASE PutBack \/ Finish
      BY <2>1, <3>1, <3>2, <3>4 DEF PlaceInv, PutBack, Finish
    <3>5. CASE LoadEnd
      BY <2>1, <3>1, <3>2, <3>5 DEF PlaceInv, LoadEnd, HandshakeInv
    <3> QED BY <1>2, <3>3, <3>4, <3>5
  <2> QED BY <2>1, <2>2, <2>3 DEF BlockInv
<1> QED BY <1>1, <1>2

\* The place below the ones that were read is busy, or it is left to be copied.
LEMMA LoadStartKeepsBlock ==
  ASSUME IInv, UNCHANGED writer, LoadStart PROVE BlockInv'
<1>0. PICK k : k = rb - 1
  OBVIOUS
<1>1. /\ reader = "loadStart" /\ reader' # "loadStart" /\ rb' = k
      /\ UNCHANGED <<bkStart, bkEnd, rOffset, rEnd, known, acknowledge>>
  BY <1>0 DEF LoadStart, blockVars, busVars, hostVars
<1>2. /\ bkStart \in Nat /\ bkEnd \in Nat /\ rOffset \in Nat /\ rEnd \in Nat /\ known \in Nat
      /\ rb \in Nat /\ k \in Places /\ known <= bkStart /\ rEnd <= bkEnd /\ ~acknowledge
      /\ randomread \in [Places -> Nat \cup {Busy}]
  BY <1>0, <1>1 DEF IInv, TypeOK, MemTypeOK, BlockTypeOK, ReaderTypeOK, HostTypeOK, HandshakeInv, LocalInv
<1>3. bkEnd = IF writer \in {"store", "advance"} THEN bkStart + 1 ELSE bkStart
  BY DEF IInv, WriterInv
<1>4. Done' = Done /\ (Done = bkStart \/ Done = bkStart + 1)
  BY <1>1 DEF Done
<1>5. /\ \A i \in Places : i > k => PlaceInv(i)
      /\ \A i, j \in Places : i > k /\ i < j => PairInv(i, j)
  BY <1>0, <1>1, <1>2 DEF IInv, BlockInv, Reading, Read
<1>6. \A i \in Places : i > k => randomread'[i] = randomread[i]
  BY <1>0, <1>1, <1>2 DEF LoadStart, Place
<1>7. ASSUME NEW i \in Places, i > k PROVE PlaceInv(i)'
  <2>1. PlaceInv(i) /\ randomread'[i] = randomread[i]
    BY <1>5, <1>6, <1>7
  <2>2. CASE randomread[i] = Busy
    BY <1>1, <1>2, <2>1, <2>2 DEF PlaceInv
  <2>3. CASE randomread[i] # Busy
    BY <1>1, <1>4, <2>1, <2>3 DEF PlaceInv
  <2> QED BY <2>2, <2>3
<1>8. ASSUME NEW i \in Places, NEW j \in Places, i > k, i < j PROVE PairInv(i, j)'
  <2>1. PairInv(i, j) /\ randomread'[i] = randomread[i] /\ randomread'[j] = randomread[j]
    BY <1>2, <1>5, <1>6, <1>8
  <2> QED BY <2>1 DEF PairInv
<1>9. CASE Between(rOffset + k, bkStart, rEnd)
  <2>1. /\ randomread'[k] = Busy /\ reader' = "wait"
        /\ bkStart <= rOffset + k /\ rOffset + k <= rEnd
    BY <1>0, <1>2, <1>9 DEF Between, LoadStart, Place
  <2>2. rOffset + k <= bkStart \/ writer \in {"store", "advance"}
    BY <1>2, <1>3, <2>1
  <2>3. PlaceInv(k)'
    BY <1>1, <1>2, <2>1, <2>2 DEF PlaceInv, LoadStart
  <2>4. ASSUME NEW j \in Places, k < j PROVE PairInv(k, j)'
    <3>1. PlaceInv(j) /\ randomread'[j] = randomread[j]
      BY <1>2, <1>5, <1>6, <2>4
    <3>2. ~(randomread[j] > 0)
      BY <1>2, <1>4, <2>1, <2>4, <3>1 DEF PlaceInv
    <3>3. randomread[j] # Busy
      BY <1>1, <1>2, <2>1, <2>4, <3>1 DEF PlaceInv
    <3> QED BY <2>1, <3>1, <3>2, <3>3 DEF PairInv
  <2>5. \A i \in Places : Read(i)' <=> i >= k
    BY <1>1, <2>1 DEF Read
  <2>6. \A i \in Places : i >= k => i = k \/ i > k
    BY <1>2
  <2>7. ASSUME NEW i \in Places, Read(i)'
        PROVE PlaceInv(i)' /\ \A j \in Places : i < j => PairInv(i, j)'
    <3>1. CASE i = k
      BY <2>3, <2>4, <3>1
    <3>2. CASE i > k
      BY <1>7, <1>8, <3>2
    <3> QED BY <2>5, <2>6, <2>7, <3>1, <3>2
  <2> QED BY <2>7 DEF BlockInv
<1>10. CASE ~Between(rOffset + k, bkStart, rEnd)
  <2>1. reader' = "copy"
    BY <1>0, <1>10 DEF LoadStart, Place
  <2>2. \A i \in Places : Read(i)' => i > k
    BY <1>1, <2>1 DEF Read
  <2> QED BY <1>7, <1>8, <2>2 DEF BlockInv
<1> QED BY <1>9, <1>10

\* The place below the ones that were read is copied. If it is still unwritten, so are the
\* places above it: the writer had not got there when they were looked at.
LEMMA CopyKeepsBlock ==
  ASSUME IInv, UNCHANGED writer, Copy PROVE BlockInv'
<1>1. /\ reader = "copy" /\ reader' = "wait"
      /\ UNCHANGED <<bkStart, bkEnd, rOffset, rb, rEnd, known, acknowledge>>
  BY DEF Copy, blockVars, busVars, hostVars
<1>2. /\ bkStart \in Nat /\ rOffset \in Nat /\ rb \in Nat /\ rEnd \in Nat /\ known \in Nat
      /\ rb \in Places /\ rOffset + rb \in Cells /\ known <= bkStart
      /\ rOffset + rb < bkStart \/ rOffset + rb > rEnd
      /\ randomread \in [Places -> Nat \cup {Busy}]
  BY <1>1 DEF IInv, TypeOK, MemTypeOK, BlockTypeOK, ReaderTypeOK, HostTypeOK, HandshakeInv, LocalInv
<1>3. Done' = Done /\ bkStart <= Done /\ Done \in Nat
  BY <1>1, <1>2 DEF Done
<1>4. /\ \A i \in Places : i > rb => PlaceInv(i) /\ randomread'[i] = randomread[i]
      /\ \A i, j \in Places : i > rb /\ i < j => PairInv(i, j)
  BY <1>1, <1>2 DEF IInv, BlockInv, Reading, Read, Copy, Place
<1>5. ASSUME NEW i \in Places, i > rb
      PROVE PlaceInv(i)' /\ \A j \in Places : i < j => PairInv(i, j)'
  <2>1. PlaceInv(i) /\ randomread'[i] = randomread[i]
    BY <1>4, <1>5
  <2>2. PlaceInv(i)'
    BY <1>1, <1>3, <2>1 DEF PlaceInv
  <2>3. ASSUME NEW j \in Places, i < j PROVE PairInv(i, j)'
    <3>1. PairInv(i, j) /\ randomread'[j] = randomread[j]
      BY <1>2, <1>4, <1>5, <2>3
    <3> QED BY <2>1, <3>1 DEF PairInv
  <2> QED BY <2>2, <2>3
<1>6. randomread'[rb] = IF rOffset + rb < Done THEN rOffset + rb + 1 ELSE 0
  <2>1. randomread'[rb] = memory[rOffset + rb]
    BY <1>2 DEF Copy, Place
  <2> QED BY <1>2, <2>1 DEF IInv, WriterInv
<1>7. PlaceInv(rb)'
  BY <1>1, <1>2, <1>3, <1>6 DEF PlaceInv
<1>8. ASSUME NEW j \in Places, rb < j PROVE PairInv(rb, j)'
  <2>1. PlaceInv(j) /\ randomread'[j] = randomread[j]
    BY <1>4, <1>8
  <2>2. CASE rOffset + rb < Done
    BY <1>1, <1>2, <1>6, <2>1, <2>2 DEF PairInv
  <2>3. CASE ~(rOffset + rb < Done)
    <3>1. rOffset + rb > rEnd
      BY <1>2, <1>3, <2>3
    <3>2. randomread[j] # Busy
      BY <1>1, <1>2, <1>8, <2>1, <3>1 DEF PlaceInv
    <3>3. ~(randomread[j] > 0)
      BY <1>2, <1>3, <1>8, <2>1, <2>3 DEF PlaceInv
    <3>4. randomread[j] = 0 /\ randomread'[rb] = 0
      BY <1>2, <1>6, <1>8, <2>3, <3>2, <3>3
    <3> QED BY <1>1, <2>1, <3>4 DEF PairInv
  <2> QED BY <2>2, <2>3
<1>9. ASSUME NEW i \in Places, Read(i)'
      PROVE PlaceInv(i)' /\ \A j \in Places : i < j => PairInv(i, j)'
  <2>1. i = rb \/ i > rb
    BY <1>1, <1>2, <1>9 DEF Read
  <2>2. CASE i = rb
    BY <1>1, <1>7, <1>8, <2>2
  <2>3. CASE i > rb
    BY <1>5, <2>3
  <2> QED BY <2>1, <2>2, <2>3
<1> QED BY <1>9 DEF BlockInv

-----------------------------------------------------------------------------
(* The invariant and what follows from it.                                 *)

\* A step of the reader.
LEMMA ReaderStep == ASSUME IInv, Reader, UNCHANGED writer PROVE IInv'
<1>1. BlockInv'
  BY WaitKeepsBlock, LoadStartKeepsBlock, CopyKeepsBlock DEF Reader
<1> QED BY <1>1, ReaderFrame, ReaderLocals DEF IInv

\* A step that changes nothing.
LEMMA Stutter == ASSUME IInv, UNCHANGED vars PROVE IInv'
<1> USE DEF vars, memVars, blockVars, busVars, readerVars, hostVars
<1>1. TypeOK' /\ WriterInv'
  BY DEF IInv, TypeOK, MemTypeOK, BlockTypeOK, BusTypeOK, ReaderTypeOK, HostTypeOK, WriterInv, Done
<1>2. HandshakeInv' /\ LocalInv' /\ BlockInv'
  BY DEF IInv, HandshakeInv, LocalInv, BlockInv, PlaceInv, PairInv, Reading, Read, Done
<1> QED BY <1>1, <1>2 DEF IInv

LEMMA Invariance == Spec => []IInv
<1>1. IInv /\ [Next]_vars => IInv'
  BY WriterStep, HostStep, ReaderStep, Stutter DEF Next, Terminated
<1> QED BY <1>1, InitInv, PTL DEF Spec

\* All variables keep their types: no place of the block and no cell of the memory is missed.
THEOREM TypeCorrect == Spec => []TypeOK
<1>1. IInv => TypeOK
  BY DEF IInv
<1> QED BY <1>1, Invariance, PTL

\* An acknowledged block was read whole.
LEMMA WholeBlock ==
  ASSUME IInv, acknowledge PROVE
    /\ \A i \in Places : PlaceInv(i)
    /\ \A i, j \in Places : i < j => PairInv(i, j)
    /\ offset = rOffset
  BY DEF IInv, BlockInv, HandshakeInv, Reading, Read

\* The block the reader acknowledges has no gap (MemoryController.hpp 325-336).
THEOREM OrderKept == Spec => []BlockInOrder
<1>1. IInv => BlockInOrder
  BY WholeBlock DEF BlockInOrder, PairInv
<1> QED BY <1>1, Invariance, PTL

\* The Writing flag and the two cursors never make more than one sample of a block busy.
THEOREM OneSampleBusy == Spec => []OneBusy
<1>1. IInv => OneBusy
  BY WholeBlock DEF OneBusy, PairInv
<1> QED BY <1>1, Invariance, PTL

\* What was written before the block was asked for is in it.
THEOREM FreshBlock == Spec => []Fresh
<1>1. IInv => Fresh
  <2> SUFFICES ASSUME IInv, acknowledge, NEW i \in Places, offset + i < known
               PROVE randomread[i] = offset + i + 1
    BY DEF Fresh
  <2>1. PlaceInv(i) /\ offset = rOffset
    BY WholeBlock
  <2> QED BY <2>1 DEF PlaceInv
<1> QED BY <1>1, Invariance, PTL

\* A written sample of the block is the one the host asked for.
THEOREM PlacedBlock == Spec => []Placed
<1>1. IInv => Placed
  BY WholeBlock DEF Placed, PlaceInv
<1> QED BY <1>1, Invariance, PTL

=============================================================================
