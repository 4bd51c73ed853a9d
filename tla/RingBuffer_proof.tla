-------------------------- MODULE RingBuffer_proof --------------------------
(* Safety of the ring buffer for every size and every number of writes.    *)
EXTENDS RingBuffer, TLAPS

\* Steps forward from slot t to slot p: Size if they are the same slot.
After(t, p) == IF p > t THEN p - t ELSE p - t + Size

\* The items read and given back: threadcurrent has moved past them.
Stored == Len(received) - (IF reader = "store" THEN 1 ELSE 0)

Reading == {"step", "transfer", "store"}

\* The cursors are as far apart as there are unread items.
Distance == After(threadcurrent, current) = published - Stored + 1

\* During read_hook the task stays behind its snapshot, the snapshot behind current.
Pass ==
  reader \in Reading =>
    /\ After(threadcurrent, rCurrent) <= After(threadcurrent, current)
    /\ rThread = IF reader = "step" THEN threadcurrent ELSE Advance(threadcurrent)
    /\ reader # "step" => rThread # rCurrent

\* The slots between the cursors hold the unread items in order.
Contents ==
  \A p \in Slots : After(threadcurrent, p) < After(threadcurrent, current)
                     => slot[p] = Stored + After(threadcurrent, p)

\* A slot being written is free, and holds the next item before current is stored.
Writing ==
  /\ writer \in {"write", "advance"} => current # threadcurrent
  /\ writer = "advance" => slot[current] = published + 1

\* The snapshot is out of date only if a notification is pending or about to be given.
Told == (reader \in Reading /\ rCurrent # current) => (notify \/ writer = "notify")

IInv ==
  /\ TypeOK /\ Distance /\ Pass /\ Contents /\ Writing /\ Told /\ NoLostWakeup /\ Fifo

-----------------------------------------------------------------------------
(* Distances on the ring.                                                  *)

\* The cursors never leave the ring.
LEMMA AdvanceType == \A p \in Slots : Advance(p) \in Slots
  BY RingAssumption DEF Slots, Advance

\* A distance is a number of slots.
LEMMA AfterType == \A t, p \in Slots : After(t, p) \in 1 .. Size
  BY RingAssumption DEF Slots, After

\* The next slot is the one at distance 1.
LEMMA AfterNext == \A t, p \in Slots : After(t, p) = 1 <=> p = Advance(t)
  BY RingAssumption DEF Slots, After, Advance

\* Moving the far end forward adds one, unless it closes the ring.
LEMMA AfterAdvance ==
  \A t, p \in Slots : p # t => After(t, Advance(p)) = After(t, p) + 1
  BY RingAssumption DEF Slots, After, Advance

\* Moving the near end forward takes one off, unless it passes the far end.
LEMMA AdvanceAfter ==
  \A t, p \in Slots : After(Advance(t), p) = IF p = Advance(t) THEN Size ELSE After(t, p) - 1
  BY RingAssumption DEF Slots, After, Advance

\* Full distance means the same slot.
LEMMA AfterFull == \A t, p \in Slots : After(t, p) = Size <=> p = t
  BY RingAssumption DEF Slots, After

\* Different slots are at different distances.
LEMMA AfterInjective == \A t, p, q \in Slots : After(t, p) = After(t, q) => p = q
  BY RingAssumption DEF Slots, After

-----------------------------------------------------------------------------
(* IInv holds initially and every step preserves it.                       *)

\* The empty ring: current is one ahead of threadcurrent.
LEMMA InitInv == Init => IInv
<1> SUFFICES ASSUME Init PROVE IInv
  OBVIOUS
<1> USE RingAssumption DEF Init
<1>1. TypeOK
  <2>1. 0 \in Slots /\ 1 \in Slots /\ slot \in [Slots -> Nat]
    BY DEF Slots
  <2>2. received \in Seq(Nat)
    OBVIOUS
  <2> QED BY <2>1, <2>2 DEF TypeOK
<1>2. Distance /\ Pass /\ Writing /\ Told /\ NoLostWakeup /\ Fifo
  BY DEF Distance, After, Stored, Pass, Reading, Writing, Told, NoLostWakeup, Unread, Fifo
<1>3. Contents
  BY DEF Contents, After, Slots
<1> QED BY <1>1, <1>2, <1>3 DEF IInv

\* Writing the slot at current leaves the unread items alone.
LEMMA SlotFree ==
  ASSUME TypeOK, Contents, slot' = [slot EXCEPT ![current] = published + 1],
         UNCHANGED <<current, threadcurrent, reader, received>>
  PROVE  Contents'
<1> SUFFICES ASSUME NEW p \in Slots, After(threadcurrent, p)' < After(threadcurrent, current)'
             PROVE  slot'[p] = Stored' + After(threadcurrent, p)'
  BY DEF Contents
<1>1. After(threadcurrent, p) < After(threadcurrent, current)
      /\ After(threadcurrent, p)' = After(threadcurrent, p) /\ Stored' = Stored
  BY DEF After, Stored
<1>2. p # current
  <2>1. After(threadcurrent, current) \in Int
    BY AfterType DEF TypeOK
  <2> QED BY <1>1, <2>1
<1>3. slot'[p] = slot[p]
  BY <1>2 DEF TypeOK
<1> QED BY <1>1, <1>3 DEF Contents

\* The host's steps move current and the slot it points at, never an unread item.
LEMMA HostInv == ASSUME IInv, Host PROVE IInv'
<1> USE RingAssumption DEF hostVars, taskVars
<1>0. TypeOK /\ Distance /\ Pass /\ Contents /\ Writing /\ Told /\ NoLostWakeup /\ Fifo
  BY DEF IInv
<1>1. CASE WriteBegin
  <2>1. TypeOK'
    BY <1>0, <1>1 DEF TypeOK, WriteBegin
  <2>2. (Distance /\ Pass /\ Contents /\ Fifo)'
    BY <1>0, <1>1 DEF WriteBegin, Distance, After, Stored, Pass, Reading, Contents, Fifo
  <2>3. (Writing /\ Told /\ NoLostWakeup)'
    BY <1>0, <1>1 DEF WriteBegin, Full, Writing, Told, Reading, NoLostWakeup, Unread
  <2> QED BY <2>1, <2>2, <2>3 DEF IInv
<1>2. CASE WriteSlot
  <2>1. TypeOK'
    BY <1>0, <1>2 DEF TypeOK, WriteSlot
  <2>2. (Distance /\ Pass /\ Fifo)'
    BY <1>0, <1>2 DEF WriteSlot, Distance, After, Stored, Pass, Reading, Fifo
  <2>3. Contents'
    BY <1>0, <1>2, SlotFree DEF WriteSlot
  <2>4. (Writing /\ Told /\ NoLostWakeup)'
    BY <1>0, <1>2 DEF WriteSlot, Writing, Told, Reading, NoLostWakeup, Unread, TypeOK
  <2> QED BY <2>1, <2>2, <2>3, <2>4 DEF IInv
<1>3. CASE StoreCurrent
  <2> DEFINE next == Advance(current)
  <2>1. TypeOK'
    BY <1>0, <1>3, AdvanceType DEF TypeOK, StoreCurrent
  <2>2. After(threadcurrent, next) = After(threadcurrent, current) + 1
    BY <1>0, <1>3, AfterAdvance DEF TypeOK, Writing, StoreCurrent
  <2>3. /\ current' = next /\ threadcurrent' = threadcurrent /\ slot' = slot
        /\ published' = published + 1 /\ received' = received /\ reader' = reader
        /\ rThread' = rThread /\ rCurrent' = rCurrent /\ writer' = "notify"
    BY <1>3 DEF StoreCurrent
  <2>4. Stored' = Stored
    BY <2>3 DEF Stored
  <2>5. After(threadcurrent, current)' = After(threadcurrent, current) + 1
    BY <2>2, <2>3 DEF After
  <2>6. Stored \in Int /\ published \in Int /\ After(threadcurrent, current) \in Int
        /\ (reader \in Reading => After(threadcurrent, rCurrent) \in Int)
    BY <1>0, AfterType DEF TypeOK, Stored
  <2>7. Distance'
    BY <1>0, <2>3, <2>4, <2>5, <2>6 DEF Distance
  <2>8. Pass'
    <3>1. After(threadcurrent, rCurrent)' = After(threadcurrent, rCurrent)
      BY <2>3 DEF After
    <3> QED BY <1>0, <2>3, <2>5, <2>6, <3>1 DEF Pass, Reading
  <2>9. Contents'
    <3> SUFFICES ASSUME NEW p \in Slots, After(threadcurrent, p)' < After(threadcurrent, current)'
                 PROVE  slot'[p] = Stored' + After(threadcurrent, p)'
      BY DEF Contents
    <3>1. After(threadcurrent, p)' = After(threadcurrent, p) /\ After(threadcurrent, p) \in Int
      BY <1>0, <2>3, AfterType DEF After, TypeOK
    <3>2. CASE After(threadcurrent, p) = After(threadcurrent, current)
      <4>1. p = current
        BY <1>0, <3>2, AfterInjective DEF TypeOK
      <4>2. slot[p] = published + 1
        BY <1>0, <1>3, <4>1 DEF Writing, StoreCurrent
      <4> QED BY <1>0, <2>3, <2>4, <2>6, <3>1, <3>2, <4>2 DEF Distance
    <3>3. CASE After(threadcurrent, p) # After(threadcurrent, current)
      BY <1>0, <2>3, <2>4, <2>5, <2>6, <3>1, <3>3 DEF Contents
    <3> QED BY <3>2, <3>3
  <2>10. (Writing /\ Told /\ NoLostWakeup /\ Fifo)'
    BY <1>0, <2>3 DEF Writing, Told, NoLostWakeup, Fifo
  <2> QED BY <2>1, <2>7, <2>8, <2>9, <2>10 DEF IInv
<1>4. CASE Notify
  <2>1. TypeOK'
    BY <1>0, <1>4 DEF TypeOK, Notify
  <2>2. (Distance /\ Pass /\ Contents /\ Fifo)'
    BY <1>0, <1>4 DEF Notify, Distance, After, Stored, Pass, Reading, Contents, Fifo
  <2>3. (Writing /\ Told /\ NoLostWakeup)'
    BY <1>4 DEF Notify, Writing, Told, NoLostWakeup
  <2> QED BY <2>1, <2>2, <2>3 DEF IInv
<1>5. CASE Overwrite
  <2>1. TypeOK'
    BY <1>0, <1>5 DEF TypeOK, Overwrite
  <2>2. (Distance /\ Pass /\ Fifo /\ Told /\ NoLostWakeup /\ Writing)'
    BY <1>0, <1>5 DEF Overwrite, Distance, After, Stored, Pass, Reading, Fifo, Told,
                      NoLostWakeup, Unread, Writing
  <2>3. Contents'
    BY <1>0, <1>5, SlotFree DEF Overwrite
  <2> QED BY <2>1, <2>2, <2>3 DEF IInv
<1> QED BY <1>1, <1>2, <1>3, <1>4, <1>5 DEF Host

\* The slot the task is at holds the oldest unread item, so it is not the slot at current.
LEMMA NextUnread ==
  ASSUME IInv, reader \in {"transfer", "store"}
  PROVE  rThread # current /\ slot[rThread] = Stored + 1
<1> USE RingAssumption
<1>0. TypeOK /\ Pass /\ Contents
  BY DEF IInv
<1>1. rThread = Advance(threadcurrent) /\ rThread # rCurrent
  BY <1>0 DEF Pass, Reading
<1>2. After(threadcurrent, rThread) = 1
  BY <1>0, <1>1, AfterNext DEF TypeOK
<1>3. After(threadcurrent, rCurrent) # 1
  BY <1>0, <1>1, AfterNext DEF TypeOK
<1>4. /\ After(threadcurrent, rCurrent) \in 1 .. Size
      /\ After(threadcurrent, current) \in 1 .. Size
  BY <1>0, AfterType DEF TypeOK
<1>5. After(threadcurrent, rCurrent) <= After(threadcurrent, current)
  BY <1>0 DEF Pass, Reading
<1>6. 1 < After(threadcurrent, current)
  BY <1>3, <1>4, <1>5
<1> QED BY <1>0, <1>2, <1>6 DEF Contents, TypeOK

\* The task moves threadcurrent past an item only after transfer() has been given that item,
\* and it looks again whenever its snapshot was out of date.
LEMMA TaskInv == ASSUME IInv, Task PROVE IInv'
<1> USE RingAssumption DEF hostVars, taskVars
<1>0. TypeOK /\ Distance /\ Pass /\ Contents /\ Writing /\ Told /\ NoLostWakeup /\ Fifo
  BY DEF IInv
<1>1. CASE LoopTop
  <2>1. TypeOK'
    BY <1>0, <1>1 DEF TypeOK, LoopTop
  <2>2. (Distance /\ Pass /\ Contents /\ Fifo)'
    BY <1>0, <1>1 DEF LoopTop, Distance, After, Stored, Pass, Reading, Contents, Fifo
  <2>3. (Writing /\ Told /\ NoLostWakeup)'
    BY <1>0, <1>1 DEF LoopTop, Writing, Told, Reading, NoLostWakeup, Unread
  <2> QED BY <2>1, <2>2, <2>3 DEF IInv
<1>2. CASE Poll
  <2>1. TypeOK'
    BY <1>0, <1>2 DEF TypeOK, Poll
  <2>2. (Distance /\ Pass /\ Contents /\ Fifo)'
    BY <1>0, <1>2 DEF Poll, Distance, After, Stored, Pass, Reading, Contents, Fifo
  <2>3. (Writing /\ Told /\ NoLostWakeup)'
    BY <1>0, <1>2 DEF Poll, Writing, Told, Reading, NoLostWakeup, Unread
  <2> QED BY <2>1, <2>2, <2>3 DEF IInv
<1>3. CASE Snapshot
  <2>1. TypeOK'
    BY <1>0, <1>3 DEF TypeOK, Snapshot
  <2>2. (Distance /\ Contents /\ Fifo /\ Writing /\ Told /\ NoLostWakeup)'
    BY <1>0, <1>3 DEF Snapshot, Distance, After, Stored, Contents, Fifo, Writing, Told,
                      NoLostWakeup
  <2>3. Pass'
    <3>1. After(threadcurrent, current) \in Int
      BY <1>0, AfterType DEF TypeOK
    <3>2. /\ After(threadcurrent, rCurrent)' = After(threadcurrent, current)
          /\ After(threadcurrent, current)' = After(threadcurrent, current)
      BY <1>3 DEF Snapshot, After
    <3> QED BY <1>3, <3>1, <3>2 DEF Snapshot, Pass
  <2> QED BY <2>1, <2>2, <2>3 DEF IInv
<1>4. CASE Step
  <2>1. TypeOK'
    BY <1>0, <1>4, AdvanceType DEF TypeOK, Step
  <2>2. (Distance /\ Contents /\ Fifo /\ Writing)'
    BY <1>0, <1>4 DEF Step, Distance, After, Stored, Contents, Fifo, Writing
  <2>3. Pass'
    <3>1. /\ After(threadcurrent, rCurrent)' = After(threadcurrent, rCurrent)
          /\ After(threadcurrent, current)' = After(threadcurrent, current)
          /\ Advance(threadcurrent)' = Advance(threadcurrent)
      BY <1>4 DEF Step, After, Advance
    <3> QED BY <1>0, <1>4, <3>1 DEF Step, Pass, Reading
  <2>4. (Told /\ NoLostWakeup)'
    <3>1. CASE Advance(rThread) # rCurrent
      BY <1>0, <1>4, <3>1 DEF Step, Told, Reading, NoLostWakeup
    <3>2. CASE Advance(rThread) = rCurrent
      <4>1. After(threadcurrent, rCurrent) = 1
        BY <1>0, <1>4, <3>2, AfterNext DEF Step, Pass, Reading, TypeOK
      <4>2. CASE rCurrent = current
        <5>1. published - Len(received) = 0
          BY <1>0, <1>4, <4>1, <4>2 DEF Step, Distance, Stored, TypeOK
        <5> QED BY <1>4, <3>2, <5>1 DEF Step, Told, Reading, NoLostWakeup, Unread
      <4>3. CASE rCurrent # current
        BY <1>0, <1>4, <4>3 DEF Step, Told, Reading, NoLostWakeup
      <4> QED BY <4>2, <4>3
    <3> QED BY <3>1, <3>2
  <2> QED BY <2>1, <2>2, <2>3, <2>4 DEF IInv
<1>5. CASE Transfer
  <2>1. TypeOK'
    <3>1. received' \in Seq(Nat)
      BY <1>0, <1>5 DEF TypeOK, Transfer
    <3> QED BY <1>0, <1>5, <3>1 DEF TypeOK, Transfer
  <2>2. Len(received') = Len(received) + 1 /\ Stored' = Stored
    BY <1>0, <1>5 DEF Transfer, Stored, TypeOK
  <2>3. (Distance /\ Contents /\ Writing)'
    BY <1>0, <1>5, <2>2 DEF Transfer, Distance, After, Contents, Writing
  <2>4. Pass'
    <3>1. /\ After(threadcurrent, rCurrent)' = After(threadcurrent, rCurrent)
          /\ After(threadcurrent, current)' = After(threadcurrent, current)
          /\ Advance(threadcurrent)' = Advance(threadcurrent)
      BY <1>5 DEF Transfer, After, Advance
    <3> QED BY <1>0, <1>5, <3>1 DEF Transfer, Pass, Reading
  <2>5. (Told /\ NoLostWakeup)'
    BY <1>0, <1>5 DEF Transfer, Told, Reading, NoLostWakeup
  <2>6. slot[rThread] = Len(received) + 1
    BY <1>0, <1>5, NextUnread DEF Transfer, Reading, Stored
  <2>7. Fifo'
    BY <1>0, <1>5, <2>2, <2>6 DEF Fifo, Transfer, TypeOK
  <2> QED BY <2>1, <2>3, <2>4, <2>5, <2>7 DEF IInv
<1>6. CASE StoreThread
  <2> DEFINE next == Advance(threadcurrent)
  <2>1. TypeOK'
    BY <1>0, <1>6 DEF TypeOK, StoreThread
  <2>2. /\ threadcurrent' = next /\ rThread = next /\ rThread' = next /\ rCurrent' = rCurrent
        /\ current' = current /\ slot' = slot /\ received' = received /\ reader' = "step"
        /\ published' = published /\ Stored' = Stored + 1 /\ reader = "store"
    BY <1>0, <1>6 DEF StoreThread, Pass, Reading, Stored, TypeOK
  <2>3. next # rCurrent /\ next # current
    BY <1>0, <1>6, <2>2, NextUnread DEF StoreThread, Reading, Pass
  <2>4. \A p \in Slots : After(threadcurrent, p)'
                          = IF p = next THEN Size ELSE After(threadcurrent, p) - 1
    BY <1>0, <2>2, AdvanceAfter DEF TypeOK, After
  <2>5. After(threadcurrent, current)' = After(threadcurrent, current) - 1
    BY <1>0, <2>2, <2>3, AdvanceAfter DEF TypeOK, After
  <2>6. After(threadcurrent, rCurrent)' = After(threadcurrent, rCurrent) - 1
    BY <1>0, <2>2, <2>3, AdvanceAfter DEF TypeOK, After
  <2>7. /\ Stored \in Int /\ published \in Int
        /\ After(threadcurrent, current) \in 1 .. Size
        /\ After(threadcurrent, rCurrent) \in 1 .. Size
        /\ \A p \in Slots : After(threadcurrent, p) \in 1 .. Size
    BY <1>0, AfterType DEF TypeOK, Stored
  <2>8. Distance'
    BY <1>0, <2>2, <2>5, <2>7 DEF Distance
  <2>9. Pass'
    BY <1>0, <2>2, <2>5, <2>6, <2>7 DEF Pass, Reading
  <2>10. Contents'
    <3> SUFFICES ASSUME NEW p \in Slots, After(threadcurrent, p)' < After(threadcurrent, current)'
                 PROVE  slot'[p] = Stored' + After(threadcurrent, p)'
      BY DEF Contents
    <3>1. p # next
      BY <2>4, <2>5, <2>7
    <3>2. After(threadcurrent, p)' = After(threadcurrent, p) - 1
      BY <2>4, <3>1
    <3>3. slot[p] = Stored + After(threadcurrent, p)
      BY <1>0, <2>5, <2>7, <3>2 DEF Contents
    <3> QED BY <2>2, <2>7, <3>2, <3>3
  <2>11. (Writing /\ Fifo)'
    <3>1. writer \in {"write", "advance"} => current # next
      BY <2>3
    <3> QED BY <1>0, <2>2, <3>1, <1>6 DEF Writing, Fifo, StoreThread
  <2>12. (Told /\ NoLostWakeup)'
    BY <1>0, <1>6 DEF StoreThread, Told, Reading, NoLostWakeup
  <2> QED BY <2>1, <2>8, <2>9, <2>10, <2>11, <2>12 DEF IInv
<1> QED BY <1>1, <1>2, <1>3, <1>4, <1>5, <1>6 DEF Task

\* A step that stutters, or only asks the loop to stop, changes nothing IInv speaks of.
LEMMA OtherInv == ASSUME IInv, RequestStop \/ UNCHANGED vars PROVE IInv'
<1> USE DEF IInv, hostVars, taskVars
<1>1. CASE RequestStop
  <2>1. TypeOK'
    BY <1>1 DEF TypeOK, RequestStop
  <2>2. (Distance /\ Pass /\ Contents /\ Writing /\ Told /\ NoLostWakeup /\ Fifo)'
    BY <1>1 DEF RequestStop, Distance, After, Stored, Pass, Contents, Writing, Told,
                NoLostWakeup, Unread, Fifo
  <2> QED BY <2>1, <2>2
<1>2. CASE UNCHANGED vars
  <2>1. TypeOK'
    BY <1>2 DEF TypeOK, vars
  <2>2. (Distance /\ Pass /\ Contents /\ Writing /\ Told /\ NoLostWakeup /\ Fifo)'
    BY <1>2 DEF vars, Distance, After, Stored, Pass, Contents, Writing, Told,
                NoLostWakeup, Unread, Fifo
  <2> QED BY <2>1, <2>2
<1> QED BY <1>1, <1>2

\* IInv is inductive.
LEMMA Inductive == ASSUME IInv, [Next]_vars PROVE IInv'
  BY HostInv, TaskInv, OtherInv DEF Next, Terminated

-----------------------------------------------------------------------------
(* The theorems.                                                           *)

\* IInv holds in every reachable state.
LEMMA Invariance == Spec => []IInv
  BY InitInv, Inductive, PTL DEF Spec

\* Both cursors stay inside the ring for every size (the wraps of RingBuffer.hpp 54-56 and
\* ringbuffer_helpers.hpp 22-24).
THEOREM TypeCorrect == Spec => []TypeOK
<1>1. IInv => TypeOK
  BY DEF IInv
<1> QED BY <1>1, Invariance, PTL

\* transfer() gets every item in the order WriteInterleaved wrote them, none twice and none
\* skipped, however often the ring wraps.
THEOREM FifoOrder == Spec => []Fifo
<1>1. IInv => Fifo
  BY DEF IInv
<1> QED BY <1>1, Invariance, PTL

\* No item is left unread without a notification that makes read_hook look for it.
THEOREM WakeupKept == Spec => []NoLostWakeup
<1>1. IInv => NoLostWakeup
  BY DEF IInv
<1> QED BY <1>1, Invariance, PTL

\* The host and the task never access a slot at once, not even when WriteInterleaved writes
\* "the last bit" into a full ring before it fails.
THEOREM RaceFree == Spec => []NoRace
<1>1. IInv => NoRace
  BY NextUnread DEF NoRace
<1> QED BY <1>1, Invariance, PTL

\* WriteInterleaved fails only if Size - 1 items are unread.
THEOREM AbortOnlyIfFull == Spec => AbortsOnlyWhenFull
<1> DEFINE Fills == (writer # "overwrite" /\ writer' = "overwrite") => Unread = Size - 1
<1>1. ASSUME IInv, [Next]_vars PROVE [Fills]_vars
  <2> SUFFICES ASSUME writer # "overwrite", writer' = "overwrite" PROVE Unread = Size - 1
    OBVIOUS
  <2> USE <1>1 DEF IInv, hostVars, taskVars
  <2>1. WriteBegin /\ Full
    BY DEF Next, Host, Task, vars, WriteBegin, WriteSlot, StoreCurrent, Notify, Overwrite,
           LoopTop, Poll, Snapshot, Step, Transfer, StoreThread, RequestStop, Terminated
  <2>2. After(threadcurrent, current) = Size
    BY <2>1, AfterFull DEF Full, TypeOK
  <2>3. published - Stored = Size - 1 /\ Unread = published - Stored
    BY <2>2, RingAssumption DEF Distance, Stored, Unread, TypeOK
  <2> QED BY <2>3
<1> QED BY <1>1, Invariance, PTL DEF Spec, AbortsOnlyWhenFull

=============================================================================
