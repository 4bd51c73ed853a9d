-------------------------- MODULE SerialLink_proof --------------------------
(* The types of the state; that the event loops and the wire take strict turns; what the locks *)
(* of the two sides, their block readers and writers and the byte under way have to do with *)
(* each other; and the order of a shutdown. The first two hold whatever happens, the others, *)
(* whether or not the applications take turns, for any number of objects while nobody is *)
(* destroyed and for one object destroyed at any moment: with more, a shutdown code may come *)
(* between the acknowledge of an object and its data, which are then misread. *)
EXTENDS SerialLink, WellFoundedInduction, TLAPS

\* The flags, the phases and the wire's first run: all that decides whose turn it is.
TurnVars == <<flagUpdated, flagAck, wireFirst, pc>>

TurnType ==
  /\ flagUpdated \in [Sides -> BOOLEAN] /\ flagAck \in [Sides -> BOOLEAN]
  /\ wireFirst \in BOOLEAN /\ pc \in [Sides -> Phases]

\* One of the six places the byte can be: x is its kind, s its side.
Place(x, s) ==
  CASE x = "cycle" -> pc[s] # "wait"
    [] x = "updated" -> flagUpdated[s]
    [] x = "ack" -> flagAck[s]

Places == {"cycle", "updated", "ack"}

\* The byte is at one place only.
OnlyAt(x, s) == \A y \in Places, r \in Sides : Place(y, r) <=> (y = x /\ r = s)

Nowhere == \A y \in Places, r \in Sides : ~Place(y, r)

TurnInv ==
  /\ TurnType
  /\ IF wireFirst THEN Nowhere ELSE \E x \in Places, s \in Sides : OnlyAt(x, s)

-----------------------------------------------------------------------------
(* The six ways a step can pass the turn on.                               *)

\* A cycle starts, the byte is read.
Begins(s) ==
  /\ pc[s] = "wait" /\ flagUpdated[s]
  /\ flagUpdated' = [flagUpdated EXCEPT ![s] = FALSE]
  /\ pc' = [pc EXCEPT ![s] = "transfer"]
  /\ UNCHANGED <<flagAck, wireFirst>>

\* A cycle goes on to its next phase.
GoesOn(s) ==
  /\ pc[s] # "wait"
  /\ \E p \in Phases \ {"wait"} : pc' = [pc EXCEPT ![s] = p]
  /\ UNCHANGED <<flagUpdated, flagAck, wireFirst>>

\* A cycle ends, the byte is written.
Ends(s) ==
  /\ pc[s] # "wait"
  /\ pc' = [pc EXCEPT ![s] = "wait"]
  /\ flagAck' = [flagAck EXCEPT ![s] = TRUE]
  /\ UNCHANGED <<flagUpdated, wireFirst>>

\* The first cycle only writes.
Answers(s) ==
  /\ pc[s] = "wait" /\ flagUpdated[s]
  /\ flagUpdated' = [flagUpdated EXCEPT ![s] = FALSE]
  /\ flagAck' = [flagAck EXCEPT ![s] = TRUE]
  /\ UNCHANGED <<wireFirst, pc>>

\* The byte is carried to the peer.
Carries(s) ==
  /\ ~wireFirst /\ flagAck[s]
  /\ flagAck' = [flagAck EXCEPT ![s] = FALSE]
  /\ flagUpdated' = [flagUpdated EXCEPT ![Peer(s)] = TRUE]
  /\ UNCHANGED <<wireFirst, pc>>

Starts ==
  /\ wireFirst /\ wireFirst' = FALSE
  /\ flagUpdated' = [flagUpdated EXCEPT !["fpga"] = TRUE]
  /\ UNCHANGED <<flagAck, pc>>

Passes(s) == Begins(s) \/ GoesOn(s) \/ Ends(s) \/ Answers(s) \/ Carries(s)

\* A step of the event loop passes the turn on or leaves it where it is.
LEMMA EventLoopPasses ==
  ASSUME NEW s \in Sides, EventLoop(s) PROVE Passes(s) \/ UNCHANGED TurnVars
<1> USE DEF Passes, TurnVars, lineVars, loopVars, Abort, At, Handshake, Reads, ReadByte, EndCycle
<1>1. CASE FirstCycle(s)
  BY <1>1 DEF FirstCycle, Answers
<1>2. CASE ReadPoweron(s) \/ ReadIdle(s) \/ ReadShutdown(s) \/ ReadSighup(s)
  <2>1. CASE ReadPoweron(s)
    BY <2>1 DEF ReadPoweron, Begins
  <2>2. CASE ReadIdle(s)
    BY <2>2 DEF ReadIdle, Begins
  <2>3. CASE ReadShutdown(s)
    BY <2>3 DEF ReadShutdown, Begins
  <2>4. CASE ReadSighup(s)
    BY <2>4 DEF ReadSighup, Begins
  <2> QED BY <1>2, <2>1, <2>2, <2>3, <2>4
<1>3. CASE \E id \in 0 .. NumIds : ReadRequest(s, id)
  BY <1>3 DEF ReadRequest, Begins
<1>4. CASE ReadObject(s)
  BY <1>4 DEF ReadObject, Begins
<1>5. CASE TransferHook(s)
  BY <1>5 DEF TransferHook, GoesOn, Phases
<1>6. CASE AcknowledgeHook(s)
  BY <1>6 DEF AcknowledgeHook, GoesOn, Phases
<1>7. CASE Scan(s)
  BY <1>7 DEF Scan, GoesOn, Ends, Phases
<1>8. CASE SendShutdown(s) \/ SendSighup(s) \/ SendIdle(s)
  <2>1. CASE SendShutdown(s)
    BY <2>1 DEF SendShutdown, Idle, Ends
  <2>2. CASE SendSighup(s)
    BY <2>2 DEF SendSighup, Idle, Ends
  <2>3. CASE SendIdle(s)
    BY <2>3 DEF SendIdle, Idle, Ends
  <2> QED BY <1>8, <2>1, <2>2, <2>3
<1>9. CASE StartObject(s) \/ WriteObject(s)
  <2>1. CASE StartObject(s)
    BY <2>1 DEF StartObject, SendSextet, Idle, Ends
  <2>2. CASE WriteObject(s)
    BY <2>2 DEF WriteObject, SendSextet, Ends
  <2> QED BY <1>9, <2>1, <2>2
<1>10. CASE WriteFourth(s)
  BY <1>10 DEF WriteFourth, Ends
<1> QED BY <1>1, <1>2, <1>3, <1>4, <1>5, <1>6, <1>7, <1>8, <1>9, <1>10 DEF EventLoop

\* The wire carries the byte; the applications, the resolvers and the destructors leave it.
LEMMA NextPasses ==
  ASSUME [Next]_vars PROVE (\E s \in Sides : Passes(s)) \/ Starts \/ UNCHANGED TurnVars
<1> USE DEF TurnVars, lineVars, loopVars
<1>1. CASE \E s \in Sides : EventLoop(s)
  BY <1>1, EventLoopPasses
<1>2. CASE \E s \in Sides : Wire(s)
  BY <1>2 DEF Wire, Carries, Passes
<1>3. CASE \E s \in Sides : Resolver(s) \/ Destroy(s)
  BY <1>3 DEF Resolver, Resolve, Destroy, Abort
<1>4. CASE WireStart
  BY <1>4 DEF WireStart, Starts
<1>5. CASE Application
  BY <1>5 DEF Application, WriteStart, Abort
<1>6. CASE DeleteFpga \/ DeleteMcu
  BY <1>6 DEF DeleteFpga, DeleteMcu
<1>7. CASE Terminated \/ UNCHANGED vars
  BY <1>7 DEF Terminated, vars
<1> QED BY <1>1, <1>2, <1>3, <1>4, <1>5, <1>6, <1>7 DEF Next

-----------------------------------------------------------------------------
(* The invariant.                                                          *)

\* Nothing is under way before the wire starts.
LEMMA InitTurn == Init => TurnInv
  BY DEF Init, TurnInv, TurnType, Nowhere, Place, Places, Sides, Phases

LEMMA PassType == ASSUME TurnInv, NEW s \in Sides, Passes(s) PROVE TurnType'
<1> USE DEF TurnInv, TurnType, Sides
<1>1. CASE Begins(s)
  BY <1>1 DEF Begins, Phases
<1>2. CASE GoesOn(s)
  BY <1>2 DEF GoesOn
<1>3. CASE Ends(s)
  BY <1>3 DEF Ends, Phases
<1>4. CASE Answers(s)
  BY <1>4 DEF Answers
<1>5. CASE Carries(s)
  BY <1>5 DEF Carries, Peer
<1> QED BY <1>1, <1>2, <1>3, <1>4, <1>5 DEF Passes

\* Whoever passes the turn on had it, and it is where it was passed to.
LEMMA PassPlaces ==
  ASSUME TurnInv, NEW s \in Sides, Passes(s)
  PROVE  /\ ~wireFirst /\ wireFirst' = wireFirst
         /\ Begins(s) => OnlyAt("updated", s) /\ OnlyAt("cycle", s)'
         /\ GoesOn(s) => OnlyAt("cycle", s) /\ OnlyAt("cycle", s)'
         /\ Ends(s) => OnlyAt("cycle", s) /\ OnlyAt("ack", s)'
         /\ Answers(s) => OnlyAt("updated", s) /\ OnlyAt("ack", s)'
         /\ Carries(s) => OnlyAt("ack", s) /\ OnlyAt("updated", Peer(s))'
<1> USE DEF TurnType, Places, Sides
<1>1. ~wireFirst /\ wireFirst' = wireFirst
  BY DEF TurnInv, Nowhere, Place, Passes, Begins, GoesOn, Ends, Answers, Carries
<1>2. PICK x \in Places, r \in Sides : OnlyAt(x, r)
  BY <1>1 DEF TurnInv
<1>3. ASSUME Begins(s) PROVE OnlyAt("updated", s) /\ OnlyAt("cycle", s)'
  <2>1. OnlyAt("updated", s)
    BY <1>2, <1>3 DEF Begins, OnlyAt, Place
  <2>2. OnlyAt("cycle", s)'
    BY <2>1, <1>3 DEF TurnInv, Begins, OnlyAt, Place
  <2> QED BY <2>1, <2>2
<1>4. ASSUME GoesOn(s) PROVE OnlyAt("cycle", s) /\ OnlyAt("cycle", s)'
  <2>1. OnlyAt("cycle", s)
    BY <1>2, <1>4 DEF GoesOn, OnlyAt, Place
  <2>2. \A y \in Places, t \in Sides : Place(y, t)' <=> Place(y, t)
    <3>1. PICK p \in Phases \ {"wait"} : pc' = [pc EXCEPT ![s] = p]
      BY <1>4 DEF GoesOn
    <3>2. \A t \in Sides : pc'[t] # "wait" <=> pc[t] # "wait"
      BY <1>4, <3>1 DEF TurnInv, GoesOn
    <3> QED BY <3>2, <1>4 DEF GoesOn, Place
  <2> QED BY <2>1, <2>2 DEF OnlyAt
<1>5. ASSUME Ends(s) PROVE OnlyAt("cycle", s) /\ OnlyAt("ack", s)'
  <2>1. OnlyAt("cycle", s)
    BY <1>2, <1>5 DEF Ends, OnlyAt, Place
  <2>2. OnlyAt("ack", s)'
    BY <2>1, <1>5 DEF TurnInv, Ends, OnlyAt, Place
  <2> QED BY <2>1, <2>2
<1>6. ASSUME Answers(s) PROVE OnlyAt("updated", s) /\ OnlyAt("ack", s)'
  <2>1. OnlyAt("updated", s)
    BY <1>2, <1>6 DEF Answers, OnlyAt, Place
  <2>2. OnlyAt("ack", s)'
    BY <2>1, <1>6 DEF TurnInv, Answers, OnlyAt, Place
  <2> QED BY <2>1, <2>2
<1>7. ASSUME Carries(s) PROVE OnlyAt("ack", s) /\ OnlyAt("updated", Peer(s))'
  <2>1. OnlyAt("ack", s)
    BY <1>2, <1>7 DEF Carries, OnlyAt, Place
  <2>2. OnlyAt("updated", Peer(s))'
    BY <2>1, <1>7 DEF TurnInv, Carries, OnlyAt, Place, Peer
  <2> QED BY <2>1, <2>2
<1> QED BY <1>1, <1>3, <1>4, <1>5, <1>6, <1>7

LEMMA PassKeeps == ASSUME TurnInv, NEW s \in Sides, Passes(s) PROVE TurnInv'
<1>1. \E x \in Places, r \in Sides : OnlyAt(x, r)'
  BY PassPlaces DEF Passes, Places, Sides, Peer
<1> QED BY <1>1, PassType, PassPlaces DEF TurnInv

\* The wire's first run puts the one byte under way.
LEMMA StartKeeps == ASSUME TurnInv, Starts PROVE TurnInv'
<1>1. TurnType'
  BY DEF TurnInv, TurnType, Starts, Sides
<1>2. OnlyAt("updated", "fpga")'
  BY DEF TurnInv, TurnType, Starts, Nowhere, OnlyAt, Place, Places, Sides
<1> QED BY <1>1, <1>2 DEF TurnInv, Starts, Places, Sides

\* TurnInv is inductive.
LEMMA TurnInductive == ASSUME TurnInv, [Next]_vars PROVE TurnInv'
<1>1. CASE \E s \in Sides : Passes(s)
  BY <1>1, PassKeeps
<1>2. CASE Starts
  BY <1>2, StartKeeps
<1>3. CASE UNCHANGED TurnVars
  <2>1. TurnType' = TurnType /\ wireFirst' = wireFirst
    BY <1>3 DEF TurnVars, TurnType
  <2>2. \A x, s : Place(x, s)' <=> Place(x, s)
    BY <1>3 DEF TurnVars, Place
  <2>3. (Nowhere' <=> Nowhere) /\ \A x, s : OnlyAt(x, s)' <=> OnlyAt(x, s)
    BY <2>2 DEF Nowhere, OnlyAt
  <2> QED BY <2>1, <2>3 DEF TurnInv
<1>4. (\E s \in Sides : Passes(s)) \/ Starts \/ UNCHANGED TurnVars
  BY NextPasses
<1> QED BY <1>1, <1>2, <1>3, <1>4

\* The places of TurnInv are the turns of OneByte.
LEMMA TurnsArePlaces ==
  /\ \A t \in Turns : \E x \in Places, s \in Sides : t = <<x, s>> /\ Place(x, s)
  /\ \A x \in Places, s \in Sides : Place(x, s) => <<x, s>> \in Turns
<1>1. ASSUME NEW t \in Turns PROVE \E x \in Places, s \in Sides : t = <<x, s>> /\ Place(x, s)
  BY <1>1 DEF Turns, Places, Place
<1>2. ASSUME NEW x \in Places, NEW s \in Sides, Place(x, s) PROVE <<x, s>> \in Turns
  BY <1>2 DEF Turns, Places, Place
<1> QED BY <1>1, <1>2

\* There is never a second byte under way between the FPGA and the MCU, and the one there is
\* never gets lost: the Updated and Acknowledge flags of the two ComBuses (Serial.hpp 77-88)
\* and the phases of the two event loops name one turn at a time.
THEOREM Lockstep == Spec => []OneByte
<1>1. TurnInv => OneByte
  <2> SUFFICES ASSUME TurnInv PROVE OneByte
    OBVIOUS
  <2>1. CASE wireFirst
    BY <2>1, TurnsArePlaces DEF TurnInv, Nowhere, OneByte
  <2>2. CASE ~wireFirst
    <3>1. PICK x \in Places, s \in Sides : OnlyAt(x, s)
      BY <2>2 DEF TurnInv
    <3>2. Turns = {<<x, s>>}
      BY <3>1, TurnsArePlaces DEF OnlyAt
    <3> QED BY <2>2, <3>2 DEF OneByte
  <2> QED BY <2>1, <2>2
<1> QED BY <1>1, InitTurn, TurnInductive, PTL DEF Spec

-----------------------------------------------------------------------------
(* The types.                                                              *)

\* The type invariant, group by group, and that an object being sent is one.
LineType ==
  /\ flagUpdated \in [Sides -> BOOLEAN] /\ flagAck \in [Sides -> BOOLEAN]
  /\ inBuf \in [Sides -> Bytes] /\ outBuf \in [Sides -> Bytes]
  /\ wireFirst \in BOOLEAN

LoopType ==
  /\ pc \in [Sides -> Phases] /\ scan \in [Sides -> 0 .. NumIds]
  /\ firstRun \in [Sides -> BOOLEAN]
  /\ incoming \in [Sides -> 0 .. NumIds] /\ waiting \in [Sides -> 0 .. NumIds]

SignalType ==
  /\ com \in [Sides -> ComType]
  /\ requesting \in [Sides -> BOOLEAN] /\ acknowledging \in [Sides -> BOOLEAN]

BlockType ==
  /\ readLock \in [Sides -> SUBSET Ids] /\ transfer \in [Sides -> SUBSET Ids]
  /\ recv \in [Sides -> RecvType] /\ send \in [Sides -> SendType]
  /\ tx \in [Sides -> [Ids -> Nat]] /\ rx \in [Sides -> [Ids -> Nat]]
  /\ \A s \in Sides : IF send[s].lock THEN send[s].origin \in Ids ELSE send[s].count = 0
  /\ \A s \in Sides : recv[s].lock => recv[s].dest \in Ids

SwitchType ==
  /\ readStarted \in [Sides -> SUBSET Ids]
  /\ syncMe \in [Sides -> SUBSET Ids] /\ pending \in [Sides -> SUBSET Ids]
  /\ readAck \in [Sides -> SUBSET Ids] /\ readFault \in [Sides -> SUBSET Ids]
  /\ writeAck \in [Sides -> SUBSET Ids] /\ writeFault \in [Sides -> SUBSET Ids]

AppType ==
  /\ obj \in [Sides -> [Ids -> 0 .. MaxWrites]]
  /\ turn \in [Sides -> SUBSET Ids]
  /\ writes \in 0 .. MaxWrites
  /\ life \in [Sides -> {"alive", "deleting", "gone"}]

TypeInv ==
  /\ LineType /\ LoopType /\ SignalType /\ BlockType /\ SwitchType /\ AppType
  /\ aborted \in ErrorCodes

LEMMA TypeParts == TypeInv => TypeOK
  BY Zenon DEF TypeInv, TypeOK, LineType, LoopType, SignalType, BlockType, SwitchType, AppType

\* The ids, and the object that is chosen.
LEMMA IdFacts ==
  /\ NumIds \in Nat /\ Ids \subseteq Nat /\ NoId = NumIds /\ NoId \notin Ids /\ 0 \in Ids
  /\ \A j \in 0 .. NumIds : j \in Ids <=> j # NoId
  /\ Ids \subseteq 0 .. NumIds /\ NoId \in 0 .. NumIds
BY LinkAssumption DEF Ids, NoId

\* What is sent is a byte.
LEMMA ControlType ==
  ASSUME TypeInv, NEW s \in Sides, NEW kind \in Kinds, NEW id \in 0 .. NumIds
  PROVE Control(s, kind, id) \in Bytes
BY LinkAssumption DEF TypeInv, SignalType, Control, Bytes

LEMMA SextetType ==
  ASSUME TypeInv, NEW s \in Sides, NEW id \in 0 .. NumIds, NEW pos \in 0 .. Triples - 1,
         NEW count \in 0 .. 3, NEW val \in 0 .. MaxWrites
  PROVE Sextet(s, id, pos, count, val) \in Bytes
BY DEF TypeInv, SignalType, Sextet, Bytes, Kinds

LEMMA ReceivedType ==
  ASSUME TypeInv, NEW s \in Sides PROVE Received(s) \in ComType
BY DEF TypeInv, SignalType, LineType, Received, ComType, Bytes

LEMMA TypeInitially == Init => TypeInv
<1> SUFFICES ASSUME Init PROVE TypeInv
  OBVIOUS
<1> USE LinkAssumption, IdFacts DEF Init
<1>1. LineType
  <2>1. BlankByte \in Bytes
    BY DEF BlankByte, Bytes, Kinds
  <2> QED BY <2>1 DEF LineType
<1>2. LoopType
  BY DEF LoopType, Phases
<1>3. SignalType
  BY DEF SignalType, ComVars, ComType
<1>4. BlockType
  BY DEF BlockType, RecvType, SendType
<1>5. SwitchType
  BY DEF SwitchType
<1>6. AppType
  BY DEF AppType
<1>7. aborted \in ErrorCodes
  BY DEF ErrorCodes
<1> QED BY <1>1, <1>2, <1>3, <1>4, <1>5, <1>6, <1>7 DEF TypeInv

\* The object that is taken is one of those that can be.
LEMMA LowestIn == ASSUME NEW S \in SUBSET Ids, S # {} PROVE Lowest(S) \in S
<1> DEFINE R == {ss \in Nat \X Nat : ss[1] < ss[2]}
<1>1. IsWellFoundedOn(R, Nat)
  BY NatLessThanWellFounded DEF OpToRel
<1>2. S \subseteq Nat
  BY IdFacts
<1> HIDE DEF R
<1>3. PICK j \in S : \A k \in S : ~(<<k, j>> \in R)
  BY <1>1, <1>2, WFMin
<1>4. ASSUME NEW k \in S PROVE j <= k
  <2>1. ~(k < j)
    BY <1>2, <1>3 DEF R
  <2> QED BY <1>2, <2>1
<1> QED BY <1>4 DEF Lowest

\* A step that leaves a group of variables alone leaves their types.
LEMMA Untouched ==
  ASSUME TypeInv
  PROVE  /\ UNCHANGED lineVars => LineType'
         /\ UNCHANGED loopVars => LoopType'
         /\ UNCHANGED signalVars => SignalType'
         /\ UNCHANGED blockVars => BlockType'
         /\ UNCHANGED switchVars => SwitchType'
         /\ UNCHANGED appVars => AppType'
         /\ UNCHANGED aborted => aborted' \in ErrorCodes
<1> USE DEF TypeInv
<1>1. UNCHANGED lineVars => LineType'
  BY DEF lineVars, LineType
<1>2. UNCHANGED loopVars => LoopType'
  BY DEF loopVars, LoopType
<1>3. UNCHANGED signalVars => SignalType'
  BY DEF signalVars, SignalType
<1>4. UNCHANGED blockVars => BlockType'
  BY DEF blockVars, BlockType
<1>5. UNCHANGED switchVars => SwitchType'
  BY DEF switchVars, SwitchType
<1>6. UNCHANGED appVars => AppType'
  BY DEF appVars, AppType
<1> QED BY <1>1, <1>2, <1>3, <1>4, <1>5, <1>6

LEMMA AbortType ==
  ASSUME TypeInv, NEW code \in ErrorCodes, Abort(code) PROVE TypeInv'
BY Untouched DEF Abort, TypeInv

LEMMA EndCycleType ==
  ASSUME TypeInv, NEW s \in Sides, NEW b \in Bytes, EndCycle(s, b)
  PROVE  LineType' /\ pc' \in [Sides -> Phases]
BY DEF TypeInv, LineType, LoopType, EndCycle, Phases

LEMMA ReadByteType ==
  ASSUME TypeInv, NEW s \in Sides, NEW c \in ComType, NEW id \in 0 .. NumIds,
         ReadByte(s), SetCom(s, c), SetIncoming(s, id)
  PROVE  LineType' /\ LoopType' /\ SignalType'
<1>1. LineType'
  BY DEF TypeInv, LineType, ReadByte
<1>2. LoopType'
  BY DEF TypeInv, LoopType, ReadByte, SetIncoming, Phases
<1>3. com' \in [Sides -> ComType] /\ acknowledging' \in [Sides -> BOOLEAN]
  BY DEF TypeInv, SignalType, ReadByte, SetCom
<1>4. requesting' \in [Sides -> BOOLEAN]
  BY Zenon DEF TypeInv, SignalType, ReadByte
<1> QED BY <1>1, <1>2, <1>3, <1>4 DEF SignalType

\* A cycle that begins with a state code or a request.
LEMMA ReadKeepsType ==
  ASSUME TypeInv, NEW s \in Sides,
         \/ ReadPoweron(s) \/ ReadIdle(s) \/ ReadSighup(s)
         \/ \E id \in 0 .. NumIds : ReadRequest(s, id)
  PROVE  TypeInv'
<1>1. CASE ReadPoweron(s)
  <2>1. CASE PoweronError(s) # "none"
    BY <1>1, <2>1, AbortType DEF ReadPoweron, PoweronError, ErrorCodes
  <2>2. CASE PoweronError(s) = "none"
    <3>1. ComVars \in ComType
      BY DEF ComVars, ComType
    <3> QED BY <1>1, <2>2, <3>1, ReadByteType, Untouched, IdFacts DEF ReadPoweron, TypeInv
  <2> QED BY <2>1, <2>2
<1>2. CASE ReadIdle(s)
  BY <1>2, ReadByteType, ReceivedType, Untouched, IdFacts DEF ReadIdle, TypeInv
<1>3. CASE ReadSighup(s)
  <2>1. CASE com[s].received_sighup
    BY <1>3, <2>1, AbortType DEF ReadSighup, ErrorCodes
  <2>2. CASE ~com[s].received_sighup
    <3>1. [Received(s) EXCEPT !.received_sighup = TRUE] \in ComType
      BY ReceivedType DEF ComType
    <3> QED BY <1>3, <2>2, <3>1, ReadByteType, Untouched, IdFacts DEF ReadSighup, TypeInv
  <2> QED BY <2>1, <2>2
<1>4. CASE \E id \in 0 .. NumIds : ReadRequest(s, id)
  <2>1. PICK id \in 0 .. NumIds : ReadRequest(s, id)
    BY <1>4
  <2>2. CASE com[s].received_sighup
    BY <2>1, <2>2, AbortType DEF ReadRequest, ErrorCodes
  <2>3. CASE ~com[s].received_sighup
    BY <2>1, <2>3, ReadByteType, ReceivedType, Untouched DEF ReadRequest, TypeInv
  <2> QED BY <2>2, <2>3
<1> QED BY <1>1, <1>2, <1>3, <1>4

LEMMA ReadShutdownKeepsType ==
  ASSUME TypeInv, NEW s \in Sides, ReadShutdown(s) PROVE TypeInv'
<1>1. CASE ShutdownError(s) # "none"
  BY <1>1, AbortType DEF ReadShutdown, ShutdownError, ErrorCodes
<1>2. CASE ShutdownError(s) = "none"
  <2> DEFINE c == [Received(s) EXCEPT !.received_com_shutdown = TRUE,
                                      !.descendants_notified = @ \/ Notifies(s) # {}]
  <2>1. c \in ComType
    <3>1. c.descendants_notified \in BOOLEAN
      BY Zenon, ReceivedType DEF ComType
    <3> QED BY <3>1, ReceivedType DEF ComType
  <2>2. ReadByte(s) /\ SetIncoming(s, NoId) /\ SetCom(s, c)
    BY <1>2 DEF ReadShutdown
  <2> HIDE DEF c
  <2>3. LineType' /\ LoopType' /\ SignalType'
    BY <2>1, <2>2, ReadByteType, IdFacts
  <2>4. SwitchType'
    <3>1. EmitInterrupted(s) => SwitchType'
      BY DEF TypeInv, SwitchType, EmitInterrupted
    <3> QED BY <1>2, <3>1, Untouched DEF ReadShutdown
  <2> QED BY <1>2, <2>3, <2>4, Untouched DEF ReadShutdown, TypeInv
<1> QED BY <1>1, <1>2

\* The first cycle, and the bytes that carry no data.
LEMMA ControlKeepsType ==
  ASSUME TypeInv, NEW s \in Sides,
         FirstCycle(s) \/ SendShutdown(s) \/ SendSighup(s) \/ SendIdle(s)
  PROVE  TypeInv'
<1> USE DEF TypeInv
<1>1. CASE FirstCycle(s)
  <2>1. Control(s, "poweron", NoId) \in Bytes
    BY ControlType, IdFacts DEF Kinds, States
  <2>2. LineType'
    BY <1>1, <2>1 DEF FirstCycle, LineType
  <2>3. LoopType'
    BY <1>1, IdFacts DEF FirstCycle, LoopType
  <2>4. SignalType'
    BY <1>1 DEF FirstCycle, SignalType
  <2> QED BY <1>1, <2>2, <2>3, <2>4, Untouched DEF FirstCycle
<1>2. CASE SendShutdown(s)
  <2>1. LineType' /\ pc' \in [Sides -> Phases]
    BY <1>2, ControlType, EndCycleType, IdFacts DEF SendShutdown, Kinds, States
  <2>2. SignalType'
    BY <1>2 DEF SendShutdown, SignalType, ComType
  <2> QED BY <1>2, <2>1, <2>2, Untouched DEF SendShutdown, LoopType
<1>3. CASE SendSighup(s)
  <2>1. LineType' /\ pc' \in [Sides -> Phases]
    BY <1>3, ControlType, EndCycleType, IdFacts DEF SendSighup, Kinds, States
  <2>2. SignalType'
    BY <1>3 DEF SendSighup, SignalType, ComType
  <2> QED BY <1>3, <2>1, <2>2, Untouched DEF SendSighup, LoopType
<1>4. CASE SendIdle(s)
  <2>1. LineType' /\ pc' \in [Sides -> Phases]
    BY <1>4, ControlType, EndCycleType, IdFacts DEF SendIdle, Kinds, States
  <2>2. SignalType'
    BY <1>4 DEF SendIdle, SignalType
  <2> QED BY <1>4, <2>1, <2>2, Untouched DEF SendIdle, LoopType
<1> QED BY <1>1, <1>2, <1>3, <1>4

\* What the block transfer makes of its positions.
LEMMA RecvUpdates ==
  ASSUME NEW r \in RecvType
  PROVE  /\ r.count < 3 => [r EXCEPT !.count = @ + 1] \in RecvType
         /\ r.pos + 1 # Triples => [r EXCEPT !.pos = @ + 1, !.count = 0] \in RecvType
         /\ [r EXCEPT !.lock = FALSE, !.pos = 0, !.count = 0] \in RecvType
         /\ \A j \in Ids : [r EXCEPT !.lock = TRUE, !.dest = j] \in RecvType
<1>1. r.pos \in 0 .. Triples - 1 /\ r.count \in 0 .. 3 /\ 0 \in 0 .. Triples - 1 /\ 0 \in 0 .. 3
  BY LinkAssumption DEF RecvType
<1>2. ASSUME r.count < 3 PROVE [r EXCEPT !.count = @ + 1] \in RecvType
  <2>1. r.count + 1 \in 0 .. 3
    BY <1>1, <1>2
  <2> QED BY <2>1, Zenon DEF RecvType
<1>3. ASSUME r.pos + 1 # Triples PROVE [r EXCEPT !.pos = @ + 1, !.count = 0] \in RecvType
  <2>1. r.pos + 1 \in 0 .. Triples - 1
    BY <1>1, <1>3, LinkAssumption
  <2> QED BY <1>1, <2>1, Zenon DEF RecvType
<1>4. [r EXCEPT !.lock = FALSE, !.pos = 0, !.count = 0] \in RecvType
  BY <1>1, Zenon DEF RecvType
<1>5. ASSUME NEW j \in Ids PROVE [r EXCEPT !.lock = TRUE, !.dest = j] \in RecvType
  <2>1. j \in 0 .. NumIds
    BY IdFacts
  <2> QED BY <2>1, Zenon DEF RecvType
<1> QED BY <1>2, <1>3, <1>4, <1>5

LEMMA SendUpdates ==
  ASSUME NEW w \in SendType
  PROVE  /\ \A val \in 0 .. MaxWrites :
              w.count < 3 => [w EXCEPT !.count = @ + 1, !.val = val] \in SendType
         /\ w.pos + 1 # Triples => [w EXCEPT !.pos = @ + 1, !.count = 0, !.val = 0] \in SendType
         /\ [w EXCEPT !.lock = FALSE, !.pos = 0, !.count = 0, !.val = 0] \in SendType
         /\ \A j \in Ids : [w EXCEPT !.lock = TRUE, !.origin = j] \in SendType
<1>1. /\ w.pos \in 0 .. Triples - 1 /\ w.count \in 0 .. 3 /\ 0 \in 0 .. Triples - 1
      /\ 0 \in 0 .. MaxWrites /\ 0 \in 0 .. 3
  BY LinkAssumption DEF SendType
<1>2. ASSUME NEW val \in 0 .. MaxWrites, w.count < 3
      PROVE  [w EXCEPT !.count = @ + 1, !.val = val] \in SendType
  <2>1. w.count + 1 \in 0 .. 3
    BY <1>1, <1>2
  <2> QED BY <2>1, Zenon DEF SendType
<1>3. ASSUME w.pos + 1 # Triples
      PROVE  [w EXCEPT !.pos = @ + 1, !.count = 0, !.val = 0] \in SendType
  <2>1. w.pos + 1 \in 0 .. Triples - 1
    BY <1>1, <1>3, LinkAssumption
  <2> QED BY <1>1, <2>1, Zenon DEF SendType
<1>4. [w EXCEPT !.lock = FALSE, !.pos = 0, !.count = 0, !.val = 0] \in SendType
  BY <1>1, Zenon DEF SendType
<1>5. ASSUME NEW j \in Ids PROVE [w EXCEPT !.lock = TRUE, !.origin = j] \in SendType
  <2>1. j \in 0 .. NumIds
    BY IdFacts
  <2> QED BY <2>1, Zenon DEF SendType
<1> QED BY <1>2, <1>3, <1>4, <1>5

\* The sextets that arrive.
LEMMA ReadObjectKeepsType ==
  ASSUME TypeInv, NEW s \in Sides, ReadObject(s) PROVE TypeInv'
<1> DEFINE r == Destination(s)
<1>1. CASE ReadObjectError(s) # "none"
  BY <1>1, AbortType DEF ReadObject, ReadObjectError, ErrorCodes
<1>2. CASE ReadObjectError(s) = "none"
  <2>1. r \in RecvType /\ r.dest \in Ids
    <3>1. CASE recv[s].lock
      BY <3>1 DEF Destination, TypeInv, BlockType
    <3>2. CASE ~recv[s].lock
      <4>1. Lowest(readLock[s]) \in Ids
        BY <1>2, <3>2, LowestIn DEF ReadObjectError, TypeInv, BlockType
      <4>2. Lowest(readLock[s]) \in 0 .. NumIds
        BY <4>1, IdFacts
      <4> QED BY <3>2, <4>1, <4>2 DEF Destination, Taken, TypeInv, BlockType, RecvType
    <3> QED BY <3>1, <3>2
  <2>2. LineType' /\ LoopType' /\ SignalType'
    BY <1>2, ReadByteType, ReceivedType, IdFacts DEF ReadObject
  <2>3. UNCHANGED <<transfer, send, tx, turn, writes, life, aborted>>
    BY <1>2 DEF ReadObject
  <2> HIDE DEF r
  <2>4. CASE r.count < 3
    <3>1. recv' = [recv EXCEPT ![s] = [r EXCEPT !.count = @ + 1]]
          /\ UNCHANGED <<readLock, rx, switchVars, obj>>
      BY <1>2, <2>4 DEF ReadObject, r
    <3>2. [r EXCEPT !.count = @ + 1] \in RecvType
      BY <2>1, <2>4, RecvUpdates
    <3>3. BlockType'
      BY <2>1, <2>3, <3>1, <3>2 DEF TypeInv, BlockType, RecvType
    <3>4. SwitchType' /\ AppType'
      BY <2>3, <3>1, Untouched DEF appVars
    <3> QED BY <2>2, <2>3, <3>3, <3>4 DEF TypeInv
  <2>5. CASE ~(r.count < 3)
    <3>1. StoreTriple(s, r)
      BY <1>2, <2>5 DEF ReadObject, r
    <3>2. AppType'
      BY <2>1, <2>3, <3>1, LinkAssumption DEF StoreTriple, TypeInv, AppType, LineType, Bytes
    <3>3. CASE ReadEnds(r)
      <4> DEFINE q == [r EXCEPT !.lock = FALSE, !.pos = 0, !.count = 0]
      <4>1. recv' = [recv EXCEPT ![s] = q] /\ readLock' = [readLock EXCEPT ![s] = @ \ {r.dest}]
            /\ rx' = [rx EXCEPT ![s][r.dest] = @ + 1]
        BY <3>1, <3>3 DEF StoreTriple
      <4>2. q \in RecvType /\ ~q.lock
        BY <2>1, RecvUpdates DEF RecvType
      <4> HIDE DEF q
      <4>4. BlockType'
        BY <2>1, <2>3, <4>1, <4>2 DEF TypeInv, BlockType
      <4>3. SwitchType'
        BY <2>1, <3>1, <3>3 DEF StoreTriple, EmitReceived, TypeInv, SwitchType
      <4> QED BY <2>2, <2>3, <3>2, <4>4, <4>3 DEF TypeInv
    <3>4. CASE ~ReadEnds(r)
      <4> DEFINE q == [r EXCEPT !.pos = @ + 1, !.count = 0]
      <4>1. recv' = [recv EXCEPT ![s] = q] /\ UNCHANGED <<readLock, rx>>
        BY <3>1, <3>4 DEF StoreTriple
      <4>2. q \in RecvType /\ q.dest \in Ids
        BY <2>1, <3>4, RecvUpdates DEF RecvType, ReadEnds
      <4> HIDE DEF q
      <4>4. BlockType'
        BY <2>3, <4>1, <4>2 DEF TypeInv, BlockType
      <4>3. SwitchType'
        BY <3>1, <3>4, Untouched DEF StoreTriple
      <4> QED BY <2>2, <2>3, <3>2, <4>4, <4>3 DEF TypeInv
    <3> QED BY <3>3, <3>4
  <2> QED BY <2>4, <2>5
<1> QED BY <1>1, <1>2

\* The two hooks.
LEMMA HookKeepsType ==
  ASSUME TypeInv, NEW s \in Sides, TransferHook(s) \/ AcknowledgeHook(s) PROVE TypeInv'
<1>1. CASE TransferHook(s)
  <2> DEFINE j == incoming[s]
  <2>1. CASE j \in Ids /\ j # waiting[s] /\ TransferError(s, j) # "none"
    BY <1>1, <2>1, AbortType DEF TransferHook, TransferError, ErrorCodes
  <2>2. CASE j \in Ids /\ j # waiting[s] /\ TransferError(s, j) = "none"
    <3>1. LineType' /\ AppType' /\ aborted' \in ErrorCodes
      BY <1>1, <2>2, Untouched DEF TransferHook
    <3>2. LoopType'
      BY <1>1, <2>2 DEF TransferHook, TypeInv, LoopType, Phases
    <3>3. SignalType'
      BY <1>1, <2>2 DEF TransferHook, TypeInv, SignalType
    <3>4. BlockType'
      BY <1>1, <2>2 DEF TransferHook, TypeInv, BlockType
    <3>5. SwitchType'
      BY <1>1, <2>2 DEF TransferHook, EmitReadlocked, TypeInv, SwitchType
    <3> QED BY <3>1, <3>2, <3>3, <3>4, <3>5 DEF TypeInv
  <2>3. CASE ~(j \in Ids /\ j # waiting[s])
    <3>1. LoopType'
      BY <1>1, <2>3 DEF TransferHook, TypeInv, LoopType, Phases
    <3> QED BY <1>1, <2>3, <3>1, Untouched DEF TransferHook, TypeInv
  <2> QED BY <2>1, <2>2, <2>3
<1>2. CASE AcknowledgeHook(s)
  <2>1. CASE AcknowledgeError(s) # "none"
    BY <1>2, <2>1, AbortType DEF AcknowledgeHook, AcknowledgeError, ErrorCodes
  <2>2. CASE AcknowledgeError(s) = "none"
    <3>1. LineType' /\ AppType' /\ aborted' \in ErrorCodes
      BY <1>2, <2>2, Untouched DEF AcknowledgeHook
    <3>2. LoopType'
      BY <1>2, <2>2, IdFacts DEF AcknowledgeHook, TypeInv, LoopType, Phases
    <3>3. SignalType'
      <4>1. com' = [com EXCEPT ![s].acknowledgeRequested = FALSE]
            /\ UNCHANGED <<requesting, acknowledging>>
        BY <1>2, <2>2 DEF AcknowledgeHook
      <4> QED BY <4>1 DEF TypeInv, SignalType, ComType
    <3>4. BlockType'
      <4> DEFINE granted == IF com[s].received_acknowledge THEN {waiting[s]} \cap Ids ELSE {}
      <4>1. transfer' = [transfer EXCEPT ![s] = @ \cup granted]
            /\ UNCHANGED <<readLock, recv, send, tx, rx>>
        BY <1>2, <2>2 DEF AcknowledgeHook
      <4>2. granted \subseteq Ids
        OBVIOUS
      <4> HIDE DEF granted
      <4> QED BY <4>1, <4>2 DEF TypeInv, BlockType
    <3>5. SwitchType'
      BY <1>2, <2>2 DEF AcknowledgeHook, TypeInv, SwitchType
    <3> QED BY <3>1, <3>2, <3>3, <3>4, <3>5 DEF TypeInv
  <2> QED BY <2>1, <2>2
<1> QED BY <1>1, <1>2

LEMMA ScanKeepsType ==
  ASSUME TypeInv, NEW s \in Sides, Scan(s) PROVE TypeInv'
<1> DEFINE j == scan[s]
<1>1. j \in 0 .. NumIds
  BY DEF TypeInv, LoopType
<1>2. CASE j = NumIds
  <2>1. LoopType'
    BY <1>2, IdFacts DEF Scan, TypeInv, LoopType, Phases
  <2> QED BY <1>2, <2>1, Untouched DEF Scan, TypeInv
<1>3. CASE j # NumIds /\ ~Requested(s, j)
  <2>1. LoopType'
    BY <1>1, <1>3, IdFacts DEF Scan, TypeInv, LoopType
  <2> QED BY <1>3, <2>1, Untouched DEF Scan, TypeInv
<1>4. CASE j # NumIds /\ Requested(s, j) /\ j \in readLock[s]
  BY <1>4, AbortType DEF Scan, ErrorCodes
<1>5. CASE j # NumIds /\ Requested(s, j) /\ j \notin readLock[s]
  <2>1. LineType' /\ pc' \in [Sides -> Phases]
    BY <1>1, <1>5, ControlType, EndCycleType DEF Scan, Kinds
  <2>2. LoopType'
    BY <1>1, <1>5, <2>1, IdFacts DEF Scan, TypeInv, LoopType
  <2>3. SignalType'
    <3>1. com' = [com EXCEPT ![s].acknowledgeRequested = TRUE]
          /\ requesting' = [requesting EXCEPT ![s] = TRUE] /\ UNCHANGED acknowledging
      BY <1>5 DEF Scan
    <3> QED BY <3>1 DEF TypeInv, SignalType, ComType
  <2> QED BY <1>5, <2>1, <2>2, <2>3, Untouched DEF Scan, TypeInv
<1> QED BY <1>2, <1>3, <1>4, <1>5

\* The sextets that are sent.
LEMMA SendSextetKeepsType ==
  ASSUME TypeInv, NEW s \in Sides, NEW w \in SendType, w.lock, w.origin \in Ids, w.count < 3,
         SendSextet(s, w)
  PROVE  TypeInv'
<1> DEFINE val == Carried(s, w)
<1>1. val \in 0 .. MaxWrites
  BY LinkAssumption DEF Carried, TypeInv, AppType, SendType
<1>2. [w EXCEPT !.count = @ + 1, !.val = val] \in SendType
  BY <1>1, SendUpdates
<1>3. LineType' /\ pc' \in [Sides -> Phases]
  BY <1>1, SextetType, EndCycleType DEF SendSextet, SendType
<1>4. LoopType'
  BY <1>3 DEF SendSextet, TypeInv, LoopType
<1>5. BlockType'
  BY <1>2 DEF SendSextet, TypeInv, BlockType, SendType
<1> QED BY <1>3, <1>4, <1>5, Untouched DEF SendSextet, TypeInv

LEMMA WriteKeepsType ==
  ASSUME TypeInv, NEW s \in Sides, StartObject(s) \/ WriteObject(s) \/ WriteFourth(s)
  PROVE  TypeInv'
<1>1. CASE StartObject(s)
  <2> DEFINE j == Lowest(transfer[s])
             w == [send[s] EXCEPT !.lock = TRUE, !.origin = j]
  <2>1. CASE StartObjectError(s, j) # "none"
    BY <1>1, <2>1, AbortType DEF StartObject, StartObjectError, ErrorCodes
  <2>2. CASE StartObjectError(s, j) = "none"
    <3>1. j \in Ids
      BY <1>1, LowestIn DEF StartObject, WritesPending, TypeInv, BlockType
    <3>2. w \in SendType /\ w.origin \in Ids
      <4>1. send[s] \in SendType
        BY DEF TypeInv, BlockType
      <4>2. w \in SendType
        BY <3>1, <4>1, SendUpdates
      <4>3. w.origin = j
        BY <4>1 DEF SendType
      <4> QED BY <3>1, <4>2, <4>3
    <3>3. w.lock /\ w.count < 3
      BY <1>1 DEF StartObject, Idle, TypeInv, BlockType, SendType
    <3> QED BY <1>1, <2>2, <3>2, <3>3, SendSextetKeepsType DEF StartObject
  <2> QED BY <2>1, <2>2
<1>2. CASE WriteObject(s)
  BY <1>2, SendSextetKeepsType DEF WriteObject, TypeInv, BlockType
<1>3. CASE WriteFourth(s)
  <2> DEFINE w == send[s]
  <2>1. w \in SendType /\ w.origin \in Ids /\ w.origin \in 0 .. NumIds
    BY <1>3, IdFacts DEF WriteFourth, TypeInv, BlockType
  <2>2. LineType' /\ pc' \in [Sides -> Phases]
    BY <1>3, <2>1, SextetType, EndCycleType DEF WriteFourth, SendType
  <2>3. LoopType'
    BY <1>3, <2>2 DEF WriteFourth, TypeInv, LoopType
  <2>4. [w EXCEPT !.lock = FALSE, !.pos = 0, !.count = 0, !.val = 0] \in SendType
    BY <2>1, SendUpdates
  <2>5. ~WriteEnds(w) => [w EXCEPT !.pos = @ + 1, !.count = 0, !.val = 0] \in SendType
    BY <2>1, SendUpdates DEF WriteEnds
  <2>6. BlockType'
    <3> DEFINE last == WriteEnds(w)
               q == IF last THEN [w EXCEPT !.lock = FALSE, !.pos = 0, !.count = 0, !.val = 0]
                            ELSE [w EXCEPT !.pos = @ + 1, !.count = 0, !.val = 0]
    <3>1. /\ send' = [send EXCEPT ![s] = q]
          /\ transfer' = [transfer EXCEPT ![s] = IF last THEN @ \ {w.origin} ELSE @]
          /\ tx' = IF last THEN [tx EXCEPT ![s][w.origin] = @ + 1] ELSE tx
          /\ UNCHANGED <<readLock, recv, rx>>
      BY <1>3 DEF WriteFourth
    <3>2. q \in SendType
      BY <2>4, <2>5
    <3>3. IF q.lock THEN q.origin \in Ids ELSE q.count = 0
      BY <2>1 DEF SendType
    <3> HIDE DEF q, last
    <3> QED BY <2>1, <3>1, <3>2, <3>3 DEF TypeInv, BlockType
  <2>7. SwitchType'
    BY <1>3, <2>1 DEF WriteFourth, EmitSent, TypeInv, SwitchType
  <2> QED BY <1>3, <2>2, <2>3, <2>6, <2>7, Untouched DEF WriteFourth, TypeInv
<1> QED BY <1>1, <1>2, <1>3

\* What the wire, the applications, the resolvers and the destructors do.
LEMMA RestKeepsType ==
  ASSUME TypeInv,
         \/ \E s \in Sides : Wire(s) \/ Resolver(s) \/ Destroy(s)
         \/ WireStart \/ Application \/ DeleteFpga \/ DeleteMcu \/ Terminated \/ UNCHANGED vars
  PROVE  TypeInv'
<1>1. CASE \E s \in Sides : Wire(s)
  <2>1. LineType'
    BY <1>1 DEF Wire, TypeInv, LineType
  <2> QED BY <1>1, <2>1, Untouched DEF Wire, TypeInv
<1>2. CASE \E s \in Sides : Resolver(s)
  <2>1. PICK s \in Sides, j \in Ids : Resolve(s, j)
    BY <1>2 DEF Resolver
  <2>2. CASE ResolveError(s, j) # "none"
    BY <2>1, <2>2, AbortType DEF Resolve, ResolveError, ErrorCodes
  <2>3. CASE ResolveError(s, j) = "none"
    <3>1. SwitchType'
      BY <2>1, <2>3 DEF Resolve, TypeInv, SwitchType
    <3>2. AppType'
      BY <2>1, <2>3 DEF Resolve, TypeInv, AppType
    <3> QED BY <2>1, <2>3, <3>1, <3>2, Untouched DEF Resolve, TypeInv
  <2> QED BY <2>2, <2>3
<1>3. CASE \E s \in Sides : Destroy(s)
  <2>1. PICK s \in Sides : Destroy(s)
    BY <1>3
  <2>2. CASE ReadsPending(s)
    BY <2>1, <2>2, AbortType DEF Destroy, ErrorCodes
  <2>3. CASE ~ReadsPending(s)
    <3>1. AppType'
      BY <2>1, <2>3 DEF Destroy, TypeInv, AppType
    <3> QED BY <2>1, <2>3, <3>1, Untouched DEF Destroy, TypeInv
  <2> QED BY <2>2, <2>3
<1>4. CASE WireStart
  <2>1. LineType'
    BY <1>4 DEF WireStart, TypeInv, LineType, Sides
  <2> QED BY <1>4, <2>1, Untouched DEF WireStart, TypeInv
<1>5. CASE Application
  <2>1. PICK s \in Sides, j \in Ids : WriteStart(s, j)
    BY <1>5 DEF Application
  <2>2. CASE j \in pending[s]
    BY <2>1, <2>2, AbortType DEF WriteStart, ErrorCodes
  <2>3. CASE j \notin pending[s]
    <3>1. SwitchType'
      BY <2>1, <2>3 DEF WriteStart, TypeInv, SwitchType
    <3>2. AppType'
      <4>1. writes < MaxWrites /\ obj' = [obj EXCEPT ![s][j] = writes + 1] /\ writes' = writes + 1
            /\ turn' = [turn EXCEPT ![s] = @ \ {j}] /\ life' = life
        BY <2>1, <2>3 DEF WriteStart
      <4>2. writes + 1 \in 0 .. MaxWrites
        BY <4>1, LinkAssumption DEF TypeInv, AppType
      <4> QED BY <4>1, <4>2 DEF TypeInv, AppType
    <3> QED BY <2>1, <2>3, <3>1, <3>2, Untouched DEF WriteStart, TypeInv
  <2> QED BY <2>2, <2>3
<1>6. CASE DeleteFpga
  <2>1. SwitchType'
    BY <1>6 DEF DeleteFpga, EmitInterrupted, TypeInv, SwitchType, Sides
  <2>2. AppType'
    BY <1>6 DEF DeleteFpga, TypeInv, AppType
  <2>3. SignalType'
    BY <1>6 DEF DeleteFpga, TypeInv, SignalType, ComType
  <2> QED BY <1>6, <2>1, <2>2, <2>3, Untouched DEF DeleteFpga, TypeInv
<1>7. CASE DeleteMcu
  <2>1. AppType'
    BY <1>7 DEF DeleteMcu, TypeInv, AppType
  <2> QED BY <1>7, <2>1, Untouched DEF DeleteMcu, TypeInv
<1>8. CASE Terminated \/ UNCHANGED vars
  BY <1>8, Untouched DEF Terminated, vars, TypeInv
<1> QED BY <1>1, <1>2, <1>3, <1>4, <1>5, <1>6, <1>7, <1>8

\* TypeInv is inductive.
LEMMA TypeInductive == ASSUME TypeInv, [Next]_vars PROVE TypeInv'
<1>1. CASE \E s \in Sides : EventLoop(s)
  <2> PICK s \in Sides : EventLoop(s)
    BY <1>1
  <2> QED BY ReadKeepsType, ReadShutdownKeepsType, ControlKeepsType, ReadObjectKeepsType,
             HookKeepsType, ScanKeepsType, WriteKeepsType DEF EventLoop
<1>2. CASE ~\E s \in Sides : EventLoop(s)
  BY <1>2, RestKeepsType DEF Next
<1> QED BY <1>1, <1>2

\* The buffers, the state of the two loops, the lock sets and the positions of the block
\* readers and writers stay within the ranges the arrays and counters of Serial.hpp and
\* ByteWiseTransfer.hpp are declared for: readDestinationPos and writeOriginPos never pass an
\* object's end, and what is acknowledged to the resolver is an object.
THEOREM TypeCorrect == Spec => []TypeOK
BY TypeInitially, TypeInductive, TypeParts, PTL DEF Spec

-----------------------------------------------------------------------------
(* The locks, the readers and writers, and the byte under way. *)

\* The reader at the peer of s is where the writer of s is.
InStep(s) ==
  LET w == send[s]
      r == recv[Peer(s)] IN
  /\ r.lock = w.lock /\ r.pos = w.pos /\ r.count = w.count
  /\ w.lock => r.dest = w.origin
  /\ tx[s] = rx[Peer(s)]

Last(b) == b.pos + 1 = Triples /\ b.count = 3

\* The writer w once sextet b has been written.
Advanced(w, b) ==
  IF b.count < 3 THEN w.lock /\ w.origin = b.id /\ w.pos = b.pos /\ w.count = b.count + 1
  ELSE IF b.pos + 1 < Triples THEN w.lock /\ w.origin = b.id /\ w.pos = b.pos + 1 /\ w.count = 0
  ELSE ~w.lock /\ w.pos = 0 /\ w.count = 0

\* Sextet b is under way: the writer of s is one sextet ahead of the reader at the peer.
Ahead(s, b) ==
  LET w == send[s]
      r == recv[Peer(s)] IN
  /\ b.pos = r.pos /\ b.count = r.count
  /\ b.id = IF r.lock THEN r.dest ELSE Lowest(readLock[Peer(s)])
  /\ r.lock \/ (r.pos = 0 /\ r.count = 0)
  /\ Advanced(w, b)
  /\ tx[s] = IF Last(b) THEN [rx[Peer(s)] EXCEPT ![b.id] = @ + 1] ELSE rx[Peer(s)]

\* What the peer of s has read-locked: what s has in transfer, and more.
Locked(s, more) == readLock[Peer(s)] = transfer[s] \cup more

\* The object of the request of s that is not through yet.
Asked(s) == {waiting[s]} \cap Ids

\* Byte b is under way from s.
Sent(s, b) ==
  /\ DeleteWhen = "never" => b.kind \notin {"shutdown", "sighup"}
  /\ b.request <=> b.kind # "data"
  /\ Asked(s) = IF b.kind = "request" THEN {b.id} ELSE {}
  /\ b.acknowledge <=> Asked(Peer(s)) # {}
  /\ Locked(Peer(s), Asked(Peer(s))) /\ InStep(Peer(s))
  /\ IF b.kind = "data"
     THEN Locked(s, {b.id}) /\ Ahead(s, b) /\ (b.id \in transfer[s] <=> ~Last(b))
     ELSE Locked(s, {}) /\ InStep(s)

\* s is in a cycle.
Cycle(s) ==
  /\ InStep(s) /\ InStep(Peer(s))
  /\ IF pc[s] = "transfer"
     THEN incoming[s] = waiting[Peer(s)] /\ ~acknowledging[s] /\ Locked(Peer(s), {})
     ELSE (acknowledging[s] <=> Asked(Peer(s)) # {}) /\ Locked(Peer(s), Asked(Peer(s)))
  /\ IF pc[s] \in {"transfer", "acknowledge"}
     THEN /\ com[s].received_acknowledge <=> Asked(s) # {}
          /\ requesting[s] => Asked(s) = {}
     ELSE Asked(s) = {}
  /\ Locked(s, Asked(s))

\* No side has sent or read anything yet.
Quiet ==
  \A s \in Sides :
    /\ readLock[s] = {} /\ transfer[s] = {} /\ Asked(s) = {} /\ InStep(s)
    /\ ~send[s].lock /\ ~acknowledging[s]

\* The input of s is no sextet of an object.
Blank(s) == inBuf[s].kind = "data" => inBuf[s].id = NoId

\* The flags of com_vars that change in a shutdown only.
Calm(s) == ~com[s].descendants_notified /\ ~com[s].sent_com_shutdown /\ ~com[s].received_sighup

\* An object in transfer is being sent, or has been granted in this very cycle.
Prompt(s) ==
  transfer[s] # {} => send[s].lock \/ (pc[s] \in {"scan", "out"} /\ com[s].received_acknowledge)

\* What keeps a shutdown code from being sent while an object waits to be sent: there is no
\* shutdown, or there is no second object.
Composed(s) == (DeleteWhen = "never" => Calm(s)) /\ (NumIds = 1 => Prompt(s))

\* What holds wherever the byte is.
Always(s) ==
  /\ readLock[s] \cap (transfer[s] \cup Asked(s) \cup readLock[Peer(s)]) = {}
  /\ requesting[s] => transfer[s] = {} \/ Asked(s) # {}
  /\ IF send[s].lock THEN send[s].origin \in transfer[s] ELSE send[s].pos = 0 /\ send[s].count = 0
  /\ Composed(s)

Situation(x, s) ==
  CASE x = "cycle" -> ~firstRun[s] /\ ~firstRun[Peer(s)] /\ Cycle(s)
    [] x = "ack" -> ~firstRun[s] /\ Sent(s, outBuf[s]) /\ (firstRun[Peer(s)] => Quiet)
    [] x = "updated" -> IF firstRun[s] THEN Quiet /\ Blank(s)
                        ELSE ~firstRun[Peer(s)] /\ Sent(Peer(s), inBuf[s])

LinkInv ==
  /\ \A s \in Sides : Always(s)
  /\ wireFirst => Quiet /\ firstRun["fpga"] /\ Blank("fpga")
  /\ \A x \in Places, s \in Sides : Place(x, s) => Situation(x, s)

Inv == TypeInv /\ TurnInv /\ LinkInv

-----------------------------------------------------------------------------
(* General facts.                                                          *)

LEMMA PeerFacts ==
  \A s \in Sides : /\ Peer(s) \in Sides /\ Peer(s) # s /\ Peer(Peer(s)) = s
                   /\ \A r \in Sides : r = s \/ r = Peer(s)
BY DEF Sides, Peer

\* Where the byte is, its situation holds.
LEMMA Found ==
  ASSUME LinkInv, NEW x \in Places, NEW s \in Sides, OnlyAt(x, s)
  PROVE  Situation(x, s) /\ Always(s) /\ Always(Peer(s))
<1>1. Place(x, s)
  BY DEF OnlyAt
<1> QED BY <1>1, PeerFacts DEF LinkInv

\* It is enough to know the situation at the byte's next place.
LEMMA Landed ==
  ASSUME NEW x \in Places, NEW s \in Sides, OnlyAt(x, s)', ~wireFirst',
         Situation(x, s)', Always(s)', Always(Peer(s))'
  PROVE  LinkInv'
<1>1. \A r \in Sides : Always(r)'
  BY PeerFacts
<1>2. ASSUME NEW y \in Places, NEW r \in Sides, Place(y, r)' PROVE Situation(y, r)'
  <2>1. y = x /\ r = s
    BY <1>2 DEF OnlyAt
  <2> QED BY <2>1
<1> QED BY <1>1, <1>2 DEF LinkInv

\* With what is in transfer and where s is left alone, s stays composed.
LEMMA ComposedStays ==
  ASSUME NEW s, Composed(s), DeleteWhen = "never" => (Calm(s) => Calm(s)'),
         transfer'[s] = transfer[s], send'[s] = send[s], pc'[s] = pc[s],
         com'[s].received_acknowledge = com[s].received_acknowledge
  PROVE  Composed(s)'
BY DEF Composed, Prompt

\* Who sends or reads a byte has nothing in transfer, or is sending it.
LEMMA ComposedWhile ==
  ASSUME NEW s, Composed(s), DeleteWhen = "never" => (Calm(s) => Calm(s)'),
         NumIds = 1 => (transfer'[s] # {} => send'[s].lock)
  PROVE  Composed(s)'
BY DEF Composed, Prompt

\* A step of the wire, the applications, the resolvers or the deleting threads that leaves the
\* event loops, the acknowledges and the blocks alone leaves all this alone.
LEMMA AsideKeeps ==
  ASSUME LinkInv, UNCHANGED <<lineVars, loopVars, requesting, acknowledging, blockVars>>,
         DeleteWhen = "never" => UNCHANGED com,
         \A s \in Sides : com'[s].received_acknowledge = com[s].received_acknowledge
  PROVE  LinkInv'
<1> USE DEF lineVars, loopVars, blockVars
<1>0. \A s : /\ InStep(s)' = InStep(s) /\ Asked(s)' = Asked(s) /\ Blank(s)' = Blank(s)
  BY DEF InStep, Asked, Blank
<1>1. \A s \in Sides : Always(s) => Always(s)'
  <2>1. \A s \in Sides : Composed(s) => Composed(s)'
    BY ComposedStays DEF Calm
  <2> QED BY <1>0, <2>1 DEF Always
<1>2. \A s, more : Locked(s, more)' = Locked(s, more)
  BY DEF Locked
<1>3. \A s, b : Ahead(s, b)' = Ahead(s, b)
  BY DEF Ahead
<1>4. \A s, b : Sent(s, b)' = Sent(s, b)
  BY <1>0, <1>2, <1>3 DEF Sent
<1>5. \A s \in Sides : Cycle(s)' = Cycle(s)
  BY <1>0, <1>2 DEF Cycle
<1>6. Quiet' = Quiet
  BY <1>0 DEF Quiet
<1>7. \A x, s : s \in Sides => Situation(x, s)' = Situation(x, s) /\ Place(x, s)' = Place(x, s)
  BY <1>0, <1>4, <1>5, <1>6 DEF Situation, Place
<1> QED BY <1>0, <1>1, <1>6, <1>7 DEF LinkInv

LEMMA OutsideKeeps ==
  ASSUME LinkInv, UNCHANGED <<lineVars, loopVars, signalVars, blockVars>> PROVE LinkInv'
BY AsideKeeps DEF signalVars

LEMMA LinkInitially == Init => LinkInv
<1> SUFFICES ASSUME Init PROVE LinkInv
  OBVIOUS
<1> USE IdFacts, PeerFacts DEF Init
<1>1. ASSUME NEW s \in Sides PROVE InStep(s) /\ Asked(s) = {} /\ Always(s) /\ Blank(s)
  <2>1. InStep(s)
    BY DEF InStep
  <2>2. Asked(s) = {} /\ Blank(s)
    BY DEF Asked, Blank, BlankByte
  <2>3. Always(s)
    BY DEF Always, Composed, Calm, Prompt, Asked, ComVars
  <2> QED BY <2>1, <2>2, <2>3
<1>2. Quiet
  BY <1>1 DEF Quiet
<1>3. \A x \in Places, s \in Sides : ~Place(x, s)
  BY DEF Places, Place
<1> QED BY <1>1, <1>2, <1>3 DEF LinkInv, Sides

-----------------------------------------------------------------------------
(* The first cycles and the wire.                                          *)

LEMMA WireStartKeeps ==
  ASSUME Inv, WireStart PROVE LinkInv'
<1>1. Quiet /\ firstRun["fpga"] /\ Blank("fpga") /\ Nowhere
  BY DEF Inv, LinkInv, TurnInv, WireStart
<1>2. UNCHANGED <<inBuf, outBuf, loopVars, signalVars, blockVars>>
  BY DEF WireStart
<1>3. \A s : /\ InStep(s)' = InStep(s) /\ Asked(s)' = Asked(s)
             /\ Always(s)' = Always(s) /\ Blank(s)' = Blank(s)
  BY <1>2 DEF loopVars, signalVars, blockVars, InStep, Asked, Always, Composed, Calm, Prompt,
              Blank
<1>4. Quiet'
  BY <1>1, <1>2, <1>3 DEF Quiet, loopVars, signalVars, blockVars
<1>5. OnlyAt("updated", "fpga")' /\ ~wireFirst'
  BY <1>1, <1>2
     DEF WireStart, Inv, TurnInv, TurnType, Nowhere, OnlyAt, Place, Places, Sides, loopVars
<1>6. Situation("updated", "fpga")'
  BY <1>1, <1>2, <1>3, <1>4 DEF Situation, loopVars
<1> QED BY <1>3, <1>5, <1>6, Landed, PeerFacts DEF Inv, LinkInv, Places, Sides

\* The byte the wire carries is the one that was sent.
LEMMA WireKeeps ==
  ASSUME Inv, NEW s \in Sides, Wire(s) PROVE LinkInv'
<1>1. OnlyAt("ack", s) /\ OnlyAt("updated", Peer(s))' /\ ~wireFirst'
  BY PassPlaces DEF Inv, Wire, Carries, Passes, loopVars
<1>2. Situation("ack", s) /\ Always(s) /\ Always(Peer(s))
  BY <1>1, Found DEF Inv, Places
<1>3. UNCHANGED <<outBuf, loopVars, signalVars, blockVars>> /\ inBuf'[Peer(s)] = outBuf[s]
  BY PeerFacts DEF Wire, Inv, TypeInv, LineType
<1>4. \A r : InStep(r)' = InStep(r) /\ Asked(r)' = Asked(r) /\ Always(r)' = Always(r)
  BY <1>3 DEF loopVars, signalVars, blockVars, InStep, Asked, Always, Composed, Calm, Prompt
<1>5. \A b : Sent(s, b)' = Sent(s, b)
  <2>1. \A r, more : Locked(r, more)' = Locked(r, more)
    BY <1>3 DEF blockVars, Locked
  <2>2. \A r, b : Ahead(r, b)' = Ahead(r, b)
    BY <1>3 DEF blockVars, Ahead
  <2> QED BY <1>3, <1>4, <2>1, <2>2 DEF Sent, blockVars
<1>6. Quiet' = Quiet
  BY <1>3, <1>4 DEF Quiet, loopVars, signalVars, blockVars
<1>7. CASE firstRun[Peer(s)]
  <2>1. Quiet /\ Sent(s, outBuf[s])
    BY <1>2, <1>7 DEF Situation
  <2>2. outBuf[s].kind # "data"
    BY <2>1, PeerFacts DEF Sent, Quiet, Locked
  <2>3. Blank(Peer(s))'
    BY <1>3, <2>2 DEF Blank
  <2>4. Situation("updated", Peer(s))'
    BY <1>3, <1>6, <1>7, <2>1, <2>3 DEF Situation, loopVars
  <2> QED BY <1>1, <1>2, <1>4, <2>4, Landed, PeerFacts DEF Places
<1>8. CASE ~firstRun[Peer(s)]
  <2>1. Situation("updated", Peer(s))'
    BY <1>2, <1>3, <1>5, <1>8, PeerFacts DEF Situation, loopVars
  <2> QED BY <1>1, <1>2, <1>4, <2>1, Landed, PeerFacts DEF Places
<1> QED BY <1>7, <1>8

\* The first cycle of s sends the power-on code.
LEMMA FirstCycleKeeps ==
  ASSUME Inv, NEW s \in Sides, FirstCycle(s) PROVE LinkInv'
<1>1. OnlyAt("updated", s) /\ OnlyAt("ack", s)' /\ ~wireFirst'
  BY PassPlaces DEF Inv, FirstCycle, Handshake, At, Answers, Passes
<1>2. Quiet /\ Always(s) /\ Always(Peer(s))
  BY <1>1, Found DEF Inv, Places, Situation, FirstCycle
<1> PICK b : b = Control(s, "poweron", NoId)
  OBVIOUS
<1>3. /\ UNCHANGED <<com, acknowledging, blockVars>> /\ outBuf'[s] = b /\ ~firstRun'[s]
      /\ waiting' = [waiting EXCEPT ![s] = NoId]
  BY DEF FirstCycle, Inv, TypeInv, LineType, LoopType
<1>4. b.kind = "poweron" /\ b.request = TRUE /\ b.acknowledge = acknowledging[s]
  BY DEF Control
<1>5. \A r \in Sides : Asked(r)' = {}
  BY <1>2, <1>3, IdFacts DEF Asked, Quiet, Inv, TypeInv, LoopType
<1>6. \A r : InStep(r)' = InStep(r)
  BY <1>3 DEF InStep, blockVars
<1>7. Quiet'
  BY <1>2, <1>3, <1>5, <1>6 DEF Quiet, blockVars
<1>8. Always(s)' /\ Always(Peer(s))'
  BY <1>2, <1>3, <1>5, PeerFacts DEF Always, Composed, Calm, Prompt, Quiet, blockVars
<1>9. Sent(s, b)'
  BY <1>3, <1>4, <1>5, <1>7, PeerFacts DEF Quiet, Sent, Locked
<1>10. Situation("ack", s)'
  BY <1>3, <1>7, <1>9 DEF Situation
<1> QED BY <1>1, <1>8, <1>10, Landed DEF Places

-----------------------------------------------------------------------------
(* The bytes that carry no data.                                           *)

\* A request is sent for an object that is not read-locked, a state code only when no object is
\* in transfer.
LEMMA ControlKeeps ==
  ASSUME Inv, NEW s \in Sides, NEW kind \in {"idle", "shutdown", "sighup", "request"},
         NEW id \in 0 .. NumIds, DeleteWhen = "never" => kind \notin {"shutdown", "sighup"},
         pc[s] \in {"scan", "out"}, EndCycle(s, Control(s, kind, id)),
         IF kind = "request"
         THEN id \in Ids \ readLock[s] /\ waiting' = [waiting EXCEPT ![s] = id]
         ELSE transfer[s] = {} /\ waiting' = waiting,
         UNCHANGED <<firstRun, acknowledging, blockVars>>,
         \A r \in Sides : r # s => requesting'[r] = requesting[r] /\ com'[r] = com[r],
         DeleteWhen = "never" => (Calm(s) => Calm(s)'),
         NumIds = 1 => (transfer[s] # {} => send[s].lock)
  PROVE  LinkInv'
<1>1. OnlyAt("cycle", s) /\ OnlyAt("ack", s)' /\ ~wireFirst'
  BY PassPlaces DEF Inv, EndCycle, Ends, Passes
<1>2. Cycle(s) /\ Always(s) /\ Always(Peer(s)) /\ ~firstRun[s] /\ ~firstRun[Peer(s)]
  BY <1>1, Found DEF Inv, Places, Situation
<1> PICK b : b = Control(s, kind, id)
  OBVIOUS
<1>3. b.kind = kind /\ b.request = TRUE /\ b.acknowledge = acknowledging[s] /\ b.id = id
  BY DEF Control
<1>4. outBuf'[s] = b /\ ~firstRun'[s] /\ ~firstRun'[Peer(s)]
  BY <1>2 DEF EndCycle, Inv, TypeInv, LineType
<1>5. Asked(s)' = (IF kind = "request" THEN {id} ELSE {}) /\ Asked(Peer(s))' = Asked(Peer(s))
  BY <1>2, PeerFacts DEF Asked, Cycle, Inv, TypeInv, LoopType
<1>6. \A r : InStep(r)' = InStep(r)
  BY DEF InStep, blockVars
<1>7. /\ InStep(s) /\ InStep(Peer(s)) /\ Locked(s, {}) /\ Locked(Peer(s), Asked(Peer(s)))
      /\ acknowledging[s] <=> Asked(Peer(s)) # {}
  BY <1>2 DEF Cycle
<1>8. \A r, more : Locked(r, more)' = (readLock[Peer(r)] = transfer[r] \cup more')
  BY DEF Locked, blockVars
<1>9. Sent(s, b)'
  <2>1. Locked(s, {})' /\ Locked(Peer(s), Asked(Peer(s)))'
    BY <1>5, <1>7, PeerFacts DEF Locked, blockVars
  <2> QED BY <1>3, <1>5, <1>6, <1>7, <2>1 DEF Sent
<1>10. Always(s)'
  <2>1. readLock[s] \cap (transfer[s] \cup Asked(s)' \cup readLock[Peer(s)]) = {}
    BY <1>2, <1>5 DEF Always
  <2>2. transfer[s] = {} \/ Asked(s)' # {}
    BY <1>5
  <2>3. Composed(s)'
    BY <1>2, ComposedWhile DEF Always, blockVars
  <2> QED BY <1>2, <2>1, <2>2, <2>3 DEF Always, blockVars
<1>11. Always(Peer(s))'
  <2>1. pc'[Peer(s)] = pc[Peer(s)]
    BY PeerFacts DEF EndCycle, Inv, TypeInv, LoopType
  <2>2. Composed(Peer(s))' /\ requesting'[Peer(s)] = requesting[Peer(s)]
    BY <1>2, <2>1, PeerFacts, ComposedStays DEF Always, Calm, blockVars
  <2> QED BY <1>2, <1>5, <2>2 DEF Always, blockVars
<1>12. Situation("ack", s)'
  BY <1>4, <1>9 DEF Situation
<1> QED BY <1>1, <1>10, <1>11, <1>12, Landed DEF Places

\* A step that only moves the phase on within the last half of the cycle.
LEMMA PhaseKeeps ==
  ASSUME Inv, NEW s \in Sides, pc[s] = "scan",
         pc' = pc \/ pc' = [pc EXCEPT ![s] = "out"],
         UNCHANGED <<lineVars, firstRun, incoming, waiting, signalVars, blockVars>>
  PROVE  LinkInv'
<1>1. OnlyAt("cycle", s) /\ OnlyAt("cycle", s)' /\ ~wireFirst'
  <2>1. pc' = [pc EXCEPT ![s] = pc'[s]] /\ pc'[s] \in {"scan", "out"}
    BY DEF Inv, TypeInv, LoopType
  <2>2. GoesOn(s)
    BY <2>1 DEF GoesOn, Phases, lineVars
  <2> QED BY <2>2, PassPlaces DEF Inv, Passes
<1>2. Cycle(s) /\ Always(s) /\ Always(Peer(s)) /\ ~firstRun[s] /\ ~firstRun[Peer(s)]
  BY <1>1, Found DEF Inv, Places, Situation
<1>3. /\ \A r : InStep(r)' = InStep(r) /\ Asked(r)' = Asked(r)
      /\ \A r \in Sides : Always(r) => Always(r)'
  <2>1. \A r : InStep(r)' = InStep(r) /\ Asked(r)' = Asked(r)
    BY DEF InStep, Asked, signalVars, blockVars
  <2>2. \A r \in Sides : pc[r] \in {"scan", "out"} => pc'[r] \in {"scan", "out"}
    BY DEF Inv, TypeInv, LoopType
  <2>3. \A r \in Sides : Composed(r) => Composed(r)'
    BY <2>2 DEF Composed, Calm, Prompt, signalVars, blockVars
  <2> QED BY <2>1, <2>3 DEF Always, signalVars, blockVars
<1>4. \A r, more : Locked(r, more)' = (readLock[Peer(r)] = transfer[r] \cup more')
  BY DEF Locked, blockVars
<1>5. Cycle(s)'
  <2>1. pc'[s] \in {"scan", "out"}
    BY DEF Inv, TypeInv, LoopType
  <2> QED BY <1>2, <1>3, <2>1 DEF Cycle, Locked, signalVars, blockVars
<1>6. Situation("cycle", s)'
  BY <1>2, <1>5 DEF Situation
<1> QED BY <1>1, <1>2, <1>3, <1>6, Landed, PeerFacts DEF Places

\* getFirstTransfer() finds a request or comes to its end.
LEMMA ScanKeeps ==
  ASSUME Inv, NEW s \in Sides, Scan(s) PROVE LinkInv'
<1> DEFINE j == scan[s]
<1>1. j \in 0 .. NumIds
  BY DEF Inv, TypeInv, LoopType
<1>2. CASE j = NumIds
  BY <1>2, PhaseKeeps DEF Scan, At
<1>3. CASE j # NumIds /\ ~Requested(s, j)
  BY <1>3, PhaseKeeps DEF Scan, At
<1>4. CASE j # NumIds /\ Requested(s, j) /\ j \in readLock[s]
  BY <1>4, OutsideKeeps DEF Scan, Abort, Inv
<1>5. CASE j # NumIds /\ Requested(s, j) /\ j \notin readLock[s]
  <2>1. /\ EndCycle(s, Control(s, "request", j)) /\ waiting' = [waiting EXCEPT ![s] = j]
        /\ com' = [com EXCEPT ![s].acknowledgeRequested = TRUE]
        /\ requesting' = [requesting EXCEPT ![s] = TRUE]
        /\ UNCHANGED <<firstRun, acknowledging, blockVars>> /\ pc[s] = "scan"
    BY <1>5 DEF Scan, At
  <2>2. j \in Ids \ readLock[s]
    BY <1>1, <1>5, IdFacts
  <2>3. Calm(s) => Calm(s)'
    BY <2>1 DEF Calm, Inv, TypeInv, SignalType, ComType
  <2>4. \A r \in Sides : r # s => requesting'[r] = requesting[r] /\ com'[r] = com[r]
    BY <2>1 DEF Inv, TypeInv, SignalType
  <2>5. NumIds = 1 => transfer[s] = {}
    <3>1. j \notin transfer[s] /\ transfer[s] \subseteq Ids
      BY <1>5 DEF Requested, Inv, TypeInv, BlockType
    <3> QED BY <2>2, <3>1 DEF Ids
  <2> HIDE DEF j
  <2> QED BY <1>1, <2>1, <2>2, <2>3, <2>4, <2>5, ControlKeeps
<1> QED BY <1>2, <1>3, <1>4, <1>5

LEMMA SendIdleKeeps ==
  ASSUME Inv, NEW s \in Sides, SendIdle(s) PROVE LinkInv'
<1>1. /\ EndCycle(s, Control(s, "idle", NoId)) /\ transfer[s] = {}
      /\ requesting' = [requesting EXCEPT ![s] = TRUE]
      /\ UNCHANGED <<firstRun, waiting, com, acknowledging, blockVars>> /\ pc[s] = "out"
  BY DEF SendIdle, Idle, At, WritesPending
<1>2. Calm(s) => Calm(s)'
  BY <1>1 DEF Calm
<1>3. \A r \in Sides : r # s => requesting'[r] = requesting[r] /\ com'[r] = com[r]
  BY <1>1 DEF Inv, TypeInv, SignalType
<1> QED BY <1>1, <1>2, <1>3, IdFacts, ControlKeeps

\* While nobody is destroyed, no shutdown code and no hang-up is sent.
LEMMA NoShutdown ==
  ASSUME Inv, NEW s \in Sides, DeleteWhen = "never" PROVE ~SendShutdown(s) /\ ~SendSighup(s)
<1>1. Calm(s)
  BY DEF Inv, LinkInv, Always, Composed
<1>2. ~ShutdownQuery(s) /\ ~SighupQuery(s)
  BY <1>1, Zenon DEF Calm, ShutdownQuery, SighupQuery, Sides
<1> QED BY <1>2 DEF SendShutdown, SendSighup, MaySendShutdown, MaySendSighup

\* The shutdown code is sent with nothing in transfer, as there is one object only.
LEMMA SendShutdownKeeps ==
  ASSUME Inv, NEW s \in Sides, SendShutdown(s), DeleteWhen = "never" \/ NumIds = 1
  PROVE  LinkInv' /\ transfer[s] = {}
<1>1. DeleteWhen # "never" /\ NumIds = 1
  BY NoShutdown
<1>2. /\ EndCycle(s, Control(s, "shutdown", NoId)) /\ pc[s] = "out" /\ ~send[s].lock
      /\ ~com[s].received_acknowledge
      /\ com' = [com EXCEPT ![s].sent_com_shutdown = TRUE]
      /\ requesting' = [requesting EXCEPT ![s] = TRUE]
      /\ UNCHANGED <<firstRun, waiting, acknowledging, blockVars>>
  BY DEF SendShutdown, Idle, At, MaySendShutdown, ShutdownQuery
<1>3. transfer[s] = {}
  BY <1>1, <1>2 DEF Inv, LinkInv, Always, Composed, Prompt
<1>4. \A r \in Sides : r # s => requesting'[r] = requesting[r] /\ com'[r] = com[r]
  BY <1>2 DEF Inv, TypeInv, SignalType
<1> QED BY <1>1, <1>2, <1>3, <1>4, IdFacts, ControlKeeps

LEMMA SendSighupKeeps ==
  ASSUME Inv, NEW s \in Sides, SendSighup(s) PROVE LinkInv'
<1>1. DeleteWhen # "never"
  BY NoShutdown
<1>2. /\ EndCycle(s, Control(s, "sighup", NoId)) /\ pc[s] = "out" /\ transfer[s] = {}
      /\ com' = [com EXCEPT ![s].sent_sighup = TRUE]
      /\ requesting' = [requesting EXCEPT ![s] = TRUE]
      /\ UNCHANGED <<firstRun, waiting, acknowledging, blockVars>>
  BY DEF SendSighup, Idle, At, WritesPending
<1>3. \A r \in Sides : r # s => requesting'[r] = requesting[r] /\ com'[r] = com[r]
  BY <1>2 DEF Inv, TypeInv, SignalType
<1> QED BY <1>1, <1>2, <1>3, IdFacts, ControlKeeps

-----------------------------------------------------------------------------
(* The bytes that are read.                                                *)

\* Where a byte that is read comes from.
LEMMA ReadFrom ==
  ASSUME Inv, NEW s \in Sides, Handshake(s), ~firstRun[s]
  PROVE  /\ Always(s) /\ Always(Peer(s)) /\ ~firstRun[Peer(s)] /\ Sent(Peer(s), inBuf[s])
         /\ ReadByte(s) => OnlyAt("cycle", s)' /\ ~wireFirst'
<1>1. Place("updated", s) /\ ~wireFirst
  BY DEF Handshake, Place, Inv, TurnInv, Nowhere, Places
<1>2. Situation("updated", s) /\ Always(s) /\ Always(Peer(s))
  BY <1>1, PeerFacts DEF Inv, LinkInv, Places
<1>3. ASSUME ReadByte(s) PROVE OnlyAt("cycle", s)' /\ ~wireFirst'
  <2>1. Begins(s)
    BY <1>3 DEF ReadByte, Begins, Handshake, At
  <2> QED BY <2>1, PassPlaces DEF Inv, Passes
<1> QED BY <1>2, <1>3 DEF Situation

\* A state code or an id is read.
LEMMA ReadControlKeeps ==
  ASSUME Inv, NEW s \in Sides, Handshake(s), ~firstRun[s], ReadByte(s), NEW id \in 0 .. NumIds,
         SetIncoming(s, id), inBuf[s].kind # "data",
         id = IF inBuf[s].kind = "request" THEN inBuf[s].id ELSE NoId,
         com'[s].received_acknowledge = inBuf[s].acknowledge,
         \A r \in Sides : r # s => com'[r] = com[r],
         DeleteWhen = "never" => (Calm(s) => Calm(s)'),
         UNCHANGED blockVars
  PROVE  LinkInv'
<1> DEFINE b == inBuf[s]
           p == Peer(s)
<1>1. Always(s) /\ Always(p) /\ ~firstRun[p] /\ Sent(p, b) /\ OnlyAt("cycle", s)' /\ ~wireFirst'
  BY ReadFrom
<1>2. p \in Sides /\ p # s /\ Peer(p) = s
  BY PeerFacts
<1>3. /\ Asked(p) = IF b.kind = "request" THEN {b.id} ELSE {}
      /\ b.acknowledge <=> Asked(s) # {}
      /\ Locked(s, Asked(s)) /\ InStep(s) /\ Locked(p, {}) /\ InStep(p)
  BY <1>1, <1>2 DEF Sent
<1>4. incoming'[s] = waiting[p]
  <2>1. waiting[p] \in 0 .. NumIds /\ incoming'[s] = id
    BY <1>2 DEF Inv, TypeInv, LoopType, SetIncoming
  <2> QED BY <1>3, <2>1, IdFacts DEF Asked
<1>5. pc'[s] = "transfer" /\ UNCHANGED <<firstRun, waiting>>
  BY DEF ReadByte, Inv, TypeInv, LoopType
<1>6. ~acknowledging'[s] /\ (requesting'[s] => requesting[s] /\ ~b.acknowledge)
  BY DEF ReadByte, Inv, TypeInv, SignalType
<1>7. requesting'[p] = requesting[p]
  BY <1>2 DEF ReadByte, Inv, TypeInv, SignalType
<1>8. \A r : InStep(r)' = InStep(r) /\ Asked(r)' = Asked(r)
  BY <1>5 DEF InStep, Asked, blockVars
<1>9. Cycle(s)'
  <2>1. Locked(s, Asked(s))' /\ Locked(p, {})'
    BY <1>3, <1>8 DEF Locked, blockVars
  <2>2. com'[s].received_acknowledge <=> Asked(s)' # {}
    BY <1>3, <1>8
  <2>3. requesting'[s] => Asked(s)' = {}
    BY <1>3, <1>6, <1>8
  <2> HIDE DEF b
  <2> QED BY <1>3, <1>4, <1>5, <1>6, <1>8, <2>1, <2>2, <2>3 DEF Cycle
<1>10. Always(s)'
  <2>1. pc[s] = "wait"
    BY DEF Handshake, At
  <2>2. NumIds = 1 => (transfer[s] # {} => send[s].lock)
    BY <1>1, <2>1 DEF Always, Composed, Prompt
  <2>3. Composed(s)'
    BY <1>1, <2>2, ComposedWhile DEF Always, blockVars
  <2> QED BY <1>1, <1>6, <1>8, <2>3 DEF Always, blockVars
<1>11. Always(p)'
  <2>1. pc'[p] = pc[p] /\ com'[p] = com[p]
    BY <1>2 DEF ReadByte, Inv, TypeInv, LoopType
  <2>2. Composed(p)'
    BY <1>1, <1>2, <2>1, ComposedStays DEF Always, Calm, blockVars
  <2> QED BY <1>1, <1>7, <1>8, <2>2 DEF Always, blockVars
<1>12. Situation("cycle", s)'
  BY <1>1, <1>5, <1>9 DEF Situation
<1> QED BY <1>1, <1>10, <1>11, <1>12, Landed DEF Places

\* A byte with the request bit carries no data, and is taken for what it is.
LEMMA Meant ==
  ASSUME Inv, NEW s \in Sides, NEW kind, NEW id, Reads(s, kind, id)
  PROVE  /\ Handshake(s) /\ ~firstRun[s] /\ inBuf[s].kind = kind /\ inBuf[s].id = id
         /\ inBuf[s].kind # "data"
         /\ DeleteWhen = "never" => kind \notin {"shutdown", "sighup"}
<1>1. Handshake(s) /\ ~firstRun[s] /\ inBuf[s].request /\ <<kind, id>> \in Meanings(inBuf[s])
  BY DEF Reads
<1>2. Sent(Peer(s), inBuf[s])
  BY <1>1, ReadFrom
<1>3. /\ inBuf[s].kind # "data"
      /\ DeleteWhen = "never" => inBuf[s].kind \notin {"shutdown", "sighup"}
  BY <1>1, <1>2 DEF Sent
<1>4. <<kind, id>> = <<inBuf[s].kind, inBuf[s].id>>
  BY <1>1, <1>3 DEF Meanings
<1> QED BY <1>1, <1>3, <1>4

\* com_vars of s take the acknowledge bit only.
LEMMA ReceivedCalm ==
  ASSUME Inv, NEW s \in Sides, SetCom(s, Received(s))
  PROVE  /\ com'[s].received_acknowledge = inBuf[s].acknowledge
         /\ \A r \in Sides : r # s => com'[r] = com[r]
         /\ Calm(s) => Calm(s)'
<1>1. com \in [Sides -> ComType]
  BY DEF Inv, TypeInv, SignalType
<1>2. com'[s].received_acknowledge = inBuf[s].acknowledge
  BY <1>1 DEF SetCom, Received, ComType
<1>3. \A r \in Sides : r # s => com'[r] = com[r]
  BY <1>1 DEF SetCom
<1>4. Calm(s) => Calm(s)'
  BY <1>1 DEF SetCom, Received, ComType, Calm
<1> QED BY <1>2, <1>3, <1>4

LEMMA ReadKeeps ==
  ASSUME Inv, NEW s \in Sides,
         ReadPoweron(s) \/ ReadIdle(s) \/ \E id \in 0 .. NumIds : ReadRequest(s, id)
  PROVE  LinkInv'
<1>1. CASE ReadPoweron(s)
  <2>1. CASE PoweronError(s) # "none"
    BY <1>1, <2>1, OutsideKeeps DEF ReadPoweron, Abort, Inv
  <2>2. CASE PoweronError(s) = "none"
    <3>1. /\ Handshake(s) /\ ~firstRun[s] /\ inBuf[s].kind = "poweron"
      BY <1>1, Meant DEF ReadPoweron
    <3>2. /\ ReadByte(s) /\ com' = [com EXCEPT ![s] = ComVars] /\ SetIncoming(s, NoId)
          /\ UNCHANGED blockVars
      BY <1>1, <2>2 DEF ReadPoweron, SetCom
    <3>3. ~inBuf[s].acknowledge
      BY <2>2 DEF PoweronError
    <3>4. inBuf[s].acknowledge = FALSE
      BY <3>3 DEF Inv, TypeInv, LineType, Bytes
    <3>5. com'[s].received_acknowledge = FALSE
      BY <3>2 DEF Inv, TypeInv, SignalType, ComVars
    <3>6. Calm(s)' /\ \A r \in Sides : r # s => com'[r] = com[r]
      BY <3>2 DEF Calm, Inv, TypeInv, SignalType, ComVars
    <3> QED BY <3>1, <3>2, <3>4, <3>5, <3>6, IdFacts, ReadControlKeeps
  <2> QED BY <2>1, <2>2
<1>2. CASE ReadIdle(s)
  <2>1. Handshake(s) /\ ~firstRun[s] /\ inBuf[s].kind = "idle"
    BY <1>2, Meant DEF ReadIdle
  <2>2. ReadByte(s) /\ SetCom(s, Received(s)) /\ SetIncoming(s, NoId) /\ UNCHANGED blockVars
    BY <1>2 DEF ReadIdle
  <2> QED BY <2>1, <2>2, IdFacts, ReceivedCalm, ReadControlKeeps
<1>3. ASSUME NEW id \in 0 .. NumIds, ReadRequest(s, id) PROVE LinkInv'
  <2>1. CASE com[s].received_sighup
    BY <1>3, <2>1, OutsideKeeps DEF ReadRequest, Abort, Inv
  <2>2. CASE ~com[s].received_sighup
    <3>1. Handshake(s) /\ ~firstRun[s] /\ inBuf[s].kind = "request" /\ inBuf[s].id = id
      BY <1>3, Meant DEF ReadRequest
    <3>2. ReadByte(s) /\ SetCom(s, Received(s)) /\ SetIncoming(s, id) /\ UNCHANGED blockVars
      BY <1>3, <2>2 DEF ReadRequest
    <3> QED BY <3>1, <3>2, ReceivedCalm, ReadControlKeeps
  <2> QED BY <2>1, <2>2
<1> QED BY <1>1, <1>2, <1>3

\* The codes of a shutdown.
LEMMA ReadCodesKeep ==
  ASSUME Inv, NEW s \in Sides, ReadShutdown(s) \/ ReadSighup(s) PROVE LinkInv'
<1>1. com \in [Sides -> ComType]
  BY DEF Inv, TypeInv, SignalType
<1>2. CASE ReadShutdown(s)
  <2>1. CASE ShutdownError(s) # "none"
    BY <1>2, <2>1, OutsideKeeps DEF ReadShutdown, Abort, Inv
  <2>2. CASE ShutdownError(s) = "none"
    <3>1. /\ Handshake(s) /\ ~firstRun[s] /\ inBuf[s].kind = "shutdown"
          /\ DeleteWhen # "never"
      BY <1>2, Meant DEF ReadShutdown
    <3>2. /\ ReadByte(s) /\ SetIncoming(s, NoId) /\ UNCHANGED blockVars
          /\ com' = [com EXCEPT ![s] = com'[s]]
          /\ com'[s] = [Received(s) EXCEPT !.received_com_shutdown = TRUE,
                                           !.descendants_notified = @ \/ Notifies(s) # {}]
      BY <1>1, <1>2, <2>2 DEF ReadShutdown, SetCom
    <3>3. com'[s].received_acknowledge = inBuf[s].acknowledge
      BY <1>1, <3>2 DEF Received, ComType
    <3>4. \A r \in Sides : r # s => com'[r] = com[r]
      BY <1>1, <3>2
    <3> QED BY <3>1, <3>2, <3>3, <3>4, IdFacts, ReadControlKeeps
  <2> QED BY <2>1, <2>2
<1>3. CASE ReadSighup(s)
  <2>1. CASE com[s].received_sighup
    BY <1>3, <2>1, OutsideKeeps DEF ReadSighup, Abort, Inv
  <2>2. CASE ~com[s].received_sighup
    <3>1. /\ Handshake(s) /\ ~firstRun[s] /\ inBuf[s].kind = "sighup"
          /\ DeleteWhen # "never"
      BY <1>3, Meant DEF ReadSighup
    <3>2. /\ ReadByte(s) /\ SetIncoming(s, NoId) /\ UNCHANGED blockVars
          /\ com' = [com EXCEPT ![s] = com'[s]]
          /\ com'[s] = [Received(s) EXCEPT !.received_sighup = TRUE]
      BY <1>1, <1>3, <2>2 DEF ReadSighup, SetCom
    <3>3. com'[s].received_acknowledge = inBuf[s].acknowledge
      BY <1>1, <3>2 DEF Received, ComType
    <3>4. \A r \in Sides : r # s => com'[r] = com[r]
      BY <1>1, <3>2
    <3> QED BY <3>1, <3>2, <3>3, <3>4, IdFacts, ReadControlKeeps
  <2> QED BY <2>1, <2>2
<1> QED BY <1>2, <1>3

\* While nobody is destroyed, no shutdown code and no hang-up is read.
LEMMA NoneRead ==
  ASSUME Inv, NEW s \in Sides, DeleteWhen = "never" PROVE ~ReadShutdown(s) /\ ~ReadSighup(s)
<1>1. ~Reads(s, "shutdown", NoId) /\ ~Reads(s, "sighup", NoId)
  BY Meant
<1> QED BY <1>1 DEF ReadShutdown, ReadSighup

\* What a step does that reads sextet b into r, at s from p: the sextet is read by the reader it
\* was meant for, and the last one ends the object.
SextetStep(s, p, b, r) ==
  /\ Handshake(s) /\ ~firstRun[s] /\ ReadByte(s) /\ SetCom(s, Received(s))
  /\ SetIncoming(s, NoId) /\ UNCHANGED <<transfer, send, tx, turn, writes, life, aborted>>
  /\ Always(s) /\ Always(p) /\ ~firstRun[p] /\ OnlyAt("cycle", s)' /\ ~wireFirst'
  /\ p \in Sides /\ p # s /\ Peer(p) = s /\ b.kind = "data"
  /\ Asked(p) = {} /\ (b.acknowledge <=> Asked(s) # {}) /\ Locked(s, Asked(s)) /\ InStep(s)
  /\ Locked(p, {b.id}) /\ Ahead(p, b) /\ (b.id \in transfer[p] <=> ~Last(b))
  /\ r.lock = TRUE /\ r.dest = b.id /\ r.pos = b.pos /\ r.count = b.count
  /\ b.pos \in 0 .. Triples - 1 /\ b.count \in 0 .. 3
  /\ r \in RecvType /\ b.id \in readLock[s]
  /\ readLock' = [readLock EXCEPT ![s] = IF Last(b) THEN @ \ {b.id} ELSE @]
  /\ rx' = IF Last(b) THEN [rx EXCEPT ![s][b.id] = @ + 1] ELSE rx
  /\ recv' = [recv EXCEPT ![s] =
                IF r.count < 3 THEN [r EXCEPT !.count = @ + 1]
                ELSE IF Last(b) THEN [r EXCEPT !.lock = FALSE, !.pos = 0, !.count = 0]
                ELSE [r EXCEPT !.pos = @ + 1, !.count = 0]]
  /\ obj' = IF b.pos = 0 /\ b.count = 3 THEN [obj EXCEPT ![s][b.id] = b.val] ELSE obj
  /\ IF Last(b) THEN EmitReceived(s, b.id) ELSE UNCHANGED switchVars

LEMMA SextetRead ==
  ASSUME Inv, NEW s \in Sides, ReadObject(s), ReadObjectError(s) = "none",
         NEW b, b = inBuf[s], NEW p, p = Peer(s), NEW r, r = Destination(s)
  PROVE  SextetStep(s, p, b, r)
<1>1. /\ Handshake(s) /\ ~firstRun[s] /\ ~inBuf[s].request /\ ReadByte(s) /\ SetCom(s, Received(s))
      /\ SetIncoming(s, NoId) /\ UNCHANGED <<transfer, send, tx, turn, writes, life, aborted>>
  BY DEF ReadObject
<1>2. Always(s) /\ Always(p) /\ ~firstRun[p] /\ Sent(p, b) /\ OnlyAt("cycle", s)' /\ ~wireFirst'
  BY <1>1, ReadFrom
<1>3. p \in Sides /\ p # s /\ Peer(p) = s
  BY PeerFacts
<1>4. /\ b.kind = "data" /\ Asked(p) = {} /\ (b.acknowledge <=> Asked(s) # {})
      /\ Locked(s, Asked(s)) /\ InStep(s)
      /\ Locked(p, {b.id}) /\ Ahead(p, b) /\ (b.id \in transfer[p] <=> ~Last(b))
  BY <1>1, <1>2, <1>3 DEF Sent
<1>5. /\ recv \in [Sides -> RecvType] /\ readLock \in [Sides -> SUBSET Ids]
      /\ rx \in [Sides -> [Ids -> Nat]] /\ send \in [Sides -> SendType]
  BY DEF Inv, TypeInv, BlockType
<1>6. /\ r.lock = TRUE /\ r.dest = b.id /\ r.pos = b.pos /\ r.count = b.count
      /\ b.pos \in 0 .. Triples - 1 /\ b.count \in 0 .. 3
  <2>1. CASE recv[s].lock
    BY <1>3, <1>4, <1>5, <2>1 DEF Destination, Ahead, RecvType
  <2>2. CASE ~recv[s].lock
    BY <1>3, <1>4, <1>5, <2>2 DEF Destination, Taken, Ahead, RecvType
  <2> QED BY <2>1, <2>2
<1>7. r \in RecvType /\ b.id \in readLock[s]
  <2>1. b.id \in readLock[s]
    BY <1>3, <1>4 DEF Locked
  <2>2. CASE recv[s].lock
    BY <1>5, <2>1, <2>2 DEF Destination
  <2>3. CASE ~recv[s].lock
    <3>1. Lowest(readLock[s]) \in Ids
      BY <1>5, <2>1, LowestIn
    <3> QED BY <1>5, <2>1, <2>3, <3>1, RecvUpdates DEF Destination, Taken
  <2> QED BY <2>1, <2>2, <2>3
<1>8. /\ readLock' = [readLock EXCEPT ![s] = IF Last(b) THEN @ \ {b.id} ELSE @]
      /\ rx' = IF Last(b) THEN [rx EXCEPT ![s][b.id] = @ + 1] ELSE rx
      /\ recv' = [recv EXCEPT ![s] =
                    IF r.count < 3 THEN [r EXCEPT !.count = @ + 1]
                    ELSE IF Last(b) THEN [r EXCEPT !.lock = FALSE, !.pos = 0, !.count = 0]
                    ELSE [r EXCEPT !.pos = @ + 1, !.count = 0]]
  <2>1. CASE r.count < 3
    <3>1. ~Last(b)
      BY <1>6, <2>1 DEF Last
    <3>2. recv' = [recv EXCEPT ![s] = [r EXCEPT !.count = @ + 1]] /\ UNCHANGED <<readLock, rx>>
      BY <2>1 DEF ReadObject
    <3> QED BY <1>5, <2>1, <3>1, <3>2
  <2>2. CASE ~(r.count < 3)
    <3>1. StoreTriple(s, r)
      BY <2>2 DEF ReadObject
    <3>2. ReadEnds(r) <=> Last(b)
      BY <1>6, <2>2 DEF ReadEnds, Last
    <3> QED BY <1>5, <1>6, <2>2, <3>1, <3>2 DEF StoreTriple
  <2> QED BY <2>1, <2>2
<1>9. obj' = IF b.pos = 0 /\ b.count = 3 THEN [obj EXCEPT ![s][b.id] = b.val] ELSE obj
  <2>1. CASE r.count < 3
    BY <1>6, <2>1 DEF ReadObject
  <2>2. CASE ~(r.count < 3)
    BY <1>6, <2>2 DEF ReadObject, StoreTriple
  <2> QED BY <2>1, <2>2
<1>10. IF Last(b) THEN EmitReceived(s, b.id) ELSE UNCHANGED switchVars
  <2>1. CASE r.count < 3
    BY <1>6, <2>1 DEF ReadObject, Last
  <2>2. CASE ~(r.count < 3)
    BY <1>6, <2>2 DEF ReadObject, StoreTriple, ReadEnds, Last
  <2> QED BY <2>1, <2>2
<1> QED BY <1>1, <1>2, <1>3, <1>4, <1>6, <1>7, <1>8, <1>9, <1>10 DEF SextetStep

LEMMA ReadObjectKeeps ==
  ASSUME Inv, NEW s \in Sides, ReadObject(s) PROVE LinkInv'
<1>1. CASE ReadObjectError(s) # "none"
  BY <1>1, OutsideKeeps DEF ReadObject, Abort, Inv
<1>2. CASE ReadObjectError(s) = "none"
  <2> PICK b, p, r : b = inBuf[s] /\ p = Peer(s) /\ r = Destination(s)
    OBVIOUS
  <2> DEFINE w == send[p]
  <2>0. SextetStep(s, p, b, r)
    BY <1>2, SextetRead
  <2>1. /\ Handshake(s) /\ ~firstRun[s] /\ ReadByte(s) /\ SetCom(s, Received(s))
        /\ SetIncoming(s, NoId) /\ UNCHANGED <<transfer, send, tx>>
    BY <2>0 DEF SextetStep
  <2>2. Always(s) /\ Always(p) /\ ~firstRun[p] /\ OnlyAt("cycle", s)' /\ ~wireFirst'
    BY <2>0 DEF SextetStep
  <2>3. p \in Sides /\ p # s /\ Peer(p) = s
    BY PeerFacts
  <2>4. /\ Asked(p) = {} /\ (b.acknowledge <=> Asked(s) # {}) /\ Locked(s, Asked(s)) /\ InStep(s)
        /\ Locked(p, {b.id}) /\ Ahead(p, b) /\ (b.id \in transfer[p] <=> ~Last(b))
    BY <2>0 DEF SextetStep
  <2>5. /\ recv \in [Sides -> RecvType] /\ readLock \in [Sides -> SUBSET Ids]
        /\ rx \in [Sides -> [Ids -> Nat]] /\ send \in [Sides -> SendType]
    BY DEF Inv, TypeInv, BlockType
  <2>6. /\ r.lock = TRUE /\ r.dest = b.id /\ r.pos = b.pos /\ r.count = b.count
        /\ b.pos \in 0 .. Triples - 1 /\ b.count \in 0 .. 3
    BY <2>0 DEF SextetStep
  <2>7. r \in RecvType /\ b.id \in readLock[s]
    BY <2>0 DEF SextetStep
  <2>8. /\ waiting[p] = NoId /\ incoming'[s] = NoId
    BY <2>1, <2>3, <2>4, IdFacts DEF Inv, TypeInv, LoopType, SetIncoming, Asked
  <2>9. pc'[s] = "transfer" /\ UNCHANGED <<firstRun, waiting>>
    BY <2>1 DEF ReadByte, Inv, TypeInv, LoopType
  <2>10. ~acknowledging'[s] /\ (requesting'[s] => requesting[s] /\ ~b.acknowledge)
    BY <2>1 DEF ReadByte, Inv, TypeInv, SignalType
  <2>11. requesting'[p] = requesting[p]
    BY <2>1, <2>3 DEF ReadByte, Inv, TypeInv, SignalType
  <2>12. \A q : Asked(q)' = Asked(q)
    BY <2>9 DEF Asked
  <2>13. /\ com'[s].received_acknowledge = b.acknowledge /\ com'[p] = com[p]
         /\ Calm(s) => Calm(s)'
    BY <2>1, <2>3, ReceivedCalm
  <2>14. /\ readLock' = [readLock EXCEPT ![s] = IF Last(b) THEN @ \ {b.id} ELSE @]
         /\ rx' = IF Last(b) THEN [rx EXCEPT ![s][b.id] = @ + 1] ELSE rx
         /\ recv' = [recv EXCEPT ![s] =
                      IF r.count < 3 THEN [r EXCEPT !.count = @ + 1]
                      ELSE IF Last(b) THEN [r EXCEPT !.lock = FALSE, !.pos = 0, !.count = 0]
                      ELSE [r EXCEPT !.pos = @ + 1, !.count = 0]]
    BY <2>0 DEF SextetStep
  <2>15. recv'[p] = recv[p] /\ readLock'[p] = readLock[p] /\ rx'[p] = rx[p]
    BY <2>3, <2>5, <2>14
  <2>16. InStep(s)'
    BY <2>1, <2>3, <2>4, <2>15 DEF InStep
  <2>17. InStep(p)'
    <3>1. /\ recv'[s].lock = w.lock /\ recv'[s].pos = w.pos /\ recv'[s].count = w.count
          /\ w.lock => recv'[s].dest = w.origin
      <4>1. Advanced(w, b)
        BY <2>4 DEF Ahead
      <4>2. w.lock \in BOOLEAN
        BY <2>3, <2>5, Zenon DEF SendType
      <4>3. CASE r.count < 3
        <5>1. recv'[s] = [r EXCEPT !.count = @ + 1]
          BY <2>5, <2>14, <4>3
        <5> QED BY <2>6, <2>7, <4>1, <4>2, <4>3, <5>1 DEF Advanced, RecvType
      <4>4. CASE ~(r.count < 3) /\ Last(b)
        <5>1. recv'[s] = [r EXCEPT !.lock = FALSE, !.pos = 0, !.count = 0]
          BY <2>5, <2>14, <4>4
        <5>2. recv'[s].lock = FALSE /\ recv'[s].pos = 0 /\ recv'[s].count = 0
          BY <2>7, <5>1 DEF RecvType
        <5>3. ~w.lock /\ w.pos = 0 /\ w.count = 0
          BY <2>6, <4>1, <4>4, LinkAssumption DEF Advanced, Last
        <5> QED BY <4>2, <5>2, <5>3
      <4>5. CASE ~(r.count < 3) /\ ~Last(b)
        <5>1. recv'[s] = [r EXCEPT !.pos = @ + 1, !.count = 0]
          BY <2>5, <2>14, <4>5
        <5> QED BY <2>6, <2>7, <4>1, <4>2, <4>5, <5>1, LinkAssumption DEF Advanced, RecvType, Last
      <4> QED BY <4>3, <4>4, <4>5
    <3>2. tx[p] = rx'[s]
      BY <2>3, <2>4, <2>5, <2>7, <2>14 DEF Ahead
    <3> QED BY <2>1, <2>3, <3>1, <3>2 DEF InStep
  <2>18. Locked(s, Asked(s))' /\ Locked(p, {})'
    <3>1. readLock'[p] = transfer'[s] \cup Asked(s)'
      BY <2>1, <2>4, <2>12, <2>15 DEF Locked
    <3>2. readLock'[s] = transfer'[p]
      BY <2>1, <2>3, <2>4, <2>5, <2>14 DEF Locked
    <3> QED BY <2>3, <3>1, <3>2 DEF Locked
  <2>19. Cycle(s)'
    <3>1. com'[s].received_acknowledge <=> Asked(s)' # {}
      BY <2>4, <2>12, <2>13
    <3>2. requesting'[s] => Asked(s)' = {}
      BY <2>4, <2>10, <2>12
    <3> QED BY <2>8, <2>9, <2>10, <2>16, <2>17, <2>18, <3>1, <3>2 DEF Cycle
  <2>20. readLock'[s] \subseteq readLock[s]
    BY <2>5, <2>14
  <2>21. Always(s)'
    <3>1. pc[s] = "wait"
      BY <2>1 DEF Handshake, At
    <3>2. NumIds = 1 => (transfer[s] # {} => send[s].lock)
      BY <2>2, <3>1 DEF Always, Composed, Prompt
    <3>3. Composed(s)'
      BY <2>1, <2>2, <2>13, <3>2, ComposedWhile DEF Always
    <3> QED BY <2>1, <2>2, <2>10, <2>12, <2>15, <2>20, <3>3 DEF Always
  <2>22. Always(p)'
    <3>1. pc'[p] = pc[p]
      BY <2>1, <2>3 DEF ReadByte, Inv, TypeInv, LoopType
    <3>2. Composed(p)'
      BY <2>1, <2>2, <2>13, <3>1, ComposedStays DEF Always, Calm
    <3> QED BY <2>1, <2>2, <2>3, <2>11, <2>12, <2>15, <2>20, <3>2 DEF Always
  <2>23. Situation("cycle", s)'
    BY <2>1, <2>2, <2>9, <2>19 DEF Situation
  <2> QED BY <2>2, <2>21, <2>22, <2>23, Landed DEF Places
<1> QED BY <1>1, <1>2

-----------------------------------------------------------------------------
(* The hooks.                                                              *)

\* A cycle that goes on.
LEMMA GoingOn ==
  ASSUME Inv, NEW s \in Sides, pc[s] # "wait", NEW q \in Phases \ {"wait"},
         pc' = [pc EXCEPT ![s] = q], UNCHANGED lineVars
  PROVE  /\ Cycle(s) /\ Always(s) /\ Always(Peer(s)) /\ ~firstRun[s] /\ ~firstRun[Peer(s)]
         /\ OnlyAt("cycle", s)' /\ ~wireFirst' /\ pc'[s] = q
<1>1. GoesOn(s)
  BY DEF GoesOn, lineVars
<1>2. OnlyAt("cycle", s) /\ OnlyAt("cycle", s)' /\ ~wireFirst'
  BY <1>1, PassPlaces DEF Inv, Passes
<1>3. pc'[s] = q
  BY DEF Inv, TypeInv, LoopType
<1> QED BY <1>2, <1>3, Found DEF Inv, Places, Situation

\* transfer_hook() takes the read lock for the object the peer has asked for, unless s asked
\* for the same object: then the peer has it read-locked, and does not ask for it.
LEMMA TransferHookKeeps ==
  ASSUME Inv, NEW s \in Sides, TransferHook(s) PROVE LinkInv'
<1> DEFINE j == incoming[s]
           p == Peer(s)
           grants == j \in Ids /\ j # waiting[s]
<1>1. CASE grants /\ TransferError(s, j) # "none"
  BY <1>1, OutsideKeeps DEF TransferHook, Abort, Inv
<1>2. CASE ~(grants /\ TransferError(s, j) # "none")
  <2>1. /\ pc[s] = "transfer" /\ pc' = [pc EXCEPT ![s] = "acknowledge"]
        /\ UNCHANGED <<lineVars, firstRun, waiting, com, requesting, transfer, recv, send, tx, rx>>
    BY <1>2 DEF TransferHook, At, signalVars, blockVars
  <2>2. /\ Cycle(s) /\ Always(s) /\ Always(p) /\ ~firstRun[s] /\ ~firstRun[p]
        /\ OnlyAt("cycle", s)' /\ ~wireFirst' /\ pc'[s] = "acknowledge"
    BY <2>1, GoingOn DEF Phases
  <2>3. p \in Sides /\ p # s /\ Peer(p) = s
    BY PeerFacts
  <2>4. /\ InStep(s) /\ InStep(p) /\ j = waiting[p] /\ ~acknowledging[s] /\ Locked(p, {})
        /\ com[s].received_acknowledge <=> Asked(s) # {}
        /\ requesting[s] => Asked(s) = {}
        /\ Locked(s, Asked(s))
    BY <2>1, <2>2 DEF Cycle
  <2>5. IF Asked(p) # {}
        THEN /\ Asked(p) = {j} /\ j \notin transfer[s] \cup Asked(s)
             /\ readLock' = [readLock EXCEPT ![s] = @ \cup {j}] /\ acknowledging'[s] = TRUE
        ELSE readLock' = readLock /\ acknowledging' = acknowledging
    <3>1. CASE grants
      <4>1. /\ readLock' = [readLock EXCEPT ![s] = @ \cup {j}]
            /\ acknowledging' = [acknowledging EXCEPT ![s] = TRUE]
        BY <1>2, <3>1 DEF TransferHook
      <4>2. j \notin transfer[s]
        BY <1>2, <3>1 DEF TransferError
      <4>3. acknowledging'[s] = TRUE
        BY <4>1 DEF Inv, TypeInv, SignalType
      <4> QED BY <2>4, <3>1, <4>1, <4>2, <4>3 DEF Asked
    <3>2. CASE ~grants
      <4>1. readLock' = readLock /\ acknowledging' = acknowledging
        BY <3>2 DEF TransferHook, signalVars, blockVars
      <4>2. ASSUME j \in Ids PROVE FALSE
        <5>1. Asked(s) = {j} /\ Asked(p) = {j}
          BY <2>4, <3>2, <4>2 DEF Asked
        <5>2. j \in readLock[p]
          BY <2>4, <5>1 DEF Locked
        <5> QED BY <2>2, <5>1, <5>2 DEF Always
      <4> QED BY <2>4, <4>1, <4>2 DEF Asked
    <3> QED BY <3>1, <3>2
  <2>6. \A r : InStep(r)' = InStep(r) /\ Asked(r)' = Asked(r)
    BY <2>1 DEF InStep, Asked
  <2>7. readLock'[s] = readLock[s] \cup Asked(p) /\ readLock'[p] = readLock[p]
    BY <2>3, <2>5 DEF Inv, TypeInv, BlockType
  <2>8. Cycle(s)'
    <3>1. acknowledging'[s] <=> Asked(p)' # {}
      BY <2>4, <2>5, <2>6
    <3>2. Locked(s, Asked(s))' /\ Locked(p, Asked(p))'
      BY <2>1, <2>3, <2>4, <2>6, <2>7 DEF Locked
    <3> QED BY <2>1, <2>2, <2>4, <2>6, <3>1, <3>2 DEF Cycle
  <2>9. readLock[p] \cap Asked(p) = {}
    BY <2>2 DEF Always
  <2>10. Always(s)'
    <3>1. Composed(s)'
      BY <2>1, <2>2, ComposedWhile DEF Always, Composed, Prompt, Calm
    <3> QED BY <2>1, <2>2, <2>5, <2>6, <2>7, <2>9, <3>1 DEF Always
  <2>11. Always(p)'
    <3>1. pc'[p] = pc[p]
      BY <2>1, <2>3 DEF Inv, TypeInv, LoopType
    <3>2. Composed(p)'
      BY <2>1, <2>2, <3>1, ComposedStays DEF Always, Calm
    <3> QED BY <2>1, <2>2, <2>3, <2>5, <2>6, <2>7, <2>9, <3>2 DEF Always
  <2>12. Situation("cycle", s)'
    BY <2>1, <2>2, <2>8 DEF Situation
  <2> QED BY <2>2, <2>10, <2>11, <2>12, Landed DEF Places
<1> QED BY <1>1, <1>2

\* acknowledge_hook() puts the object that was granted in transfer; the peer has read-locked it.
LEMMA AcknowledgeHookKeeps ==
  ASSUME Inv, NEW s \in Sides, AcknowledgeHook(s) PROVE LinkInv'
<1> DEFINE p == Peer(s)
<1>1. CASE AcknowledgeError(s) # "none"
  BY <1>1, OutsideKeeps DEF AcknowledgeHook, Abort, Inv
<1>2. CASE AcknowledgeError(s) = "none"
  <2> DEFINE granted == IF com[s].received_acknowledge THEN {waiting[s]} \cap Ids ELSE {}
  <2>1. /\ pc[s] = "acknowledge" /\ transfer' = [transfer EXCEPT ![s] = @ \cup granted]
        /\ com' = [com EXCEPT ![s].acknowledgeRequested = FALSE]
        /\ waiting' = [waiting EXCEPT ![s] = NoId]
        /\ UNCHANGED <<lineVars, firstRun, requesting, acknowledging, readLock, recv, send, tx, rx>>
    BY <1>2 DEF AcknowledgeHook, At
  <2>2. PICK q \in {"scan", "out"} : pc' = [pc EXCEPT ![s] = q]
    BY <1>2 DEF AcknowledgeHook
  <2>3. /\ Cycle(s) /\ Always(s) /\ Always(p) /\ ~firstRun[s] /\ ~firstRun[p]
        /\ OnlyAt("cycle", s)' /\ ~wireFirst' /\ pc'[s] = q
    BY <2>1, <2>2, GoingOn DEF Phases
  <2>4. p \in Sides /\ p # s /\ Peer(p) = s
    BY PeerFacts
  <2>5. /\ InStep(s) /\ InStep(p) /\ (acknowledging[s] <=> Asked(p) # {}) /\ Locked(p, Asked(p))
        /\ com[s].received_acknowledge <=> Asked(s) # {}
        /\ requesting[s] => Asked(s) = {}
        /\ Locked(s, Asked(s))
    BY <2>1, <2>3 DEF Cycle
  <2>6. granted = Asked(s)
    BY <2>5 DEF Asked
  <2> HIDE DEF granted
  <2>7. \A r : InStep(r)' = InStep(r)
    BY <2>1 DEF InStep
  <2>8. Asked(s)' = {} /\ Asked(p)' = Asked(p)
    BY <2>1, <2>4, IdFacts DEF Asked, Inv, TypeInv, LoopType
  <2>9. transfer'[s] = transfer[s] \cup Asked(s) /\ transfer'[p] = transfer[p]
    BY <2>1, <2>4, <2>6 DEF Inv, TypeInv, BlockType
  <2>10. Cycle(s)'
    <3>1. Locked(s, Asked(s))' /\ Locked(p, Asked(p))'
      BY <2>1, <2>4, <2>5, <2>8, <2>9 DEF Locked
    <3> QED BY <2>1, <2>2, <2>3, <2>5, <2>7, <2>8, <3>1 DEF Cycle
  <2>11. /\ Calm(s) => Calm(s)'
         /\ com'[s].received_acknowledge = com[s].received_acknowledge /\ com'[p] = com[p]
    BY <2>1, <2>4 DEF Calm, Inv, TypeInv, SignalType, ComType
  <2>12. Always(s)'
    <3>1. Composed(s)'
      BY <2>1, <2>3, <2>5, <2>9, <2>11 DEF Always, Composed, Prompt
    <3>2. requesting[s] => transfer'[s] = {}
      BY <2>3, <2>5, <2>9 DEF Always
    <3> QED BY <2>1, <2>3, <2>8, <2>9, <3>1, <3>2 DEF Always
  <2>13. Always(p)'
    <3>1. pc'[p] = pc[p]
      BY <2>2, <2>4 DEF Inv, TypeInv, LoopType
    <3>2. Composed(p)'
      BY <2>1, <2>3, <2>9, <2>11, <3>1, ComposedStays DEF Always, Calm
    <3> QED BY <2>1, <2>3, <2>8, <2>9, <3>2 DEF Always
  <2>14. Situation("cycle", s)'
    BY <2>1, <2>3, <2>10 DEF Situation
  <2> QED BY <2>3, <2>12, <2>13, <2>14, Landed DEF Places
<1> QED BY <1>1, <1>2

-----------------------------------------------------------------------------
(* The sextets that are sent.                                              *)

LEMMA DataKeeps ==
  ASSUME Inv, NEW s \in Sides, pc[s] = "out", NEW b \in Bytes, EndCycle(s, b), b.kind = "data",
         b.request = requesting[s], b.acknowledge = acknowledging[s],
         b.id \in transfer[s], b.pos = send[s].pos, b.count = send[s].count,
         b.id = IF send[s].lock THEN send[s].origin ELSE Lowest(transfer[s]),
         Advanced(send'[s], b), send'[Peer(s)] = send[Peer(s)],
         transfer' = [transfer EXCEPT ![s] = IF Last(b) THEN @ \ {b.id} ELSE @],
         tx' = IF Last(b) THEN [tx EXCEPT ![s][b.id] = @ + 1] ELSE tx,
         UNCHANGED <<firstRun, waiting, signalVars, readLock, recv, rx>>
  PROVE  LinkInv'
<1> DEFINE p == Peer(s)
<1>1. OnlyAt("cycle", s) /\ OnlyAt("ack", s)' /\ ~wireFirst'
  BY PassPlaces DEF Inv, EndCycle, Ends, Passes
<1>2. Cycle(s) /\ Always(s) /\ Always(p) /\ ~firstRun[s] /\ ~firstRun[p]
  BY <1>1, Found DEF Inv, Places, Situation
<1>3. p \in Sides /\ p # s /\ Peer(p) = s
  BY PeerFacts
<1>4. /\ InStep(s) /\ InStep(p) /\ Asked(s) = {} /\ Locked(s, {}) /\ Locked(p, Asked(p))
      /\ acknowledging[s] <=> Asked(p) # {}
  BY <1>2 DEF Cycle
<1>5. outBuf'[s] = b
  BY DEF EndCycle, Inv, TypeInv, LineType
<1>6. \A r : Asked(r)' = Asked(r)
  BY DEF Asked
<1>7. /\ transfer'[s] = (IF Last(b) THEN transfer[s] \ {b.id} ELSE transfer[s])
      /\ transfer'[p] = transfer[p] /\ tx'[p] = tx[p]
      /\ tx'[s] = IF Last(b) THEN [tx[s] EXCEPT ![b.id] = @ + 1] ELSE tx[s]
  BY <1>3 DEF Inv, TypeInv, BlockType
<1>8. InStep(p)'
  BY <1>3, <1>4, <1>7 DEF InStep
<1>9. Ahead(s, b)'
  <2>1. b.pos = recv[p].pos /\ b.count = recv[p].count /\ (recv[p].lock = send[s].lock)
    BY <1>4 DEF InStep
  <2>2. b.id = IF recv[p].lock THEN recv[p].dest ELSE Lowest(readLock[p])
    BY <1>4, <2>1 DEF InStep, Locked
  <2>3. recv[p].lock \/ (recv[p].pos = 0 /\ recv[p].count = 0)
    BY <1>2, <2>1 DEF Always
  <2>4. tx'[s] = IF Last(b) THEN [rx[p] EXCEPT ![b.id] = @ + 1] ELSE rx[p]
    BY <1>4, <1>7 DEF InStep
  <2> QED BY <2>1, <2>2, <2>3, <2>4 DEF Ahead
<1>10. Sent(s, b)'
  <2>1. b.request = FALSE
    BY <1>2, <1>4 DEF Always, Bytes
  <2>2. Locked(p, Asked(p))' /\ Locked(s, {b.id})'
    <3>1. readLock[s] = transfer'[p] \cup Asked(p)'
      BY <1>3, <1>4, <1>6, <1>7 DEF Locked
    <3>2. readLock[p] = transfer'[s] \cup {b.id}
      BY <1>4, <1>7 DEF Locked
    <3> QED BY <1>3, <3>1, <3>2 DEF Locked
  <2>3. b.id \in transfer'[s] <=> ~Last(b)
    BY <1>7
  <2> QED BY <1>4, <1>6, <1>8, <1>9, <2>1, <2>2, <2>3 DEF Sent
<1>11. Always(s)'
  <2>1. IF send'[s].lock THEN send'[s].origin \in transfer'[s]
        ELSE send'[s].pos = 0 /\ send'[s].count = 0
    <3>1. CASE Last(b)
      <4>1. ~send'[s].lock /\ send'[s].pos = 0 /\ send'[s].count = 0
        BY <3>1, LinkAssumption DEF Advanced, Last
      <4> QED BY <4>1
    <3>2. CASE ~Last(b)
      <4>1. send'[s].lock /\ send'[s].origin = b.id
        BY <3>2, LinkAssumption DEF Advanced, Last, Bytes
      <4> QED BY <1>7, <3>2, <4>1
    <3> QED BY <3>1, <3>2
  <2>2. transfer'[s] \subseteq transfer[s]
    BY <1>7
  <2>3. NumIds = 1 => (transfer'[s] # {} => send'[s].lock)
    <3>1. CASE Last(b)
      BY <1>7, <3>1 DEF Inv, TypeInv, BlockType, Ids
    <3>2. CASE ~Last(b)
      BY <3>2, LinkAssumption DEF Advanced, Last, Bytes
    <3> QED BY <3>1, <3>2
  <2>4. Composed(s)'
    BY <1>2, <2>3, ComposedWhile DEF Always, Calm, signalVars
  <2> QED BY <1>2, <1>6, <2>1, <2>2, <2>4 DEF Always, signalVars
<1>12. Always(p)'
  <2>1. pc'[p] = pc[p]
    BY <1>3 DEF EndCycle, Inv, TypeInv, LoopType
  <2>2. Composed(p)'
    BY <1>2, <1>7, <2>1, ComposedStays DEF Always, Calm, signalVars
  <2> QED BY <1>2, <1>6, <1>7, <2>2 DEF Always, signalVars
<1>13. Situation("ack", s)'
  BY <1>2, <1>5, <1>10 DEF Situation
<1> QED BY <1>1, <1>11, <1>12, <1>13, Landed DEF Places

\* The sextets but the last of a triple.
LEMMA SendSextetKeeps ==
  ASSUME Inv, NEW s \in Sides, pc[s] = "out", NEW w \in SendType, w.lock, w.origin \in transfer[s],
         w.pos = send[s].pos, w.count = send[s].count, w.count < 3,
         w.origin = IF send[s].lock THEN send[s].origin ELSE Lowest(transfer[s]),
         SendSextet(s, w)
  PROVE  LinkInv'
<1> DEFINE val == Carried(s, w)
<1>1. val \in 0 .. MaxWrites /\ w.origin \in 0 .. NumIds
  BY IdFacts, LinkAssumption DEF Carried, Inv, TypeInv, AppType, BlockType, SendType
<1>2. PICK b : b = Sextet(s, w.origin, w.pos, w.count, val)
  OBVIOUS
<1>3. /\ b \in Bytes /\ b.kind = "data"
      /\ b.request = requesting[s] /\ b.acknowledge = acknowledging[s]
      /\ b.id = w.origin /\ b.pos = w.pos /\ b.count = w.count
  <2>1. b \in Bytes
    BY <1>1, <1>2, SextetType DEF Inv, SendType
  <2> QED BY <1>2, <2>1 DEF Sextet
<1>4. /\ EndCycle(s, b) /\ send' = [send EXCEPT ![s] = [w EXCEPT !.count = @ + 1, !.val = val]]
      /\ UNCHANGED <<firstRun, waiting, signalVars, readLock, transfer, recv, tx, rx>>
  BY <1>2 DEF SendSextet
<1>5. ~Last(b)
  BY <1>3 DEF Last
<1>6. send'[Peer(s)] = send[Peer(s)] /\ send'[s] = [w EXCEPT !.count = @ + 1, !.val = val]
  BY <1>4, PeerFacts DEF Inv, TypeInv, BlockType
<1>7. Advanced(send'[s], b)
  <2>1. send'[s].lock = w.lock /\ send'[s].origin = w.origin /\ send'[s].pos = w.pos
    BY <1>6 DEF SendType
  <2>2. send'[s].count = w.count + 1
    BY <1>6 DEF SendType
  <2> QED BY <1>3, <2>1, <2>2 DEF Advanced
<1>8. /\ transfer' = [transfer EXCEPT ![s] = IF Last(b) THEN @ \ {b.id} ELSE @]
      /\ tx' = IF Last(b) THEN [tx EXCEPT ![s][b.id] = @ + 1] ELSE tx
  BY <1>4, <1>5 DEF Inv, TypeInv, BlockType
<1> QED BY <1>3, <1>4, <1>6, <1>7, <1>8, DataKeeps

LEMMA WriteKeeps ==
  ASSUME Inv, NEW s \in Sides, StartObject(s) \/ WriteObject(s) PROVE LinkInv'
<1>1. Always(s) /\ send[s] \in SendType /\ transfer[s] \in SUBSET Ids
  BY DEF Inv, LinkInv, TypeInv, BlockType
<1>2. CASE StartObject(s)
  <2> DEFINE j == Lowest(transfer[s])
             w == [send[s] EXCEPT !.lock = TRUE, !.origin = j]
  <2>1. CASE StartObjectError(s, j) # "none"
    BY <1>2, <2>1, OutsideKeeps DEF StartObject, Abort, Inv
  <2>2. CASE StartObjectError(s, j) = "none"
    <3>1. pc[s] = "out" /\ ~send[s].lock /\ transfer[s] # {} /\ SendSextet(s, w)
      BY <1>2, <2>2 DEF StartObject, Idle, At, WritesPending
    <3>2. j \in transfer[s] /\ j \in Ids
      BY <1>1, <3>1, LowestIn
    <3>3. w \in SendType
      BY <1>1, <3>2, SendUpdates
    <3>4. w.lock = TRUE /\ w.origin = j /\ w.pos = send[s].pos /\ w.count = send[s].count
      BY <1>1 DEF SendType
    <3>5. w.count < 3
      BY <1>1, <3>1, <3>4 DEF Always
    <3> HIDE DEF w
    <3> QED BY <3>1, <3>2, <3>3, <3>4, <3>5, SendSextetKeeps
  <2> QED BY <2>1, <2>2
<1>3. CASE WriteObject(s)
  BY <1>1, <1>3, SendSextetKeeps DEF WriteObject, At, Always
<1> QED BY <1>2, <1>3

\* The last sextet of a triple, and of the object.
LEMMA WriteFourthKeeps ==
  ASSUME Inv, NEW s \in Sides, WriteFourth(s) PROVE LinkInv'
<1> DEFINE w == send[s]
<1>1. Always(s) /\ w \in SendType /\ pc[s] = "out" /\ w.lock /\ w.count = 3
  BY DEF WriteFourth, At, Inv, LinkInv, TypeInv, BlockType
<1>2. w.origin \in transfer[s] /\ w.origin \in 0 .. NumIds
  BY <1>1 DEF Always, SendType
<1>3. PICK b : b = Sextet(s, w.origin, w.pos, 3, w.val)
  OBVIOUS
<1>4. /\ b \in Bytes /\ b.kind = "data"
      /\ b.request = requesting[s] /\ b.acknowledge = acknowledging[s]
      /\ b.id = w.origin /\ b.pos = w.pos /\ b.count = 3
  <2>1. b \in Bytes
    BY <1>1, <1>2, <1>3, SextetType DEF Inv, SendType
  <2> QED BY <1>3, <2>1 DEF Sextet
<1>5. WriteEnds(w) <=> Last(b)
  BY <1>4 DEF WriteEnds, Last
<1>6. /\ EndCycle(s, b)
      /\ send' = [send EXCEPT ![s] =
                    IF Last(b) THEN [w EXCEPT !.lock = FALSE, !.pos = 0, !.count = 0, !.val = 0]
                    ELSE [w EXCEPT !.pos = @ + 1, !.count = 0, !.val = 0]]
      /\ transfer' = [transfer EXCEPT ![s] = IF Last(b) THEN @ \ {b.id} ELSE @]
      /\ tx' = IF Last(b) THEN [tx EXCEPT ![s][b.id] = @ + 1] ELSE tx
      /\ UNCHANGED <<firstRun, waiting, signalVars, readLock, recv, rx>>
  BY <1>3, <1>4, <1>5 DEF WriteFourth
<1>7. send'[Peer(s)] = send[Peer(s)]
      /\ send'[s] = IF Last(b) THEN [w EXCEPT !.lock = FALSE, !.pos = 0, !.count = 0, !.val = 0]
                    ELSE [w EXCEPT !.pos = @ + 1, !.count = 0, !.val = 0]
  BY <1>6, PeerFacts DEF Inv, TypeInv, BlockType
<1>8. Advanced(send'[s], b)
  <2>1. CASE Last(b)
    <3>1. send'[s].lock = FALSE /\ send'[s].pos = 0 /\ send'[s].count = 0
      BY <1>1, <1>7, <2>1 DEF SendType
    <3> QED BY <1>4, <2>1, <3>1, LinkAssumption DEF Advanced, Last
  <2>2. CASE ~Last(b)
    <3>1. send'[s].lock = w.lock /\ send'[s].origin = w.origin
      BY <1>1, <1>7, <2>2 DEF SendType
    <3>2. send'[s].pos = w.pos + 1 /\ send'[s].count = 0
      BY <1>1, <1>7, <2>2 DEF SendType
    <3>3. b.pos + 1 < Triples
      BY <1>1, <1>4, <2>2, LinkAssumption DEF Last, SendType
    <3> QED BY <1>1, <1>4, <3>1, <3>2, <3>3 DEF Advanced
  <2> QED BY <2>1, <2>2
<1> QED BY <1>1, <1>2, <1>4, <1>6, <1>7, <1>8, DataKeeps

-----------------------------------------------------------------------------
(* The invariant and what follows.                                         *)

\* Inv is inductive while the FPGA is not destroyed, or with one object.
LEMMA LinkInductive ==
  ASSUME Inv, [Next]_vars, DeleteWhen = "never" \/ NumIds = 1 PROVE Inv'
<1>1. TypeInv' /\ TurnInv'
  BY TypeInductive, TurnInductive DEF Inv
<1>2. LinkInv'
  <2>1. ASSUME NEW s \in Sides, EventLoop(s) PROVE LinkInv'
    BY <2>1, FirstCycleKeeps, ReadKeeps, ReadCodesKeep, ReadObjectKeeps, TransferHookKeeps,
       AcknowledgeHookKeeps, ScanKeeps, SendShutdownKeeps, SendSighupKeeps, WriteKeeps,
       WriteFourthKeeps, SendIdleKeeps
       DEF EventLoop
  <2>2. ASSUME NEW s \in Sides, Resolver(s) \/ Destroy(s) PROVE LinkInv'
    <3>1. UNCHANGED <<lineVars, loopVars, signalVars, blockVars>>
      BY <2>2 DEF Resolver, Resolve, Destroy, Abort
    <3> QED BY <3>1, OutsideKeeps DEF Inv
  <2>3. CASE Application \/ DeleteMcu \/ Terminated \/ UNCHANGED vars
    <3>1. UNCHANGED <<lineVars, loopVars, signalVars, blockVars>>
      BY <2>3 DEF Application, WriteStart, DeleteMcu, Terminated, vars, Abort
    <3> QED BY <3>1, OutsideKeeps DEF Inv
  <2>4. CASE DeleteFpga
    <3>1. /\ UNCHANGED <<lineVars, loopVars, requesting, acknowledging, blockVars>>
          /\ DeleteWhen # "never" /\ com' = [com EXCEPT !["fpga"].descendants_notified = TRUE]
      BY <2>4 DEF DeleteFpga
    <3>2. \A s \in Sides : com'[s].received_acknowledge = com[s].received_acknowledge
      BY <3>1 DEF Inv, TypeInv, SignalType, ComType
    <3> QED BY <3>1, <3>2, AsideKeeps DEF Inv
  <2> QED BY <2>1, <2>2, <2>3, <2>4, WireKeeps, WireStartKeeps DEF Next
<1> QED BY <1>1, <1>2 DEF Inv

\* Where the byte is decides how the two sides stand.
LEMMA Cases ==
  ASSUME Inv
  PROVE  \/ Quiet /\ Nowhere
         \/ \E s \in Sides : OnlyAt("cycle", s) /\ Cycle(s)
         \/ \E s \in Sides : OnlyAt("ack", s) /\ Sent(s, outBuf[s])
         \/ \E s \in Sides : OnlyAt("updated", s) /\ ~firstRun[s] /\ Sent(Peer(s), inBuf[s])
         \/ \E s \in Sides : OnlyAt("updated", s) /\ firstRun[s] /\ Quiet /\ Blank(s)
<1>1. CASE wireFirst
  BY <1>1 DEF Inv, TurnInv, LinkInv
<1>2. CASE ~wireFirst
  <2>1. PICK x \in Places, s \in Sides : OnlyAt(x, s)
    BY <1>2 DEF Inv, TurnInv
  <2>2. Situation(x, s)
    BY <2>1, Found DEF Inv
  <2> QED BY <2>1, <2>2 DEF Places, Situation
<1> QED BY <1>1, <1>2

LEMMA InvAgrees == Inv => TransfersAgree
<1> SUFFICES ASSUME Inv, NEW s \in Sides
             PROVE  /\ transfer[s] \subseteq readLock[Peer(s)]
                    /\ readLock[s] \cap transfer[s] = {}
                    /\ readLock[s] \cap readLock[Peer(s)] = {}
  BY DEF TransfersAgree
<1>1. Always(s)
  BY DEF Inv, LinkInv
<1>2. Quiet \/ \E more : Locked(s, more)
  <2>1. ASSUME NEW r \in Sides, Cycle(r) PROVE \E more : Locked(s, more)
    BY <2>1, PeerFacts DEF Cycle
  <2>2. ASSUME NEW r \in Sides, NEW b, Sent(r, b) PROVE \E more : Locked(s, more)
    BY <2>2, PeerFacts DEF Sent
  <2> QED BY <2>1, <2>2, Cases, PeerFacts
<1>3. transfer[s] \subseteq readLock[Peer(s)]
  BY <1>2 DEF Quiet, Locked
<1> QED BY <1>1, <1>3 DEF Always

LEMMA InvDelivers == Inv => DeliveryOrder
<1> SUFFICES ASSUME Inv, NEW s \in Sides, flagUpdated[s], ~firstRun[s], inBuf[s].kind = "data"
             PROVE  LET b == inBuf[s] IN
                    /\ ~b.request
                    /\ recv[s].lock \/ readLock[s] # {}
                    /\ b.id = Destination(s).dest /\ b.pos = recv[s].pos /\ b.count = recv[s].count
  BY DEF DeliveryOrder
<1> DEFINE b == inBuf[s]
<1>1. Place("updated", s)
  BY DEF Place
<1>2. Sent(Peer(s), b)
  BY <1>1 DEF Inv, LinkInv, Places, Situation
<1>3. ~b.request /\ Locked(Peer(s), {b.id}) /\ Ahead(Peer(s), b)
  BY <1>2 DEF Sent
<1>4. b.id \in readLock[s]
  BY <1>3, PeerFacts DEF Locked
<1>5. b.id = Destination(s).dest
  BY <1>3, PeerFacts DEF Ahead, Destination, Taken, Inv, TypeInv, BlockType, RecvType
<1> QED BY <1>3, <1>4, <1>5, PeerFacts DEF Ahead

LEMMA InvConserves == Inv => Conservation
<1> SUFFICES ASSUME Inv, NEW s \in Sides, NEW j \in Ids
             PROVE  tx[s][j] = rx[Peer(s)][j] + (IF LastSextet(Peer(s), j) THEN 1 ELSE 0)
  BY DEF Conservation
<1> DEFINE p == Peer(s)
<1>1. p \in Sides /\ p # s /\ Peer(p) = s
  BY PeerFacts
<1>2. rx \in [Sides -> [Ids -> Nat]] /\ rx[p][j] \in Nat
  BY <1>1 DEF Inv, TypeInv, BlockType
<1>3. ASSUME InStep(s), ~LastSextet(p, j)
      PROVE  tx[s][j] = rx[p][j] + (IF LastSextet(p, j) THEN 1 ELSE 0)
  BY <1>2, <1>3 DEF InStep
<1>4. ASSUME NEW b, Sent(s, b), UnderWay(p) = {b}
      PROVE  tx[s][j] = rx[p][j] + (IF LastSextet(p, j) THEN 1 ELSE 0)
  <2>1. LastSextet(p, j) <=> b.kind = "data" /\ b.id = j /\ b.pos = Triples - 1 /\ b.count = 3
    BY <1>4 DEF LastSextet
  <2>2. CASE b.kind # "data"
    BY <1>3, <1>4, <2>1, <2>2 DEF Sent
  <2>3. CASE b.kind = "data"
    <3>1. Ahead(s, b)
      BY <1>4, <2>3 DEF Sent
    <3>2. b.pos \in Nat
      BY <1>1, <3>1 DEF Ahead, Inv, TypeInv, BlockType, RecvType
    <3>3. Last(b) <=> b.pos = Triples - 1 /\ b.count = 3
      BY <3>2, LinkAssumption DEF Last
    <3>4. tx[s] = IF Last(b) THEN [rx[p] EXCEPT ![b.id] = @ + 1] ELSE rx[p]
      BY <3>1 DEF Ahead
    <3> QED BY <1>1, <1>2, <2>1, <2>3, <3>3, <3>4
  <2> QED BY <2>2, <2>3
<1>5. \A x \in Places, r \in Sides : OnlyAt(x, r) =>
        UnderWay(p) = IF x = "updated" /\ r = p THEN {inBuf[p]}
                      ELSE IF x = "ack" /\ r = s THEN {outBuf[s]} ELSE {}
  BY <1>1 DEF OnlyAt, Places, Place, UnderWay
<1>6. CASE Quiet /\ Nowhere
  <2>1. UnderWay(p) = {}
    BY <1>1, <1>6 DEF Nowhere, Places, Place, UnderWay
  <2> QED BY <1>3, <1>6, <2>1 DEF Quiet, LastSextet
<1>7. ASSUME NEW r \in Sides, OnlyAt("cycle", r), Cycle(r)
      PROVE  tx[s][j] = rx[p][j] + (IF LastSextet(p, j) THEN 1 ELSE 0)
  <2>1. UnderWay(p) = {}
    BY <1>5, <1>7 DEF Places
  <2>2. InStep(s)
    BY <1>7, PeerFacts DEF Cycle
  <2> QED BY <1>3, <2>1, <2>2 DEF LastSextet
<1>8. ASSUME NEW r \in Sides, OnlyAt("ack", r), Sent(r, outBuf[r])
      PROVE  tx[s][j] = rx[p][j] + (IF LastSextet(p, j) THEN 1 ELSE 0)
  <2>1. CASE r = s
    BY <1>4, <1>5, <1>8, <2>1 DEF Places
  <2>2. CASE r = p
    <3>1. UnderWay(p) = {}
      BY <1>1, <1>5, <1>8, <2>2 DEF Places
    <3>2. InStep(s)
      BY <1>1, <1>8, <2>2 DEF Sent
    <3> QED BY <1>3, <3>1, <3>2 DEF LastSextet
  <2> QED BY <2>1, <2>2, PeerFacts
<1>9. ASSUME NEW r \in Sides, OnlyAt("updated", r), Sent(Peer(r), inBuf[r])
      PROVE  tx[s][j] = rx[p][j] + (IF LastSextet(p, j) THEN 1 ELSE 0)
  <2>1. CASE r = p
    BY <1>1, <1>4, <1>5, <1>9, <2>1 DEF Places
  <2>2. CASE r = s
    <3>1. UnderWay(p) = {}
      BY <1>1, <1>5, <1>9, <2>2 DEF Places
    <3>2. InStep(s)
      BY <1>1, <1>9, <2>2 DEF Sent
    <3> QED BY <1>3, <3>1, <3>2 DEF LastSextet
  <2> QED BY <2>1, <2>2, PeerFacts
<1>10. ASSUME NEW r \in Sides, OnlyAt("updated", r), Quiet, Blank(r)
       PROVE  tx[s][j] = rx[p][j] + (IF LastSextet(p, j) THEN 1 ELSE 0)
  <2>1. UnderWay(p) = IF r = p THEN {inBuf[r]} ELSE {}
    BY <1>5, <1>10 DEF Places
  <2>2. ~LastSextet(p, j)
    BY <1>10, <2>1, IdFacts DEF Blank, LastSextet
  <2> QED BY <1>3, <1>10, <2>2 DEF Quiet
<1> QED BY <1>6, <1>7, <1>8, <1>9, <1>10, Cases

LEMMA LinkHolds == ASSUME DeleteWhen = "never" \/ NumIds = 1 PROVE Spec => []Inv
<1>1. Init => Inv
  BY TypeInitially, InitTurn, LinkInitially DEF Inv
<1>2. Inv /\ [Next]_vars => Inv'
  BY LinkInductive
<1> QED BY <1>1, <1>2, PTL DEF Spec

\* An object in transfer on one side is read-locked on the other, and no object is read and
\* written on one side or read on both: acknowledge_hook and transfer_hook run on different
\* threads, and only the acknowledge bit of a byte tells the one of the other. A destructor that
\* interrupts the reads changes none of this.
THEOREM LocksAgree ==
  ASSUME DeleteWhen = "never" \/ NumIds = 1 PROVE Spec => []TransfersAgree
BY LinkHolds, InvAgrees, PTL

\* A sextet carries no id, and is still stored in the object, group and position it was read
\* from: getFirstSyncObject of the writer and the search of read_object choose the same object.
THEOREM SextetsDelivered ==
  ASSUME DeleteWhen = "never" \/ NumIds = 1 PROVE Spec => []DeliveryOrder
BY LinkHolds, InvDelivers, PTL

\* Both hold whether or not the applications take turns.
THEOREM FreeWritesSafe ==
  ASSUME DeleteWhen = "never" \/ NumIds = 1 PROVE Spec => []FreeSafe
BY LinkHolds, InvAgrees, InvDelivers, PTL DEF FreeSafe

\* tx_counter and rx_counter agree on every object but for the sextet under way.
THEOREM ObjectsConserved ==
  ASSUME DeleteWhen = "never" \/ NumIds = 1 PROVE Spec => []Conservation
BY LinkHolds, InvConserves, PTL

-----------------------------------------------------------------------------
(* The shutdown.                                                           *)

\* A byte of this kind is under way from s.
Under(s, kind) ==
  \/ flagAck[s] /\ outBuf[s].kind = kind
  \/ flagUpdated[Peer(s)] /\ inBuf[Peer(s)].kind = kind

\* s has neither sent nor read a code of a shutdown.
Unmoved(s) ==
  /\ ~com[s].received_com_shutdown /\ ~com[s].sent_com_shutdown
  /\ ~com[s].received_sighup /\ ~com[s].sent_sighup

\* The FPGA has not answered the MCU's power-on code yet, which resets its com_vars.
Poweron == firstRun["fpga"] \/ outBuf["fpga"].kind = "poweron"

Fresh ==
  /\ Poweron => \A s \in Sides : Unmoved(s)
  /\ firstRun["mcu"] => Poweron
  /\ \A s \in Sides : Under(s, "poweron") => Poweron
  /\ wireFirst => inBuf["fpga"].kind = "data"

\* A code of s is under way from when it is sent until the peer has read it.
Told(s) ==
  LET c == com[s]
      d == com[Peer(s)] IN
  /\ d.received_com_shutdown => c.sent_com_shutdown
  /\ Under(s, "shutdown") <=> c.sent_com_shutdown /\ ~d.received_com_shutdown
  /\ d.received_sighup => c.sent_sighup
  /\ Under(s, "sighup") <=> c.sent_sighup /\ ~d.received_sighup

\* Once s has sent its shutdown code it neither asks for an object nor sends one.
Silent(s) == com[s].sent_com_shutdown => Asked(s) = {} /\ transfer[s] = {} /\ pc[s] # "scan"

\* The MCU follows the FPGA.
Follows ==
  LET m == com["mcu"] IN
  /\ m.descendants_notified <=> m.received_com_shutdown
  /\ m.sent_com_shutdown => m.received_com_shutdown
  /\ m.sent_sighup => m.received_sighup

\* The FPGA stops with its hang-up: it waits, reads nothing and says nothing more.
Halted ==
  LET f == com["fpga"] IN
  /\ ~f.received_sighup
  /\ f.sent_sighup => /\ f.received_com_shutdown /\ readLock["fpga"] = {}
                      /\ pc["fpga"] = "wait"
                      /\ \A kind \in Kinds : Under("fpga", kind) => kind = "sighup"

Chain == Fresh /\ Follows /\ Halted /\ \A s \in Sides : Told(s) /\ Silent(s)

\* What is under way is what was sent last.
LEMMA UnderSent ==
  ASSUME NEW s \in Sides, OnlyAt("ack", s)', NEW b, outBuf'[s] = b
  PROVE  \A kind : (Under(s, kind)' <=> b.kind = kind) /\ ~Under(Peer(s), kind)'
BY PeerFacts DEF OnlyAt, Places, Place, Under

LEMMA UnderRead ==
  ASSUME NEW s \in Sides, OnlyAt("updated", s)
  PROVE  \A kind : (Under(Peer(s), kind) <=> inBuf[s].kind = kind) /\ ~Under(s, kind)
BY PeerFacts DEF OnlyAt, Places, Place, Under

\* Nothing is under way while a cycle runs.
LEMMA UnderNone ==
  ASSUME NEW s \in Sides
  PROVE  /\ OnlyAt("cycle", s) => \A r \in Sides : \A kind : ~Under(r, kind)
         /\ OnlyAt("cycle", s)' => \A r \in Sides : \A kind : ~Under(r, kind)'
BY PeerFacts DEF OnlyAt, Places, Place, Under

\* A step that leaves the flags of s alone that a shutdown is about.
KeepsFlags(s) ==
  /\ com'[s].received_com_shutdown <=> com[s].received_com_shutdown
  /\ com'[s].sent_com_shutdown <=> com[s].sent_com_shutdown
  /\ com'[s].received_sighup <=> com[s].received_sighup
  /\ com'[s].sent_sighup <=> com[s].sent_sighup
  /\ s = "mcu" => (com'[s].descendants_notified <=> com[s].descendants_notified)

LEMMA ChainKeeps ==
  ASSUME Chain, Fresh', \A s \in Sides : KeepsFlags(s) /\ Silent(s)',
         \A s \in Sides, kind \in {"shutdown", "sighup"} : Under(s, kind)' <=> Under(s, kind),
         com["fpga"].sent_sighup =>
           /\ readLock'["fpga"] = {} /\ pc'["fpga"] = "wait"
           /\ \A kind \in Kinds : Under("fpga", kind)' => Under("fpga", kind)
  PROVE  Chain'
<1>1. ASSUME NEW s \in Sides PROVE Told(s)'
  <2>1. KeepsFlags(s) /\ KeepsFlags(Peer(s)) /\ Told(s)
    BY PeerFacts DEF Chain
  <2> QED BY <2>1 DEF KeepsFlags, Told
<1>2. KeepsFlags("fpga") /\ KeepsFlags("mcu")
  BY DEF Sides
<1>3. Follows'
  BY <1>2 DEF Chain, Follows, KeepsFlags
<1>4. Halted'
  BY <1>2 DEF Chain, Halted, KeepsFlags
<1> QED BY <1>1, <1>3, <1>4 DEF Chain

\* A step that leaves the link alone, but for flags that a shutdown is not about.
LEMMA ChainAside ==
  ASSUME Chain, UNCHANGED <<lineVars, loopVars, blockVars>>, \A s \in Sides : KeepsFlags(s)
  PROVE  Chain'
<1>1. \A s, kind : Under(s, kind)' <=> Under(s, kind)
  BY DEF Under, lineVars
<1>2. \A s \in Sides : (Unmoved(s)' <=> Unmoved(s)) /\ (Silent(s)' <=> Silent(s))
  BY DEF KeepsFlags, Unmoved, Silent, Asked, loopVars, blockVars
<1>3. Fresh'
  BY <1>1, <1>2 DEF Chain, Fresh, Poweron, lineVars, loopVars
<1> QED BY <1>1, <1>2, <1>3, ChainKeeps DEF Chain, Halted, loopVars, blockVars

LEMMA ChainWire == ASSUME Inv, Chain, NEW s \in Sides, Wire(s) PROVE Chain'
<1>1. OnlyAt("ack", s) /\ OnlyAt("updated", Peer(s))' /\ ~wireFirst'
  BY PassPlaces DEF Inv, Wire, Carries, Passes, loopVars
<1>2. UNCHANGED <<outBuf, loopVars, signalVars, blockVars>> /\ inBuf'[Peer(s)] = outBuf[s]
  BY PeerFacts DEF Wire, Inv, TypeInv, LineType
<1>3. \A r \in Sides : \A kind : Under(r, kind)' <=> Under(r, kind)
  BY <1>1, <1>2, PeerFacts DEF OnlyAt, Places, Place, Under
<1>4. \A r \in Sides : KeepsFlags(r) /\ (Unmoved(r)' <=> Unmoved(r)) /\ (Silent(r)' <=> Silent(r))
  BY <1>2 DEF KeepsFlags, Unmoved, Silent, Asked, loopVars, signalVars, blockVars
<1>5. Fresh'
  BY <1>1, <1>2, <1>3, <1>4 DEF Chain, Fresh, Poweron, loopVars
<1>6. com["fpga"].sent_sighup => readLock'["fpga"] = {} /\ pc'["fpga"] = "wait"
  BY <1>2 DEF Chain, Halted, loopVars, blockVars
<1> QED BY <1>3, <1>4, <1>5, <1>6, ChainKeeps DEF Chain, Sides

LEMMA ChainStart == ASSUME Inv, Chain, WireStart PROVE Chain'
<1>1. /\ Nowhere /\ firstRun["fpga"] /\ inBuf["fpga"].kind = "data" /\ ~wireFirst'
      /\ flagUpdated' = [flagUpdated EXCEPT !["fpga"] = TRUE]
      /\ UNCHANGED <<flagAck, inBuf, outBuf, loopVars, signalVars, blockVars>>
  BY DEF WireStart, Inv, LinkInv, TurnInv, Chain, Fresh
<1>2. \A s \in Sides : \A kind : kind # "data" => ~Under(s, kind) /\ ~Under(s, kind)'
  BY <1>1, PeerFacts DEF Nowhere, Place, Places, Under, Inv, TypeInv, LineType, Sides
<1>3. \A s \in Sides : KeepsFlags(s) /\ (Unmoved(s)' <=> Unmoved(s)) /\ (Silent(s)' <=> Silent(s))
  BY <1>1 DEF KeepsFlags, Unmoved, Silent, Asked, loopVars, signalVars, blockVars
<1>4. Fresh'
  BY <1>1, <1>2, <1>3 DEF Chain, Fresh, Poweron, loopVars
<1>5. ~com["fpga"].sent_sighup
  BY <1>1 DEF Chain, Fresh, Poweron, Unmoved, Sides
<1> QED BY <1>2, <1>3, <1>4, <1>5, ChainKeeps DEF Chain

\* Before its first cycle a side has had nothing to do with a shutdown.
LEMMA ChainFirst == ASSUME Inv, Chain, NEW s \in Sides, FirstCycle(s) PROVE Chain'
<1>1. OnlyAt("ack", s)' /\ ~wireFirst'
  BY PassPlaces DEF Inv, FirstCycle, Handshake, At, Answers, Passes
<1>2. /\ UNCHANGED <<com, blockVars, inBuf, wireFirst>> /\ firstRun[s]
      /\ outBuf' = [outBuf EXCEPT ![s] = Control(s, "poweron", NoId)]
      /\ firstRun' = [firstRun EXCEPT ![s] = FALSE]
  BY DEF FirstCycle
<1>3. outBuf'[s].kind = "poweron"
  BY <1>2 DEF Control, Inv, TypeInv, LineType
<1>4. \A kind : (Under(s, kind)' <=> kind = "poweron") /\ ~Under(Peer(s), kind)'
  BY <1>1, <1>3, UnderSent
<1>5. Poweron
  BY <1>2 DEF Chain, Fresh, Poweron, Sides
<1>6. Poweron'
  BY <1>2, <1>3, <1>5 DEF Poweron, Inv, TypeInv, LineType, LoopType, Sides
<1>7. \A r \in Sides : Unmoved(r)' /\ Unmoved(r)
  BY <1>2, <1>5 DEF Chain, Fresh, Unmoved
<1>8. Fresh'
  BY <1>1, <1>6, <1>7 DEF Fresh
<1>9. \A r \in Sides : Told(r)' /\ Silent(r)'
  BY <1>4, <1>7, PeerFacts DEF Told, Silent, Unmoved
<1>10. Follows' /\ Halted'
  BY <1>2, <1>7 DEF Chain, Follows, Halted, Unmoved, Sides
<1> QED BY <1>8, <1>9, <1>10 DEF Chain

\* What reading a byte of this kind does to the flags of s.
ReadsFlags(s, kind) ==
  /\ com'[s].received_com_shutdown <=> com[s].received_com_shutdown \/ kind = "shutdown"
  /\ com'[s].sent_com_shutdown <=> com[s].sent_com_shutdown
  /\ com'[s].received_sighup <=> com[s].received_sighup \/ kind = "sighup"
  /\ com'[s].sent_sighup <=> com[s].sent_sighup
  /\ s = "mcu" =>
       (com'[s].descendants_notified <=> com[s].descendants_notified \/ kind = "shutdown")

LEMMA ChainReads ==
  ASSUME Inv, Chain, NEW s \in Sides, Handshake(s), ~firstRun[s], ReadByte(s),
         ReadsFlags(s, inBuf[s].kind), com'[Peer(s)] = com[Peer(s)], transfer' = transfer,
         readLock'[Peer(s)] = readLock[Peer(s)]
  PROVE  Chain'
<1> DEFINE kind == inBuf[s].kind
           p == Peer(s)
<1>1. OnlyAt("updated", s) /\ OnlyAt("cycle", s)' /\ ~wireFirst'
  BY PassPlaces DEF Inv, ReadByte, Handshake, At, Begins, Passes
<1>2. p \in Sides /\ p # s /\ Peer(p) = s /\ \A r \in Sides : r = s \/ r = p
  BY PeerFacts
<1>3. \A k : (Under(p, k) <=> kind = k) /\ ~Under(s, k)
  BY <1>1, UnderRead
<1>4. \A r \in Sides : \A k : ~Under(r, k)'
  BY <1>1, UnderNone
<1>5. s = "fpga" => ~com["fpga"].sent_sighup
  BY DEF Handshake, HandshakeQuery
<1>6. /\ UNCHANGED <<outBuf, firstRun, waiting>> /\ pc'[s] = "transfer" /\ pc'[p] = pc[p]
      /\ \A r : Asked(r)' = Asked(r)
  BY <1>2 DEF ReadByte, Inv, TypeInv, LoopType, Asked
<1>7. Told(s) /\ Told(p) /\ Silent(s) /\ Silent(p) /\ Fresh /\ Follows /\ Halted
  BY <1>2 DEF Chain
<1> HIDE DEF kind
<1>8. ReadsFlags(s, kind)
  BY DEF kind
<1>9. Poweron => \A r \in Sides : Unmoved(r)'
  <2>1. ASSUME Poweron PROVE Unmoved(s)' /\ Unmoved(p)'
    <3>1. Unmoved(s) /\ Unmoved(p)
      BY <1>2, <1>7, <2>1 DEF Fresh
    <3>2. kind # "shutdown" /\ kind # "sighup"
      BY <1>3, <1>7, <3>1 DEF Told, Unmoved
    <3> QED BY <1>8, <3>1, <3>2 DEF ReadsFlags, Unmoved
  <2> QED BY <1>2, <2>1
<1>10. Fresh'
  BY <1>1, <1>4, <1>6, <1>7, <1>9 DEF Fresh, Poweron
<1>11. Told(s)' /\ Told(p)'
  BY <1>2, <1>3, <1>4, <1>7, <1>8 DEF Told, ReadsFlags
<1>12. Silent(s)' /\ Silent(p)'
  BY <1>6, <1>7, <1>8 DEF Silent, ReadsFlags
<1>13. Follows'
  <2>1. CASE s = "mcu"
    BY <1>7, <1>8, <2>1 DEF Follows, ReadsFlags
  <2>2. CASE p = "mcu"
    BY <1>7, <2>2 DEF Follows
  <2> QED BY <1>2, <2>1, <2>2 DEF Sides
<1>14. Halted'
  <2>1. CASE s = "fpga"
    <3>1. p = "mcu"
      BY <1>2, <2>1 DEF Sides
    <3>2. kind # "sighup"
      BY <1>3, <1>5, <1>7, <2>1, <3>1 DEF Told, Follows
    <3> QED BY <1>5, <1>7, <1>8, <2>1, <3>2 DEF Halted, ReadsFlags
  <2>2. CASE p = "fpga"
    BY <1>4, <1>6, <1>7, <2>2 DEF Halted, Sides
  <2> QED BY <1>2, <2>1, <2>2 DEF Sides
<1> QED BY <1>2, <1>10, <1>11, <1>12, <1>13, <1>14 DEF Chain

\* Within a cycle the FPGA has not sent its hang-up.
LEMMA ChainMoves ==
  ASSUME Inv, Chain, NEW s \in Sides, GoesOn(s), UNCHANGED <<lineVars, firstRun>>,
         \A r \in Sides : KeepsFlags(r) /\ Silent(r)', readLock'[Peer(s)] = readLock[Peer(s)]
  PROVE  Chain'
<1>1. OnlyAt("cycle", s) /\ OnlyAt("cycle", s)' /\ ~wireFirst'
  BY PassPlaces DEF Inv, Passes
<1>2. \A r \in Sides : \A kind : ~Under(r, kind) /\ ~Under(r, kind)'
  BY <1>1, UnderNone
<1>3. \A r \in Sides : Unmoved(r)' <=> Unmoved(r)
  BY DEF KeepsFlags, Unmoved
<1>4. Fresh'
  BY <1>1, <1>2, <1>3 DEF Chain, Fresh, Poweron, lineVars
<1>5. com["fpga"].sent_sighup => readLock'["fpga"] = {} /\ pc'["fpga"] = "wait"
  <2>1. com["fpga"].sent_sighup => s = "mcu"
    BY DEF Chain, Halted, GoesOn, Sides
  <2>2. s = "mcu" => readLock'["fpga"] = readLock["fpga"] /\ pc'["fpga"] = pc["fpga"]
    BY DEF GoesOn, Peer, Inv, TypeInv, LoopType
  <2> QED BY <2>1, <2>2 DEF Chain, Halted
<1> QED BY <1>2, <1>4, <1>5, ChainKeeps DEF Sides

\* What sending a byte of this kind does to the flags of s.
SendsFlags(s, kind) ==
  /\ com'[s].received_com_shutdown <=> com[s].received_com_shutdown
  /\ com'[s].sent_com_shutdown <=> com[s].sent_com_shutdown \/ kind = "shutdown"
  /\ com'[s].received_sighup <=> com[s].received_sighup
  /\ com'[s].sent_sighup <=> com[s].sent_sighup \/ kind = "sighup"
  /\ com'[s].descendants_notified <=> com[s].descendants_notified

\* When s may send a byte of this kind.
MaySend(s, kind) ==
  /\ kind = "shutdown" => /\ ~com[s].sent_com_shutdown /\ transfer[s] = {} /\ waiting' = waiting
                          /\ s = "mcu" => com[s].received_com_shutdown
  /\ kind = "sighup" => /\ ~com[s].sent_sighup /\ readLock[s] = {}
                        /\ s = "mcu" => com[s].received_sighup
                        /\ s = "fpga" => com[s].received_com_shutdown
  /\ IF kind = "request" THEN pc[s] = "scan" ELSE waiting' = waiting

LEMMA ChainSends ==
  ASSUME Inv, Chain, NEW s \in Sides, NEW b, pc[s] \in {"scan", "out"}, EndCycle(s, b),
         b.kind # "poweron", SendsFlags(s, b.kind), MaySend(s, b.kind),
         com'[Peer(s)] = com[Peer(s)], waiting'[Peer(s)] = waiting[Peer(s)],
         transfer'[s] \subseteq transfer[s], transfer'[Peer(s)] = transfer[Peer(s)],
         UNCHANGED <<firstRun, readLock>>
  PROVE  Chain'
<1> DEFINE kind == b.kind
           p == Peer(s)
<1>1. OnlyAt("cycle", s) /\ OnlyAt("ack", s)' /\ ~wireFirst'
  BY PassPlaces DEF Inv, EndCycle, Ends, Passes
<1>2. p \in Sides /\ p # s /\ Peer(p) = s /\ \A r \in Sides : r = s \/ r = p
  BY PeerFacts
<1>3. /\ outBuf' = [outBuf EXCEPT ![s] = b] /\ outBuf'[s] = b /\ outBuf'[p] = outBuf[p]
      /\ pc'[s] = "wait" /\ pc'[p] = pc[p]
  BY <1>2 DEF EndCycle, Inv, TypeInv, LineType, LoopType
<1>4. \A k : (Under(s, k)' <=> kind = k) /\ ~Under(p, k)'
  BY <1>1, <1>3, UnderSent
<1>5. \A r \in Sides : \A k : ~Under(r, k)
  BY <1>1, UnderNone
<1>6. ~firstRun[s] /\ ~firstRun[p] /\ (pc[s] \in {"scan", "out"} => Asked(s) = {})
  BY <1>1, Found DEF Inv, Places, Situation, Cycle
<1>7. Told(s) /\ Told(p) /\ Silent(s) /\ Silent(p) /\ Fresh /\ Follows /\ Halted
  BY <1>2 DEF Chain
<1> HIDE DEF kind
<1>8. SendsFlags(s, kind) /\ MaySend(s, kind) /\ kind # "poweron"
  BY DEF kind
<1>9. s = "fpga" => ~com["fpga"].sent_sighup
  BY <1>7 DEF Halted
<1>10. s = "fpga" => ~Poweron'
  BY <1>3, <1>6, <1>8 DEF Poweron, kind
<1>11. s = "mcu" => (Poweron' <=> Poweron)
  BY <1>2, <1>3 DEF Poweron, Sides
<1>12. s = "mcu" /\ Poweron => Unmoved(s)' /\ Unmoved(p)'
  <2>1. ASSUME s = "mcu", Poweron PROVE Unmoved(s)' /\ Unmoved(p)'
    <3>1. Unmoved(s) /\ Unmoved(p)
      BY <1>2, <1>7, <2>1 DEF Fresh
    <3>2. kind # "shutdown" /\ kind # "sighup"
      BY <1>8, <2>1, <3>1 DEF MaySend, Unmoved
    <3> QED BY <1>8, <3>1, <3>2 DEF SendsFlags, Unmoved
  <2> QED BY <2>1
<1>13. Fresh'
  <2>1. ~firstRun'["mcu"]
    BY <1>2, <1>6 DEF Sides
  <2> QED BY <1>1, <1>2, <1>4, <1>8, <1>10, <1>11, <1>12, <2>1 DEF Fresh, Sides
<1>14. Told(s)' /\ Told(p)'
  BY <1>2, <1>4, <1>5, <1>7, <1>8 DEF Told, SendsFlags, MaySend
<1>15. Silent(p)'
  BY <1>3, <1>7 DEF Silent, Asked
<1>16. Silent(s)'
  <2>1. CASE kind = "request"
    BY <1>7, <1>8, <2>1 DEF Silent, SendsFlags, MaySend
  <2>2. CASE kind # "request"
    <3>1. Asked(s)' = {}
      BY <1>6, <1>8, <2>2 DEF MaySend, Asked
    <3>2. com'[s].sent_com_shutdown => transfer'[s] = {}
      BY <1>7, <1>8 DEF Silent, SendsFlags, MaySend
    <3> QED BY <1>3, <3>1, <3>2 DEF Silent
  <2> QED BY <2>1, <2>2
<1>17. Follows'
  <2>1. CASE s = "mcu"
    BY <1>7, <1>8, <2>1 DEF Follows, SendsFlags, MaySend
  <2>2. CASE p = "mcu"
    BY <1>7, <2>2 DEF Follows
  <2> QED BY <1>2, <2>1, <2>2 DEF Sides
<1>18. Halted'
  <2>1. CASE s = "fpga"
    BY <1>3, <1>4, <1>7, <1>8, <1>9, <2>1 DEF Halted, SendsFlags, MaySend
  <2>2. CASE p = "fpga"
    BY <1>3, <1>4, <1>7, <2>2 DEF Halted
  <2> QED BY <1>2, <2>1, <2>2 DEF Sides
<1> QED BY <1>2, <1>13, <1>14, <1>15, <1>16, <1>17, <1>18 DEF Chain

\* A step that leaves all of the link alone, an error among them.
LEMMA ChainIdles ==
  ASSUME Chain, UNCHANGED <<lineVars, loopVars, signalVars, blockVars>> PROVE Chain'
<1>1. \A s \in Sides : KeepsFlags(s)
  BY DEF KeepsFlags, signalVars
<1> QED BY <1>1, ChainAside

LEMMA ChainInitially == Init => Chain
<1> SUFFICES ASSUME Init PROVE Chain
  OBVIOUS
<1>1. ASSUME NEW s \in Sides PROVE Unmoved(s) /\ \A kind : ~Under(s, kind)
  BY PeerFacts DEF Init, Unmoved, Under, ComVars
<1>2. Fresh /\ Poweron
  BY <1>1 DEF Init, Fresh, Poweron, BlankByte, Sides
<1>3. \A s \in Sides : Told(s) /\ Silent(s)
  BY <1>1, PeerFacts DEF Told, Silent, Unmoved
<1>4. Follows /\ Halted
  BY <1>1 DEF Init, Follows, Halted, Unmoved, ComVars, Sides
<1> QED BY <1>2, <1>3, <1>4 DEF Chain

\* A byte that is no code of a shutdown.
LEMMA ChainReceived ==
  ASSUME Inv, Chain, NEW s \in Sides, Handshake(s), ~firstRun[s], ReadByte(s),
         SetCom(s, Received(s)), inBuf[s].kind \notin {"shutdown", "sighup"},
         transfer' = transfer, readLock'[Peer(s)] = readLock[Peer(s)]
  PROVE  Chain'
<1>1. com \in [Sides -> ComType]
  BY DEF Inv, TypeInv, SignalType
<1>2. ReadsFlags(s, inBuf[s].kind)
  BY <1>1 DEF SetCom, Received, ComType, ReadsFlags
<1>3. com'[Peer(s)] = com[Peer(s)]
  BY <1>1, PeerFacts DEF SetCom
<1> QED BY <1>2, <1>3, ChainReads

LEMMA ChainPoweron == ASSUME Inv, Chain, NEW s \in Sides, ReadPoweron(s) PROVE Chain'
<1>1. Handshake(s) /\ ~firstRun[s] /\ inBuf[s].kind = "poweron" /\ com \in [Sides -> ComType]
  BY Meant DEF ReadPoweron, Inv, TypeInv, SignalType
<1>2. CASE PoweronError(s) # "none"
  BY <1>2, ChainIdles DEF ReadPoweron, Abort
<1>3. CASE PoweronError(s) = "none"
  <2>1. ReadByte(s) /\ com' = [com EXCEPT ![s] = ComVars] /\ UNCHANGED blockVars
    BY <1>3 DEF ReadPoweron, SetCom
  <2>2. Under(Peer(s), "poweron")
    BY <1>1, PeerFacts DEF Under, Handshake
  <2>3. Unmoved(s) /\ Follows
    BY <2>2, PeerFacts DEF Chain, Fresh
  <2>4. s = "mcu" => ~com[s].descendants_notified
    BY <2>3 DEF Unmoved, Follows
  <2>5. ReadsFlags(s, inBuf[s].kind) /\ com'[Peer(s)] = com[Peer(s)]
    BY <1>1, <2>1, <2>3, <2>4, PeerFacts DEF ReadsFlags, Unmoved, ComVars
  <2> QED BY <1>1, <2>1, <2>5, ChainReads DEF blockVars
<1> QED BY <1>2, <1>3

LEMMA ChainCodes ==
  ASSUME Inv, Chain, NEW s \in Sides, ReadShutdown(s) \/ ReadSighup(s) PROVE Chain'
<1>1. com \in [Sides -> ComType]
  BY DEF Inv, TypeInv, SignalType
<1>2. CASE ReadShutdown(s)
  <2>1. CASE ShutdownError(s) # "none"
    BY <1>2, <2>1, ChainIdles DEF ReadShutdown, Abort
  <2>2. CASE ShutdownError(s) = "none"
    <3>1. Handshake(s) /\ ~firstRun[s] /\ inBuf[s].kind = "shutdown"
      BY <1>2, Meant DEF ReadShutdown
    <3>2. /\ ReadByte(s) /\ UNCHANGED blockVars
          /\ com' = [com EXCEPT ![s] =
                       [Received(s) EXCEPT !.received_com_shutdown = TRUE,
                                           !.descendants_notified = @ \/ Notifies(s) # {}]]
      BY <1>2, <2>2 DEF ReadShutdown, SetCom
    <3>3. Notifies(s) # {} <=> s = "mcu"
      BY DEF Notifies
    <3>4. com'[s] = [Received(s) EXCEPT !.received_com_shutdown = TRUE,
                                        !.descendants_notified = @ \/ Notifies(s) # {}]
          /\ com'[Peer(s)] = com[Peer(s)]
      BY <1>1, <3>2, PeerFacts
    <3>5. Received(s) \in ComType
      BY ReceivedType DEF Inv
    <3>6. /\ com'[s].received_com_shutdown = TRUE
          /\ com'[s].sent_com_shutdown = Received(s).sent_com_shutdown
          /\ com'[s].received_sighup = Received(s).received_sighup
          /\ com'[s].sent_sighup = Received(s).sent_sighup
          /\ com'[s].descendants_notified = (Received(s).descendants_notified \/ Notifies(s) # {})
      BY <3>4, <3>5, Zenon DEF ComType
    <3>7. /\ Received(s).sent_com_shutdown = com[s].sent_com_shutdown
          /\ Received(s).received_sighup = com[s].received_sighup
          /\ Received(s).sent_sighup = com[s].sent_sighup
          /\ Received(s).descendants_notified = com[s].descendants_notified
      BY <1>1, Zenon DEF Received, ComType
    <3>8. ReadsFlags(s, "shutdown")
      BY <3>3, <3>6, <3>7, Zenon DEF ReadsFlags
    <3> QED BY <3>1, <3>2, <3>4, <3>8, ChainReads DEF blockVars
  <2> QED BY <2>1, <2>2
<1>3. CASE ReadSighup(s)
  <2>1. CASE com[s].received_sighup
    BY <1>3, <2>1, ChainIdles DEF ReadSighup, Abort
  <2>2. CASE ~com[s].received_sighup
    <3>1. Handshake(s) /\ ~firstRun[s] /\ inBuf[s].kind = "sighup"
      BY <1>3, Meant DEF ReadSighup
    <3>2. /\ ReadByte(s) /\ UNCHANGED blockVars
          /\ com' = [com EXCEPT ![s] = [Received(s) EXCEPT !.received_sighup = TRUE]]
      BY <1>3, <2>2 DEF ReadSighup, SetCom
    <3>3. ReadsFlags(s, inBuf[s].kind) /\ com'[Peer(s)] = com[Peer(s)]
      BY <1>1, <3>1, <3>2, PeerFacts DEF ReadsFlags, Received, ComType
    <3> QED BY <3>1, <3>2, <3>3, ChainReads DEF blockVars
  <2> QED BY <2>1, <2>2
<1> QED BY <1>2, <1>3

LEMMA ChainRead ==
  ASSUME Inv, Chain, NEW s \in Sides,
         ReadIdle(s) \/ ReadObject(s) \/ \E id \in 0 .. NumIds : ReadRequest(s, id)
  PROVE  Chain'
<1>1. CASE ReadIdle(s)
  <2>1. inBuf[s].kind = "idle"
    BY <1>1, Meant DEF ReadIdle
  <2> QED BY <1>1, <2>1, ChainReceived DEF ReadIdle, Reads, blockVars
<1>2. CASE ReadObject(s)
  <2>1. CASE ReadObjectError(s) # "none"
    BY <1>2, <2>1, ChainIdles DEF ReadObject, Abort
  <2>2. CASE ReadObjectError(s) = "none"
    <3> PICK b, p, r : b = inBuf[s] /\ p = Peer(s) /\ r = Destination(s)
      OBVIOUS
    <3>1. SextetStep(s, p, b, r)
      BY <1>2, <2>2, SextetRead
    <3>2. /\ Handshake(s) /\ ~firstRun[s] /\ ReadByte(s) /\ SetCom(s, Received(s))
          /\ b.kind = "data" /\ transfer' = transfer /\ p # s
          /\ readLock' = [readLock EXCEPT ![s] = IF Last(b) THEN @ \ {b.id} ELSE @]
      BY <3>1 DEF SextetStep
    <3>3. readLock'[p] = readLock[p]
      BY <3>2, PeerFacts DEF Inv, TypeInv, BlockType
    <3> QED BY <3>2, <3>3, ChainReceived
  <2> QED BY <2>1, <2>2
<1>3. ASSUME NEW id \in 0 .. NumIds, ReadRequest(s, id) PROVE Chain'
  <2>1. CASE com[s].received_sighup
    BY <1>3, <2>1, ChainIdles DEF ReadRequest, Abort
  <2>2. CASE ~com[s].received_sighup
    <3>1. inBuf[s].kind = "request"
      BY <1>3, Meant DEF ReadRequest
    <3> QED BY <1>3, <2>2, <3>1, ChainReceived DEF ReadRequest, Reads, blockVars
  <2> QED BY <2>1, <2>2
<1> QED BY <1>1, <1>2, <1>3

LEMMA ChainTransfer == ASSUME Inv, Chain, NEW s \in Sides, TransferHook(s) PROVE Chain'
<1>1. CASE UNCHANGED <<lineVars, loopVars, signalVars, blockVars>>
  BY <1>1, ChainIdles
<1>2. CASE /\ pc[s] = "transfer" /\ pc' = [pc EXCEPT ![s] = "acknowledge"]
           /\ UNCHANGED <<lineVars, firstRun, waiting, com, transfer>>
           /\ readLock' = readLock \/ readLock' = [readLock EXCEPT ![s] = @ \cup {incoming[s]}]
  <2>1. GoesOn(s)
    BY <1>2 DEF GoesOn, Phases, lineVars
  <2>2. \A r \in Sides : KeepsFlags(r)
    BY <1>2 DEF KeepsFlags
  <2>3. \A r \in Sides : Silent(r)'
    BY <1>2 DEF Chain, Silent, Asked, Inv, TypeInv, LoopType
  <2>4. readLock'[Peer(s)] = readLock[Peer(s)]
    BY <1>2, PeerFacts DEF Inv, TypeInv, BlockType
  <2> QED BY <1>2, <2>1, <2>2, <2>3, <2>4, ChainMoves
<1> QED BY <1>1, <1>2 DEF TransferHook, Abort, At, signalVars, blockVars

\* Once the shutdown code is sent, acknowledge_hook() finds nothing granted, and getFirstTransfer()
\* is not called any more.
LEMMA ChainAcknowledge == ASSUME Inv, Chain, NEW s \in Sides, AcknowledgeHook(s) PROVE Chain'
<1>1. CASE AcknowledgeError(s) # "none"
  BY <1>1, ChainIdles DEF AcknowledgeHook, Abort
<1>2. CASE AcknowledgeError(s) = "none"
  <2> PICK q : q = IF send[s].lock \/ com[s].sent_com_shutdown THEN "out" ELSE "scan"
    OBVIOUS
  <2>1. /\ pc[s] = "acknowledge" /\ pc' = [pc EXCEPT ![s] = q]
        /\ waiting' = [waiting EXCEPT ![s] = NoId]
        /\ com' = [com EXCEPT ![s].acknowledgeRequested = FALSE]
        /\ transfer' = [transfer EXCEPT ![s] =
             @ \cup IF com[s].received_acknowledge THEN {waiting[s]} \cap Ids ELSE {}]
        /\ UNCHANGED <<lineVars, firstRun, readLock>>
    BY <1>2 DEF AcknowledgeHook, At
  <2>2. q \in Phases \ {"wait"}
    BY DEF Phases
  <2>3. GoesOn(s)
    BY <2>1, <2>2 DEF GoesOn, lineVars
  <2>4. ASSUME NEW r \in Sides PROVE KeepsFlags(r)
    BY <2>1 DEF KeepsFlags, Inv, TypeInv, SignalType, ComType
  <2>5. ASSUME NEW r \in Sides PROVE Silent(r)'
    <3>1. Silent(r) /\ (com'[r].sent_com_shutdown <=> com[r].sent_com_shutdown)
      BY <2>4 DEF Chain, KeepsFlags
    <3>2. CASE r = s
      <4>1. Asked(s)' = {} /\ pc'[s] = q
        BY <2>1, IdFacts DEF Asked, Inv, TypeInv, LoopType
      <4>2. transfer'[s] \subseteq transfer[s] \cup Asked(s)
        BY <2>1 DEF Asked, Inv, TypeInv, BlockType
      <4> QED BY <3>1, <3>2, <4>1, <4>2 DEF Silent
    <3>3. CASE r # s
      <4>1. Asked(r)' = Asked(r) /\ transfer'[r] = transfer[r] /\ pc'[r] = pc[r]
        BY <2>1, <3>3 DEF Asked, Inv, TypeInv, LoopType, BlockType
      <4> QED BY <3>1, <4>1 DEF Silent
    <3> QED BY <3>2, <3>3
  <2> QED BY <2>1, <2>3, <2>4, <2>5, ChainMoves
<1> QED BY <1>1, <1>2

LEMMA ChainScan == ASSUME Inv, Chain, NEW s \in Sides, Scan(s) PROVE Chain'
<1>1. pc[s] = "scan" /\ com \in [Sides -> ComType]
  BY DEF Scan, At, Inv, TypeInv, SignalType
<1>2. CASE UNCHANGED <<lineVars, loopVars, signalVars, blockVars>>
  BY <1>2, ChainIdles
<1>3. CASE /\ pc' = pc \/ pc' = [pc EXCEPT ![s] = "out"]
           /\ UNCHANGED <<lineVars, firstRun, waiting, signalVars, blockVars>>
  <2>1. pc' = [pc EXCEPT ![s] = pc'[s]] /\ pc'[s] \in {"scan", "out"}
    BY <1>1, <1>3 DEF Inv, TypeInv, LoopType
  <2>2. GoesOn(s)
    BY <1>1, <1>3, <2>1 DEF GoesOn, Phases, lineVars
  <2>3. \A r \in Sides : KeepsFlags(r) /\ Silent(r)'
    BY <1>1, <1>3 DEF Chain, KeepsFlags, Silent, Asked, signalVars, blockVars, Inv, TypeInv,
       LoopType
  <2> QED BY <1>3, <2>2, <2>3, ChainMoves DEF blockVars
<1>4. CASE /\ EndCycle(s, Control(s, "request", scan[s]))
           /\ waiting' = [waiting EXCEPT ![s] = scan[s]]
           /\ com' = [com EXCEPT ![s].acknowledgeRequested = TRUE]
           /\ UNCHANGED <<firstRun, blockVars>>
  <2> PICK b : b = Control(s, "request", scan[s])
    OBVIOUS
  <2>1. b.kind = "request"
    BY DEF Control
  <2>2. SendsFlags(s, b.kind)
    BY <1>1, <1>4, <2>1 DEF SendsFlags, ComType
  <2>3. MaySend(s, b.kind)
    BY <1>1, <2>1 DEF MaySend
  <2>4. com'[Peer(s)] = com[Peer(s)] /\ waiting'[Peer(s)] = waiting[Peer(s)]
    BY <1>1, <1>4, PeerFacts DEF Inv, TypeInv, LoopType
  <2>5. /\ EndCycle(s, b) /\ b.kind # "poweron" /\ pc[s] \in {"scan", "out"}
        /\ UNCHANGED <<firstRun, readLock, transfer>>
    BY <1>1, <1>4, <2>1 DEF blockVars
  <2> QED BY <2>2, <2>3, <2>4, <2>5, ChainSends
<1>5. CASE scan[s] = NumIds \/ ~Requested(s, scan[s])
  BY <1>3, <1>5 DEF Scan
<1>6. CASE scan[s] # NumIds /\ Requested(s, scan[s]) /\ scan[s] \in readLock[s]
  BY <1>2, <1>6 DEF Scan, Abort
<1>7. CASE scan[s] # NumIds /\ Requested(s, scan[s]) /\ scan[s] \notin readLock[s]
  BY <1>4, <1>7 DEF Scan
<1> QED BY <1>5, <1>6, <1>7

LEMMA ChainShutdown ==
  ASSUME Inv, Chain, NEW s \in Sides, SendShutdown(s), DeleteWhen = "never" \/ NumIds = 1
  PROVE  Chain'
<1>1. /\ EndCycle(s, Control(s, "shutdown", NoId)) /\ pc[s] = "out"
      /\ ~com[s].sent_com_shutdown /\ (s = "mcu" => com[s].received_com_shutdown)
      /\ com' = [com EXCEPT ![s].sent_com_shutdown = TRUE] /\ com \in [Sides -> ComType]
      /\ UNCHANGED <<firstRun, waiting, blockVars>>
  BY DEF SendShutdown, Idle, At, MaySendShutdown, ShutdownQuery, Inv, TypeInv, SignalType
<1> PICK b : b = Control(s, "shutdown", NoId)
  OBVIOUS
<1>2. b.kind = "shutdown"
  BY DEF Control
<1>3. SendsFlags(s, b.kind) /\ com'[Peer(s)] = com[Peer(s)]
  BY <1>1, <1>2, PeerFacts DEF SendsFlags, ComType
<1>4. MaySend(s, b.kind)
  BY <1>1, <1>2, SendShutdownKeeps DEF MaySend
<1> QED BY <1>1, <1>2, <1>3, <1>4, ChainSends DEF blockVars

LEMMA ChainSighup == ASSUME Inv, Chain, NEW s \in Sides, SendSighup(s) PROVE Chain'
<1>1. /\ EndCycle(s, Control(s, "sighup", NoId)) /\ pc[s] = "out"
      /\ ~com[s].sent_sighup /\ readLock[s] = {}
      /\ IF s = "fpga" THEN com[s].received_com_shutdown ELSE com[s].received_sighup
      /\ com' = [com EXCEPT ![s].sent_sighup = TRUE] /\ com \in [Sides -> ComType]
      /\ UNCHANGED <<firstRun, waiting, blockVars>>
  BY DEF SendSighup, Idle, At, MaySendSighup, SighupQuery, ReadsPending, Inv, TypeInv, SignalType
<1> PICK b : b = Control(s, "sighup", NoId)
  OBVIOUS
<1>2. b.kind = "sighup"
  BY DEF Control
<1>3. SendsFlags(s, b.kind) /\ com'[Peer(s)] = com[Peer(s)]
  BY <1>1, <1>2, PeerFacts DEF SendsFlags, ComType
<1>4. MaySend(s, b.kind)
  BY <1>1, <1>2 DEF MaySend
<1> QED BY <1>1, <1>2, <1>3, <1>4, ChainSends DEF blockVars

\* Any other byte may be sent at any time.
LEMMA ChainSendsMore ==
  ASSUME Inv, Chain, NEW s \in Sides, NEW b, pc[s] = "out", EndCycle(s, b),
         b.kind \in {"idle", "data"},
         transfer'[s] \subseteq transfer[s], transfer'[Peer(s)] = transfer[Peer(s)],
         UNCHANGED <<firstRun, waiting, com, readLock>>
  PROVE  Chain'
<1>1. SendsFlags(s, b.kind) /\ MaySend(s, b.kind)
  BY DEF SendsFlags, MaySend
<1> QED BY <1>1, ChainSends

LEMMA ChainObjects ==
  ASSUME Inv, Chain, NEW s \in Sides,
         SendIdle(s) \/ StartObject(s) \/ WriteObject(s) \/ WriteFourth(s)
  PROVE  Chain'
<1>1. CASE SendIdle(s)
  <2> PICK b : b = Control(s, "idle", NoId)
    OBVIOUS
  <2>1. b.kind = "idle"
    BY DEF Control
  <2> QED BY <1>1, <2>1, ChainSendsMore DEF SendIdle, Idle, At, blockVars
<1>2. ASSUME NEW w, pc[s] = "out", SendSextet(s, w) PROVE Chain'
  <2> PICK b : b = Sextet(s, w.origin, w.pos, w.count, Carried(s, w))
    OBVIOUS
  <2>1. b.kind = "data"
    BY DEF Sextet
  <2> QED BY <1>2, <2>1, ChainSendsMore DEF SendSextet, signalVars
<1>3. CASE StartObject(s)
  <2>1. CASE StartObjectError(s, Lowest(transfer[s])) # "none"
    BY <1>3, <2>1, ChainIdles DEF StartObject, Abort
  <2>2. CASE StartObjectError(s, Lowest(transfer[s])) = "none"
    BY <1>2, <1>3, <2>2 DEF StartObject, Idle, At
  <2> QED BY <2>1, <2>2
<1>4. CASE WriteObject(s)
  BY <1>2, <1>4 DEF WriteObject, At
<1>5. CASE WriteFourth(s)
  <2> PICK b : b = Sextet(s, send[s].origin, send[s].pos, 3, send[s].val)
    OBVIOUS
  <2>1. b.kind = "data"
    BY DEF Sextet
  <2>2. /\ EndCycle(s, b) /\ pc[s] = "out" /\ UNCHANGED <<firstRun, waiting, com, readLock>>
        /\ transfer' = [transfer EXCEPT ![s] =
                          IF WriteEnds(send[s]) THEN @ \ {send[s].origin} ELSE @]
    BY <1>5 DEF WriteFourth, At, signalVars
  <2>3. transfer'[s] \subseteq transfer[s] /\ transfer'[Peer(s)] = transfer[Peer(s)]
    BY <2>2, PeerFacts DEF Inv, TypeInv, BlockType
  <2> QED BY <2>1, <2>2, <2>3, ChainSendsMore
<1> QED BY <1>1, <1>3, <1>4, <1>5

LEMMA ChainInductive ==
  ASSUME Inv, Chain, [Next]_vars, DeleteWhen = "never" \/ NumIds = 1 PROVE Chain'
<1>1. ASSUME NEW s \in Sides, EventLoop(s) PROVE Chain'
  BY <1>1, ChainFirst, ChainPoweron, ChainCodes, ChainRead, ChainTransfer, ChainAcknowledge,
     ChainScan, ChainShutdown, ChainSighup, ChainObjects DEF EventLoop
<1>2. ASSUME NEW s \in Sides, Resolver(s) \/ Destroy(s) PROVE Chain'
  BY <1>2, ChainIdles DEF Resolver, Resolve, Destroy, Abort
<1>3. CASE Application \/ DeleteMcu \/ Terminated \/ UNCHANGED vars
  <2>1. UNCHANGED <<lineVars, loopVars, signalVars, blockVars>>
    BY <1>3 DEF Application, WriteStart, DeleteMcu, Terminated, vars, Abort
  <2> QED BY <2>1, ChainIdles
<1>4. CASE DeleteFpga
  <2>1. \A s \in Sides : KeepsFlags(s)
    BY <1>4 DEF DeleteFpga, KeepsFlags, Inv, TypeInv, SignalType, ComType
  <2> QED BY <1>4, <2>1, ChainAside DEF DeleteFpga
<1> QED BY <1>1, <1>2, <1>3, <1>4, ChainWire, ChainStart DEF Next

LEMMA ChainHolds ==
  ASSUME DeleteWhen = "never" \/ NumIds = 1 PROVE Spec => [](Inv /\ Chain)
<1>1. Inv /\ Chain /\ [Next]_vars => Chain'
  BY ChainInductive
<1> QED BY <1>1, ChainInitially, LinkHolds, PTL DEF Spec

\* Each code of the shutdown is sent only after the one before it has been read on the other side:
\* the FPGA's shutdown code, the MCU's, the FPGA's hang-up and the MCU's, of which the FPGA, whose
\* loop has stopped (handshake_query), reads nothing; with one object, destroyed at any moment and
\* whether or not the applications take turns.
THEOREM ShutdownInOrder ==
  ASSUME DeleteWhen = "never" \/ NumIds = 1 PROVE Spec => []ShutdownOrder
<1>1. Chain => ShutdownOrder
  <2> SUFFICES ASSUME Chain PROVE ShutdownOrder
    OBVIOUS
  <2>1. Told("fpga") /\ Told("mcu") /\ Follows /\ Halted
    BY DEF Chain, Sides
  <2> QED BY <2>1 DEF Told, Follows, Halted, ShutdownOrder, Peer
<1> QED BY <1>1, ChainHolds, PTL

=============================================================================
