------------------------- MODULE SerialMirror_proof -------------------------
(* While the applications take turns: how the two sides stand to each object, that no error *)
(* occurs, that the hang-up leaves nothing half done, and that the link implements the mirror; *)
(* whether nobody is destroyed, or the sides of a link with one object are, at any moment. *)
EXTENDS SerialLink_proof

\* How the two sides stand to object j: s may write it, asks for its transfer, is sending it, or
\* has received it. (The destructor reports a read that has not ended as well.)
Has(k, s, j) ==
  CASE k = "turn" -> j \in turn[s]
    [] k = "sync" -> j \in syncMe[s]
    [] k = "moving" -> j \in readLock[Peer(s)] /\ j \notin syncMe[s]
    [] k = "read" -> j \in readAck[s] \ readLock[s]

Stands == {"turn", "sync", "moving", "read"}

\* Just one of these holds.
Only(k, s, j) == \A l \in Stands, r \in Sides : Has(l, r, j) <=> (l = k /\ r = s)

OneStand == \A j \in Ids : \E k \in Stands, s \in Sides : Only(k, s, j)

\* What the event loop of s and its resolver hold of each other. Nothing is reported failed to an
\* application that still runs.
Books(s) ==
  /\ Asked(s) \subseteq syncMe[s] /\ syncMe[s] \cap transfer[s] = {}
  /\ readLock[Peer(s)] \cap syncMe[s] \subseteq Asked(s)
  /\ com[s].acknowledgeRequested <=> Asked(s) # {}
  /\ pending[s] \subseteq syncMe[s] \cup transfer[s] \cup writeAck[s]
  /\ turn[s] \cap pending[s] = {}
  /\ writeFault[s] = {} /\ readStarted[s] \subseteq readLock[s]
  /\ life[s] = "alive" => readFault[s] = {} /\ readAck[s] \cap readLock[s] = {}

\* What is on its way is the version that was written.
Copies(s) ==
  LET w == send[s]
      r == recv[Peer(s)] IN
  /\ w.lock /\ w.pos = 0 /\ w.count > 0 => w.val = obj[s][w.origin]
  /\ r.lock /\ r.pos > 0 => obj[Peer(s)][r.dest] = obj[s][r.dest]
  /\ \A j \in Ids : obj[s][j] <= writes

Load(s, b) ==
  /\ b.kind = "data" /\ b.pos = 0 => b.val = obj[s][b.id]
  /\ b.kind = "poweron" => Quiet

Loads(s) ==
  /\ flagAck[s] => Load(s, outBuf[s])
  /\ flagUpdated[s] /\ ~firstRun[s] => Load(Peer(s), inBuf[s])

TurnsKept ==
  /\ OneStand /\ aborted = "none"
  /\ \A s \in Sides : Books(s) /\ Copies(s) /\ Loads(s)

-----------------------------------------------------------------------------
(* What a step leaves alone.                                               *)

LEMMA StandsStay ==
  ASSUME OneStand, UNCHANGED <<turn, syncMe, readLock, readAck>> PROVE OneStand'
<1>1. \A k, s, j : Has(k, s, j)' = Has(k, s, j)
  BY DEF Has
<1> QED BY <1>1 DEF OneStand, Only

LEMMA BooksStay ==
  ASSUME NEW s, Books(s), Asked(s)' = Asked(s),
         com'[s].acknowledgeRequested = com[s].acknowledgeRequested,
         life'[s] = "alive" => life[s] = "alive",
         UNCHANGED <<syncMe, transfer, pending, writeAck, turn, readAck, readFault, writeFault>>,
         UNCHANGED <<readStarted, readLock>>
  PROVE  Books(s)'
BY DEF Books

LEMMA CopiesStay ==
  ASSUME NEW s, Copies(s), UNCHANGED <<send, recv, obj, writes>> PROVE Copies(s)'
BY DEF Copies

LEMMA QuietStays ==
  ASSUME UNCHANGED <<loopVars, acknowledging, blockVars>> PROVE Quiet' = Quiet
BY DEF Quiet, Asked, InStep, loopVars, blockVars

\* Nothing is under way while a cycle runs.
LEMMA CycleLoads ==
  ASSUME NEW s \in Sides, OnlyAt("cycle", s)', NEW r \in Sides PROVE Loads(r)'
<1>1. ~flagAck'[r] /\ ~flagUpdated'[r]
  BY DEF OnlyAt, Place, Places
<1> QED BY <1>1 DEF Loads

\* The one byte under way is the one that was just sent.
LEMMA AckLoads ==
  ASSUME NEW s \in Sides, OnlyAt("ack", s)', Load(s, outBuf[s])', NEW r \in Sides PROVE Loads(r)'
<1>1. ~flagUpdated'[r] /\ (flagAck'[r] => r = s)
  BY DEF OnlyAt, Place, Places
<1> QED BY <1>1 DEF Loads

\* Who has read-locked an object, and who is reading one.
LEMMA LockFacts ==
  ASSUME Inv, TurnsKept, NEW s \in Sides
  PROVE  /\ transfer[s] \subseteq readLock[Peer(s)]
         /\ \A j \in readLock[Peer(s)] : Only("sync", s, j) \/ Only("moving", s, j)
         /\ recv[s].lock => recv[s].dest \in readLock[s]
<1>1. transfer[s] \subseteq readLock[Peer(s)]
  BY InvAgrees DEF TransfersAgree
<1>2. ASSUME NEW j \in readLock[Peer(s)] PROVE Only("sync", s, j) \/ Only("moving", s, j)
  <2>1. j \in Ids
    BY PeerFacts DEF Inv, TypeInv, BlockType
  <2>2. Has("sync", s, j) \/ Has("moving", s, j)
    BY DEF Has
  <2> QED BY <2>1, <2>2 DEF TurnsKept, OneStand, Only, Stands
<1>3. ASSUME recv[s].lock PROVE recv[s].dest \in readLock[s]
  <2> DEFINE p == Peer(s)
  <2>1. p \in Sides /\ Peer(p) = s
    BY PeerFacts
  <2>2. CASE InStep(p)
    <3>1. send[p].lock /\ recv[s].dest = send[p].origin
      BY <1>3, <2>1, <2>2 DEF InStep
    <3>2. Always(p)
      BY <2>1 DEF Inv, LinkInv
    <3> QED BY <2>1, <3>1, <3>2, InvAgrees DEF Always, TransfersAgree
  <2>3. ASSUME NEW b, Locked(p, {b.id}), Ahead(p, b) PROVE recv[s].dest \in readLock[s]
    BY <1>3, <2>1, <2>3 DEF Locked, Ahead
  <2>4. InStep(p) \/ \E b : Locked(p, {b.id}) /\ Ahead(p, b)
    <3>1. ASSUME NEW r \in Sides, Cycle(r) PROVE InStep(p)
      BY <2>1, <3>1, PeerFacts DEF Cycle
    <3>2. ASSUME NEW r \in Sides, NEW b, Sent(r, b)
          PROVE  InStep(p) \/ \E c : Locked(p, {c.id}) /\ Ahead(p, c)
      BY <2>1, <3>2, PeerFacts DEF Sent
    <3> QED BY <2>1, <3>1, <3>2, Cases, PeerFacts DEF Quiet
  <2> QED BY <2>2, <2>3, <2>4
<1> QED BY <1>1, <1>2, <1>3

LEMMA TurnsInitially == Init => TurnsKept
<1> SUFFICES ASSUME Init PROVE TurnsKept
  OBVIOUS
<1>1. OneStand
  <2>1. ASSUME NEW j \in Ids PROVE Only("turn", FirstOwner[j], j)
    BY PeerFacts DEF Init, Only, Has, Stands
  <2> QED BY <2>1, LinkAssumption DEF OneStand, Stands
<1>2. ASSUME NEW s \in Sides PROVE Books(s)
  BY PeerFacts, IdFacts DEF Init, Books, Asked, ComVars
<1>3. ASSUME NEW s \in Sides PROVE Copies(s) /\ Loads(s)
  BY PeerFacts DEF Init, Copies, Loads
<1> QED BY <1>1, <1>2, <1>3 DEF TurnsKept, Init

-----------------------------------------------------------------------------
(* The bytes that carry no data.                                           *)

LEMMA FirstCycleTurns ==
  ASSUME Inv, TurnsKept, NEW s \in Sides, FirstCycle(s) PROVE TurnsKept'
<1>1. OnlyAt("updated", s) /\ OnlyAt("ack", s)'
  BY PassPlaces DEF Inv, FirstCycle, Handshake, At, Answers, Passes
<1>2. Quiet
  BY <1>1, Found DEF Inv, Places, Situation, FirstCycle
<1>3. /\ UNCHANGED <<com, acknowledging, blockVars, switchVars, appVars, aborted>>
      /\ outBuf'[s] = Control(s, "poweron", NoId) /\ waiting' = [waiting EXCEPT ![s] = NoId]
  BY DEF FirstCycle, Inv, TypeInv, LineType
<1>4. \A r \in Sides : Asked(r)' = Asked(r)
  BY <1>2, <1>3, IdFacts DEF Asked, Quiet, Inv, TypeInv, LoopType
<1>5. Quiet'
  <2>1. \A r : InStep(r)' = InStep(r)
    BY <1>3 DEF InStep, blockVars
  <2> QED BY <1>2, <1>3, <1>4, <2>1 DEF Quiet, blockVars
<1>6. Load(s, outBuf[s])'
  BY <1>3, <1>5 DEF Load, Control
<1>7. OneStand' /\ aborted' = "none"
  BY <1>3, StandsStay DEF TurnsKept, blockVars, switchVars, appVars
<1>8. \A r \in Sides : Books(r)' /\ Copies(r)' /\ Loads(r)'
  BY <1>1, <1>3, <1>4, <1>6, BooksStay, CopiesStay, AckLoads
     DEF TurnsKept, blockVars, switchVars, appVars
<1> QED BY <1>7, <1>8 DEF TurnsKept

\* A byte without data is sent, and at most one object asked for.
LEMMA ControlTurns ==
  ASSUME Inv, TurnsKept, NEW s \in Sides, NEW kind \in States \cup {"request"}, NEW id,
         kind # "poweron",
         pc[s] \in {"scan", "out"}, EndCycle(s, Control(s, kind, id)),
         \A r \in Sides : Books(r)',
         UNCHANGED <<blockVars, switchVars, appVars, aborted>>
  PROVE  TurnsKept'
<1>1. OnlyAt("ack", s)'
  BY PassPlaces DEF Inv, EndCycle, Ends, Passes
<1>2. Load(s, outBuf[s])'
  <2>1. outBuf'[s] = Control(s, kind, id)
    BY DEF EndCycle, Inv, TypeInv, LineType
  <2> QED BY <2>1 DEF Load, Control, States
<1>3. OneStand' /\ aborted' = "none"
  BY StandsStay DEF TurnsKept, blockVars, switchVars, appVars
<1>4. \A r \in Sides : Copies(r)' /\ Loads(r)'
  BY <1>1, <1>2, CopiesStay, AckLoads DEF TurnsKept, blockVars, appVars
<1> QED BY <1>3, <1>4 DEF TurnsKept

\* An object is only asked for while it is not read-locked, being written after a turn only.
LEMMA ScanTurns ==
  ASSUME Inv, TurnsKept, NEW s \in Sides, Scan(s) PROVE TurnsKept'
<1> DEFINE j == scan[s]
<1>1. j \in 0 .. NumIds /\ pc[s] = "scan"
  BY DEF Inv, TypeInv, LoopType, Scan, At
<1>2. CASE j = NumIds \/ ~Requested(s, j)
  <2>1. /\ pc' = pc \/ pc' = [pc EXCEPT ![s] = "out"]
        /\ UNCHANGED <<lineVars, firstRun, waiting, signalVars, blockVars, switchVars>>
        /\ UNCHANGED <<appVars, aborted>>
    BY <1>2 DEF Scan
  <2>2. pc' = [pc EXCEPT ![s] = pc'[s]] /\ pc'[s] \in {"scan", "out"}
    BY <1>1, <2>1 DEF Inv, TypeInv, LoopType
  <2>3. OnlyAt("cycle", s)'
    BY <1>1, <2>1, <2>2, GoingOn DEF Phases
  <2>4. OneStand' /\ aborted' = "none"
    BY <2>1, StandsStay DEF TurnsKept, blockVars, switchVars, appVars
  <2>5. \A r \in Sides : Books(r)' /\ Copies(r)' /\ Loads(r)'
    BY <2>1, <2>3, BooksStay, CopiesStay, CycleLoads
       DEF TurnsKept, Asked, signalVars, blockVars, switchVars, appVars
  <2> QED BY <2>4, <2>5 DEF TurnsKept
<1>3. CASE j # NumIds /\ Requested(s, j)
  <2>1. j \in Ids /\ j \in syncMe[s] /\ j \notin transfer[s]
    BY <1>1, <1>3, IdFacts DEF Requested
  <2>2. j \notin readLock[s]
    <3>1. ASSUME j \in readLock[s] PROVE FALSE
      <4>1. Only("sync", Peer(s), j) \/ Only("moving", Peer(s), j)
        BY <3>1, LockFacts, PeerFacts
      <4>2. Has("sync", s, j)
        BY <2>1 DEF Has
      <4> QED BY <4>1, <4>2, PeerFacts DEF Only, Stands
    <3> QED BY <3>1
  <2>3. /\ EndCycle(s, Control(s, "request", j)) /\ waiting' = [waiting EXCEPT ![s] = j]
        /\ com' = [com EXCEPT ![s].acknowledgeRequested = TRUE]
        /\ UNCHANGED <<blockVars, switchVars, appVars, aborted>>
    BY <1>3, <2>2 DEF Scan
  <2>4. Asked(s) = {}
    <3>1. Cycle(s)
      BY <1>1 DEF Inv, LinkInv, Places, Situation, Place
    <3> QED BY <1>1, <3>1 DEF Cycle
  <2>5. ASSUME NEW r \in Sides PROVE Books(r)'
    <3>1. CASE r = s
      <4>1. Asked(s)' = {j}
        BY <2>1, <2>3 DEF Asked, Inv, TypeInv, LoopType
      <4>2. com'[s].acknowledgeRequested = TRUE
        BY <2>3 DEF Inv, TypeInv, SignalType, ComType
      <4> QED BY <2>1, <2>3, <2>4, <3>1, <4>1, <4>2
                 DEF TurnsKept, Books, blockVars, switchVars, appVars
    <3>2. CASE r # s
      <4>1. Asked(r)' = Asked(r) /\ com'[r] = com[r]
        BY <2>3, <3>2 DEF Asked, Inv, TypeInv, LoopType, SignalType
      <4> QED BY <2>3, <4>1, BooksStay DEF TurnsKept, blockVars, switchVars, appVars
    <3> QED BY <3>1, <3>2
  <2> QED BY <1>1, <2>3, <2>5, ControlTurns DEF States
<1> QED BY <1>2, <1>3

LEMMA SendIdleTurns ==
  ASSUME Inv, TurnsKept, NEW s \in Sides, SendIdle(s) PROVE TurnsKept'
<1>1. /\ EndCycle(s, Control(s, "idle", NoId)) /\ pc[s] = "out"
      /\ UNCHANGED <<waiting, com, blockVars, switchVars, appVars, aborted>>
  BY DEF SendIdle, Idle, At
<1>2. \A r \in Sides : Books(r)'
  BY <1>1, BooksStay DEF TurnsKept, Asked, blockVars, switchVars, appVars
<1> QED BY <1>1, <1>2, ControlTurns DEF States

\* The codes of a shutdown are sent.
LEMMA SendCodesTurns ==
  ASSUME Inv, TurnsKept, NEW s \in Sides, SendShutdown(s) \/ SendSighup(s) PROVE TurnsKept'
<1>1. PICK kind \in {"shutdown", "sighup"} :
        /\ EndCycle(s, Control(s, kind, NoId)) /\ pc[s] = "out"
        /\ \/ com' = [com EXCEPT ![s].sent_com_shutdown = TRUE]
           \/ com' = [com EXCEPT ![s].sent_sighup = TRUE]
        /\ UNCHANGED <<waiting, blockVars, switchVars, appVars, aborted>>
  BY DEF SendShutdown, SendSighup, Idle, At
<1>2. \A r \in Sides : com'[r].acknowledgeRequested = com[r].acknowledgeRequested
  BY <1>1 DEF Inv, TypeInv, SignalType, ComType
<1>3. \A r \in Sides : Books(r)'
  BY <1>1, <1>2, BooksStay DEF TurnsKept, Asked, blockVars, switchVars, appVars
<1> QED BY <1>1, <1>3, ControlTurns DEF States

\* A byte without data is read.
LEMMA ReadControlTurns ==
  ASSUME Inv, TurnsKept, NEW s \in Sides, Handshake(s), ~firstRun[s], ReadByte(s),
         com'[s].acknowledgeRequested = com[s].acknowledgeRequested,
         \A r \in Sides : r # s => com'[r] = com[r],
         UNCHANGED <<blockVars, switchVars, appVars, aborted>>
  PROVE  TurnsKept'
<1>1. OnlyAt("cycle", s)'
  BY ReadFrom
<1>2. OneStand' /\ aborted' = "none"
  BY StandsStay DEF TurnsKept, blockVars, switchVars, appVars
<1>3. \A r \in Sides : Books(r)'
  BY BooksStay DEF TurnsKept, ReadByte, Asked, blockVars, switchVars, appVars
<1>4. \A r \in Sides : Copies(r)' /\ Loads(r)'
  BY <1>1, CopiesStay, CycleLoads DEF TurnsKept, blockVars, appVars
<1> QED BY <1>2, <1>3, <1>4 DEF TurnsKept

\* Nothing is read after a hang-up, and no code of a shutdown twice.
LEMMA NothingAfter ==
  ASSUME Inv, Chain, NEW s \in Sides, Handshake(s), ~firstRun[s]
  PROVE  /\ ~com[s].received_sighup
         /\ inBuf[s].kind = "shutdown" =>
              /\ ~com[s].received_com_shutdown
              /\ com[Peer(s)].sent_com_shutdown
<1>1. flagUpdated[s] /\ inBuf[s].kind \in Kinds
  BY DEF Handshake, Inv, TypeInv, LineType, Bytes
<1>2. Under(Peer(s), inBuf[s].kind) /\ Told(Peer(s))
  BY <1>1, PeerFacts DEF Under, Chain
<1>3. inBuf[s].kind = "shutdown" => ~com[s].received_com_shutdown /\ com[Peer(s)].sent_com_shutdown
  BY <1>2, PeerFacts DEF Told
<1>4. ASSUME com[s].received_sighup PROVE FALSE
  <2>1. s = "mcu" /\ Peer(s) = "fpga"
    BY <1>4 DEF Chain, Halted, Sides, Peer
  <2>2. com["fpga"].sent_sighup
    BY <1>2, <1>4, <2>1 DEF Told, Peer
  <2>3. inBuf[s].kind = "sighup"
    BY <1>1, <1>2, <2>1, <2>2 DEF Chain, Halted
  <2> QED BY <1>2, <1>4, <2>1, <2>3 DEF Told, Peer
<1> QED BY <1>3, <1>4

LEMMA ReadTurns ==
  ASSUME Inv, Chain, TurnsKept, NEW s \in Sides,
         ReadPoweron(s) \/ ReadIdle(s) \/ \E id \in 0 .. NumIds : ReadRequest(s, id)
  PROVE  TurnsKept'
<1>1. com \in [Sides -> ComType]
  BY DEF Inv, TypeInv, SignalType
<1>2. ASSUME SetCom(s, Received(s))
      PROVE  /\ com'[s].acknowledgeRequested = com[s].acknowledgeRequested
             /\ \A r \in Sides : r # s => com'[r] = com[r]
  BY <1>1, <1>2 DEF SetCom, Received, ComType
<1>3. CASE ReadPoweron(s)
  <2>1. Handshake(s) /\ ~firstRun[s] /\ inBuf[s].kind = "poweron"
    BY <1>3, Meant DEF ReadPoweron
  <2>2. Quiet /\ Sent(Peer(s), inBuf[s]) /\ Always(Peer(s)) /\ Books(s)
    BY <2>1, ReadFrom DEF TurnsKept, Loads, Load, Handshake
  <2>3. Asked(s) = {} /\ ~com[s].acknowledgeRequested
    BY <2>2 DEF Quiet, Books
  <2>4. ~inBuf[s].acknowledge
    BY <2>2, <2>3, PeerFacts DEF Sent
  <2>5. ~recv[s].lock /\ recv[s].count = 0
    BY <2>2, PeerFacts DEF Quiet, InStep, Always
  <2>6. PoweronError(s) = "none"
    BY <2>3, <2>4, <2>5 DEF PoweronError
  <2>7. /\ ReadByte(s) /\ com' = [com EXCEPT ![s] = ComVars]
        /\ UNCHANGED <<blockVars, switchVars, appVars, aborted>>
    BY <1>3, <2>6 DEF ReadPoweron, SetCom
  <2>8. com'[s].acknowledgeRequested = com[s].acknowledgeRequested
    <3>1. com[s].acknowledgeRequested = FALSE
      BY <1>1, <2>3 DEF ComType
    <3> QED BY <1>1, <2>7, <3>1 DEF ComVars
  <2>9. \A r \in Sides : r # s => com'[r] = com[r]
    BY <1>1, <2>7
  <2> QED BY <2>1, <2>7, <2>8, <2>9, ReadControlTurns
<1>4. CASE ReadIdle(s)
  BY <1>2, <1>4, ReadControlTurns DEF ReadIdle, Reads
<1>5. ASSUME NEW id \in 0 .. NumIds, ReadRequest(s, id) PROVE TurnsKept'
  <2>1. ~com[s].received_sighup
    BY <1>5, NothingAfter DEF ReadRequest, Reads
  <2> QED BY <1>2, <1>5, <2>1, ReadControlTurns DEF ReadRequest, Reads
<1> QED BY <1>3, <1>4, <1>5

\* What is reported as failed is still read-locked: nothing else has been received.
LEMMA InterruptStands ==
  ASSUME Inv, TurnsKept, NEW s \in Sides, EmitInterrupted(s), UNCHANGED <<turn, readLock>>
  PROVE  \A j, k, r : k \in Stands /\ r \in Sides => (Has(k, r, j)' <=> Has(k, r, j))
<1>1. /\ readAck' = [readAck EXCEPT ![s] = @ \cup readStarted[s]] /\ syncMe' = syncMe
      /\ readAck \in [Sides -> SUBSET Ids] /\ readStarted[s] \subseteq readLock[s]
  BY DEF EmitInterrupted, Inv, TypeInv, SwitchType, TurnsKept, Books
<1>2. \A r \in Sides : readAck'[r] \ readLock[r] = readAck[r] \ readLock[r]
  BY <1>1
<1> QED BY <1>1, <1>2, Zenon DEF Has, Stands

\* A step that reports what s reads as failed: s is being destroyed or reads nothing.
LEMMA InterruptTurns ==
  ASSUME Inv, TurnsKept, NEW s \in Sides, EmitInterrupted(s),
         life'[s] # "alive" \/ readLock[s] = {},
         \A r \in Sides : /\ life'[r] = "alive" => life[r] = "alive"
                         /\ com'[r].acknowledgeRequested = com[r].acknowledgeRequested,
         UNCHANGED <<waiting, turn, readLock, transfer>>
  PROVE  OneStand' /\ \A r \in Sides : Books(r)'
<1>1. /\ readAck \in [Sides -> SUBSET Ids] /\ readFault \in [Sides -> SUBSET Ids]
      /\ readStarted \in [Sides -> SUBSET Ids]
  BY DEF Inv, TypeInv, SwitchType
<1>2. /\ readFault' = [readFault EXCEPT ![s] = @ \cup readStarted[s]]
      /\ readAck' = [readAck EXCEPT ![s] = @ \cup readStarted[s]]
      /\ readStarted' = [readStarted EXCEPT ![s] = {}]
      /\ UNCHANGED <<syncMe, pending, writeAck, writeFault>>
  BY DEF EmitInterrupted
<1>3. readStarted[s] \subseteq readLock[s]
  BY DEF TurnsKept, Books
<1>4. OneStand'
  <2>1. ASSUME NEW j \in Ids PROVE \E k \in Stands, r \in Sides : Only(k, r, j)'
    <3>1. PICK k \in Stands, r \in Sides : Only(k, r, j)
      BY DEF TurnsKept, OneStand
    <3>2. Only(k, r, j)'
      BY <3>1, InterruptStands DEF Only
    <3> QED BY <3>2
  <2> QED BY <2>1 DEF OneStand
<1>5. ASSUME NEW r \in Sides PROVE Books(r)'
  <2>1. Books(r) /\ Asked(r)' = Asked(r)
    BY DEF TurnsKept, Asked
  <2>2. CASE r = s
    <3>1. readStarted'[r] = {} /\ (life'[r] = "alive" => readStarted[r] = {})
      BY <1>1, <1>2, <1>3, <2>2
    <3>2. life'[r] = "alive" => readAck'[r] = readAck[r] /\ readFault'[r] = readFault[r]
      BY <1>1, <1>2, <2>2, <3>1
    <3> QED BY <1>2, <2>1, <3>1, <3>2 DEF Books
  <2>3. CASE r # s
    <3>1. /\ readAck'[r] = readAck[r] /\ readFault'[r] = readFault[r]
          /\ readStarted'[r] = readStarted[r]
      BY <1>1, <1>2, <2>3
    <3> QED BY <1>2, <2>1, <3>1 DEF Books
  <2> QED BY <2>2, <2>3
<1> QED BY <1>4, <1>5

\* The FPGA has nothing to send when its shutdown code reaches the MCU, which reads nothing then.
LEMMA ReadCodesTurns ==
  ASSUME Inv, Chain, TurnsKept, NEW s \in Sides, ReadShutdown(s) \/ ReadSighup(s)
  PROVE  TurnsKept'
<1>1. com \in [Sides -> ComType]
  BY DEF Inv, TypeInv, SignalType
<1>2. CASE ReadSighup(s)
  <2>1. Handshake(s) /\ ~firstRun[s] /\ ~com[s].received_sighup
    BY <1>2, NothingAfter DEF ReadSighup, Reads
  <2>2. /\ ReadByte(s) /\ com' = [com EXCEPT ![s] = [Received(s) EXCEPT !.received_sighup = TRUE]]
        /\ UNCHANGED <<blockVars, switchVars, appVars, aborted>>
    BY <1>2, <2>1 DEF ReadSighup, SetCom
  <2>3. /\ com'[s].acknowledgeRequested = com[s].acknowledgeRequested
        /\ \A r \in Sides : r # s => com'[r] = com[r]
    BY <1>1, <2>2 DEF Received, ComType
  <2> QED BY <2>1, <2>2, <2>3, ReadControlTurns
<1>3. CASE ReadShutdown(s)
  <2>1. Handshake(s) /\ ~firstRun[s] /\ inBuf[s].kind = "shutdown"
    BY <1>3, Meant DEF ReadShutdown
  <2>2. ShutdownError(s) = "none" /\ com[Peer(s)].sent_com_shutdown
    BY <2>1, NothingAfter DEF ShutdownError
  <2>3. /\ ReadByte(s) /\ UNCHANGED <<blockVars, appVars, aborted>>
        /\ com' = [com EXCEPT ![s] =
                     [Received(s) EXCEPT !.received_com_shutdown = TRUE,
                                         !.descendants_notified = @ \/ Notifies(s) # {}]]
        /\ EmitInterrupted(s) \/ UNCHANGED switchVars
    BY <1>3, <2>2 DEF ReadShutdown, SetCom
  <2>4. /\ com'[s].acknowledgeRequested = com[s].acknowledgeRequested
        /\ \A r \in Sides : r # s => com'[r] = com[r]
    BY <1>1, <2>3 DEF Received, ComType
  <2>5. CASE UNCHANGED switchVars
    BY <2>1, <2>3, <2>4, <2>5, ReadControlTurns
  <2>6. CASE EmitInterrupted(s)
    <3>1. Silent(Peer(s)) /\ Sent(Peer(s), inBuf[s])
      BY <2>1, ReadFrom, PeerFacts DEF Chain
    <3>2. readLock[s] = {}
      BY <2>1, <2>2, <3>1, PeerFacts DEF Silent, Sent, Locked
    <3>3. OneStand' /\ \A r \in Sides : Books(r)'
      BY <2>3, <2>4, <2>6, <3>2, InterruptTurns DEF ReadByte, blockVars, appVars
    <3>4. OnlyAt("cycle", s)'
      BY <2>1, <2>3, ReadFrom
    <3>5. \A r \in Sides : Copies(r)' /\ Loads(r)'
      BY <2>3, <3>4, CopiesStay, CycleLoads DEF TurnsKept, blockVars, appVars
    <3> QED BY <2>3, <3>3, <3>5 DEF TurnsKept
  <2> QED BY <2>3, <2>5, <2>6
<1> QED BY <1>2, <1>3

-----------------------------------------------------------------------------
(* The sextets that are read.                                              *)

LEMMA ReaderReady ==
  ASSUME Inv, NEW s \in Sides, ReadObject(s) PROVE ReadObjectError(s) = "none"
<1>1. Sent(Peer(s), inBuf[s]) /\ ~inBuf[s].request
  BY ReadFrom DEF ReadObject
<1>2. Locked(Peer(s), {inBuf[s].id}) /\ Ahead(Peer(s), inBuf[s])
  BY <1>1 DEF Sent
<1>3. inBuf[s].id \in readLock[s] /\ (recv[s].lock \/ recv[s].pos = 0)
  BY <1>2, PeerFacts DEF Locked, Ahead
<1> QED BY <1>3 DEF ReadObjectError

LEMMA ReadObjectTurns ==
  ASSUME Inv, TurnsKept, NEW s \in Sides, ReadObject(s) PROVE TurnsKept'
<1> PICK b, p, r : b = inBuf[s] /\ p = Peer(s) /\ r = Destination(s)
  OBVIOUS
<1>0. SextetStep(s, p, b, r)
  BY ReaderReady, SextetRead
<1>1. /\ p \in Sides /\ p # s /\ Peer(p) = s /\ Peer(s) = p /\ \A q \in Sides : q = s \/ q = p
  BY PeerFacts
<1>2. /\ Handshake(s) /\ ~firstRun[s] /\ b.kind = "data" /\ Asked(p) = {} /\ b.id \in readLock[s]
      /\ UNCHANGED <<transfer, send, turn, writes, life, aborted>> /\ OnlyAt("cycle", s)'
  BY <1>0 DEF SextetStep
<1>3. /\ recv \in [Sides -> RecvType] /\ readLock \in [Sides -> SUBSET Ids]
      /\ obj \in [Sides -> [Ids -> 0 .. MaxWrites]] /\ readAck \in [Sides -> SUBSET Ids]
      /\ readStarted \in [Sides -> SUBSET Ids] /\ writes \in Nat
  BY LinkAssumption DEF Inv, TypeInv, BlockType, AppType, SwitchType
<1>4. /\ readLock'[p] = readLock[p] /\ recv'[p] = recv[p] /\ obj'[p] = obj[p]
      /\ readLock'[s] = IF Last(b) THEN readLock[s] \ {b.id} ELSE readLock[s]
      /\ obj'[s] = IF b.pos = 0 /\ b.count = 3 THEN [obj[s] EXCEPT ![b.id] = b.val] ELSE obj[s]
  <2>1. /\ readLock' = [readLock EXCEPT ![s] = IF Last(b) THEN @ \ {b.id} ELSE @]
        /\ obj' = IF b.pos = 0 /\ b.count = 3 THEN [obj EXCEPT ![s][b.id] = b.val] ELSE obj
    BY <1>0 DEF SextetStep
  <2>2. recv'[p] = recv[p]
    BY <1>0, <1>1, <1>3 DEF SextetStep
  <2> QED BY <1>1, <1>3, <2>1, <2>2
<1>5. /\ UNCHANGED <<syncMe, pending, readFault, writeAck, writeFault>>
      /\ readAck' = IF Last(b) THEN [readAck EXCEPT ![s] = @ \cup {b.id}] ELSE readAck
      /\ readStarted' = IF Last(b) THEN [readStarted EXCEPT ![s] = @ \ {b.id}] ELSE readStarted
  BY <1>0 DEF SextetStep, EmitReceived, switchVars
<1>6. /\ waiting' = waiting
      /\ \A q \in Sides : com'[q].acknowledgeRequested = com[q].acknowledgeRequested
  BY <1>0 DEF SextetStep, ReadByte, SetCom, Received, Inv, TypeInv, SignalType, ComType
<1>7. OneStand'
  <2>1. CASE ~Last(b)
    <3>1. readLock' = readLock
      BY <1>0, <1>3, <2>1 DEF SextetStep
    <3> QED BY <1>2, <1>5, <2>1, <3>1, StandsStay DEF TurnsKept
  <2>2. CASE Last(b)
    <3>1. b.id \in Ids /\ b.id \notin syncMe[p]
      BY <1>1, <1>2, <1>3 DEF TurnsKept, Books
    <3>2. Only("moving", p, b.id)
      <4>1. Only("sync", p, b.id) \/ Only("moving", p, b.id)
        BY <1>1, <1>2, LockFacts
      <4> QED BY <1>1, <3>1, <4>1 DEF Only, Has, Stands
    <3>3. Only("read", s, b.id)'
      <4>1. ASSUME NEW q \in Sides PROVE b.id \notin turn'[q] /\ b.id \notin syncMe'[q]
        BY <1>2, <1>5, <3>2, <4>1 DEF Only, Has, Stands
      <4>0. b.id \notin readLock[p]
        BY <1>2, InvAgrees, PeerFacts DEF TransfersAgree
      <4>2. b.id \in readAck'[s] /\ b.id \notin readAck'[p]
        BY <1>1, <1>3, <1>5, <2>2, <3>2, <4>0 DEF Only, Has, Stands
      <4>3. b.id \notin readLock'[s] /\ b.id \notin readLock'[p]
        BY <1>4, <2>2, <4>0
      <4> QED BY <1>1, <4>1, <4>2, <4>3 DEF Only, Has, Stands
    <3>4. ASSUME NEW j \in Ids \ {b.id} PROVE \E k \in Stands, q \in Sides : Only(k, q, j)'
      <4>1. \A q \in Sides : /\ j \in readLock'[q] <=> j \in readLock[q]
                             /\ j \in readAck'[q] <=> j \in readAck[q]
        BY <1>1, <1>3, <1>4, <1>5, <2>2
      <4>2. \A k \in Stands, q \in Sides : Has(k, q, j)' <=> Has(k, q, j)
        BY <1>2, <1>5, <4>1, PeerFacts DEF Has, Stands
      <4>3. PICK k \in Stands, q \in Sides : Only(k, q, j)
        BY DEF TurnsKept, OneStand
      <4>4. Only(k, q, j)'
        BY <4>2, <4>3 DEF Only
      <4> QED BY <4>4
    <3> QED BY <3>3, <3>4 DEF OneStand, Stands
  <2> QED BY <2>1, <2>2
<1>8. ASSUME NEW q \in Sides PROVE Books(q)'
  <2>1. readLock'[Peer(q)] \subseteq readLock[Peer(q)]
    BY <1>1, <1>4
  <2>2. readStarted[q] \subseteq readLock[q]
    BY DEF TurnsKept, Books
  <2>3. readStarted'[q] \subseteq readLock'[q]
    BY <1>1, <1>3, <1>4, <1>5, <2>2
  <2>4. readAck'[q] \cap readLock'[q] \subseteq readAck[q] \cap readLock[q]
    BY <1>1, <1>3, <1>4, <1>5
  <2> QED BY <1>2, <1>5, <1>6, <2>1, <2>3, <2>4 DEF TurnsKept, Books, Asked
<1>9. b.pos = 0 => b.val = obj[p][b.id]
  BY <1>1, <1>2 DEF TurnsKept, Loads, Load, Handshake
<1>10. Copies(s)'
  <2>1. Copies(s) /\ Copies(p)
    BY <1>1 DEF TurnsKept
  <2>2. \A j \in Ids : obj'[s][j] <= writes'
    BY <1>1, <1>2, <1>3, <1>4, <1>9, <2>1 DEF Copies
  <2>3. send[s].lock => send[s].origin # b.id
    BY <1>2, InvAgrees DEF TransfersAgree, Inv, LinkInv, Always
  <2>4. recv[p].lock => recv[p].dest # b.id
    BY <1>1, <1>2, LockFacts, InvAgrees DEF TransfersAgree
  <2>5. \A j : j # b.id => obj'[s][j] = obj[s][j]
    BY <1>3, <1>4
  <2> QED BY <1>1, <1>2, <1>4, <2>1, <2>2, <2>3, <2>4, <2>5 DEF Copies
<1>11. Copies(p)'
  <2>1. Copies(p)
    BY <1>1 DEF TurnsKept
  <2>2. \A j \in Ids : obj'[p][j] <= writes'
    BY <1>2, <1>4, <2>1 DEF Copies
  <2>3. recv'[s].lock /\ recv'[s].pos > 0 => obj'[s][recv'[s].dest] = obj'[p][recv'[s].dest]
    <3>1. /\ r \in RecvType /\ r.dest = b.id /\ r.pos = b.pos /\ r.count = b.count /\ b.id \in Ids
          /\ b.pos \in 0 .. Triples - 1 /\ b.count \in 0 .. 3
          /\ recv' = [recv EXCEPT ![s] =
                       IF r.count < 3 THEN [r EXCEPT !.count = @ + 1]
                       ELSE IF Last(b) THEN [r EXCEPT !.lock = FALSE, !.pos = 0, !.count = 0]
                       ELSE [r EXCEPT !.pos = @ + 1, !.count = 0]]
      BY <1>0, <1>3 DEF SextetStep
    <3>2. b.pos > 0 => obj[s][b.id] = obj[p][b.id]
      <4>1. b.pos = recv[s].pos /\ (recv[s].lock \/ recv[s].pos = 0)
        BY <1>0, <1>1 DEF SextetStep, Ahead
      <4>2. recv[s].lock => recv[s].dest = b.id
        BY <1>0, <1>1 DEF SextetStep, Ahead
      <4> QED BY <1>1, <2>1, <3>1, <4>1, <4>2 DEF Copies
    <3>3. CASE r.count < 3
      <4>1. recv'[s].pos = b.pos /\ recv'[s].dest = b.id
        BY <1>3, <3>1, <3>3 DEF RecvType
      <4>2. obj'[s] = obj[s]
        BY <1>4, <3>1, <3>3
      <4> QED BY <1>4, <3>2, <4>1, <4>2
    <3>4. CASE ~(r.count < 3) /\ Last(b)
      <4>1. recv'[s] = [r EXCEPT !.lock = FALSE, !.pos = 0, !.count = 0]
        BY <1>3, <3>1, <3>4
      <4>2. r \in RecvType
        BY <3>1
      <4>3. recv'[s].lock = FALSE /\ recv'[s].pos = 0 /\ recv'[s].count = 0
        BY <4>1, <4>2 DEF RecvType
      <4> QED BY <4>3
    <3>5. CASE ~(r.count < 3) /\ ~Last(b)
      <4>1. recv'[s].dest = b.id
        BY <1>3, <3>1, <3>5 DEF RecvType
      <4>2. CASE b.pos = 0
        <5>1. obj'[s][b.id] = obj[p][b.id]
          BY <1>3, <1>4, <1>9, <3>1, <3>5, <4>2
        <5> QED BY <1>4, <4>1, <5>1
      <4>3. CASE b.pos > 0
        BY <1>4, <3>1, <3>2, <4>1, <4>3
      <4> QED BY <3>1, <4>2, <4>3
    <3> QED BY <3>3, <3>4, <3>5
  <2> QED BY <1>1, <1>2, <1>4, <2>1, <2>2, <2>3 DEF Copies
<1>12. aborted' = "none"
  BY <1>2 DEF TurnsKept
<1> QED BY <1>1, <1>2, <1>7, <1>8, <1>10, <1>11, <1>12, CycleLoads DEF TurnsKept

-----------------------------------------------------------------------------
(* The hooks.                                                              *)

\* Within a cycle, only how the sides stand to the objects may change.
LEMMA CycleTurns ==
  ASSUME TurnsKept, NEW s \in Sides, OnlyAt("cycle", s)', OneStand',
         \A r \in Sides : Books(r)',
         UNCHANGED <<send, recv, obj, writes, aborted>>
  PROVE  TurnsKept'
<1>1. \A r \in Sides : Copies(r)' /\ Loads(r)'
  BY CopiesStay, CycleLoads DEF TurnsKept
<1> QED BY <1>1 DEF TurnsKept

\* The object that is granted was asked for by the peer.
LEMMA Granted ==
  ASSUME Inv, TurnsKept, NEW s \in Sides, pc[s] = "transfer",
         incoming[s] \in Ids, incoming[s] # waiting[s]
  PROVE  /\ incoming[s] \in Asked(Peer(s)) /\ incoming[s] \in syncMe[Peer(s)]
         /\ Only("sync", Peer(s), incoming[s])
<1> DEFINE j == incoming[s]
           p == Peer(s)
<1>1. p \in Sides /\ Cycle(s)
  <2>1. Place("cycle", s)
    BY DEF Place
  <2> QED BY <2>1, PeerFacts DEF Inv, LinkInv, Places, Situation
<1>2. j \in Asked(p) /\ j \in syncMe[p]
  BY <1>1 DEF Cycle, Asked, TurnsKept, Books
<1>3. Has("sync", p, j)
  BY <1>2 DEF Has
<1> QED BY <1>1, <1>2, <1>3 DEF TurnsKept, OneStand, Only, Stands

\* So it is neither read nor written here.
LEMMA TransferHookTurns ==
  ASSUME Inv, TurnsKept, NEW s \in Sides, TransferHook(s) PROVE TurnsKept'
<1> DEFINE j == incoming[s]
           p == Peer(s)
           grants == j \in Ids /\ j # waiting[s]
<1>1. p \in Sides /\ p # s /\ Peer(p) = s /\ \A q \in Sides : q = s \/ q = p
  BY PeerFacts
<1>2. pc[s] = "transfer" /\ Cycle(s)
  <2>1. Place("cycle", s)
    BY DEF TransferHook, At, Place
  <2> QED BY <2>1 DEF TransferHook, At, Inv, LinkInv, Places, Situation
<1>3. j = waiting[p] /\ Locked(p, {})
  BY <1>2 DEF Cycle
<1>4. CASE ~grants
  <2>1. /\ pc' = [pc EXCEPT ![s] = "acknowledge"]
        /\ UNCHANGED <<lineVars, waiting, com, blockVars, switchVars, appVars, aborted>>
    BY <1>4 DEF TransferHook, signalVars
  <2>2. OnlyAt("cycle", s)'
    BY <1>2, <2>1, GoingOn DEF Phases
  <2>3. OneStand' /\ \A r \in Sides : Books(r)'
    BY <2>1, StandsStay, BooksStay DEF TurnsKept, Asked, blockVars, switchVars, appVars
  <2> QED BY <2>1, <2>2, <2>3, CycleTurns DEF blockVars, appVars
<1>5. CASE grants
  <2>1. j \in Asked(p) /\ j \in syncMe[p] /\ Only("sync", p, j)
    BY <1>2, <1>5, Granted
  <2>2. j \notin syncMe[s]
    BY <1>1, <2>1 DEF Only, Has, Stands
  <2>3. TransferError(s, j) = "none"
    <3>1. j \notin readLock[s]
      BY <1>1, <1>3, <2>1 DEF Locked, TurnsKept, Books
    <3>2. j \notin transfer[s]
      BY <1>1, <2>1, LockFacts DEF Only, Stands
    <3> QED BY <3>1, <3>2 DEF TransferError
  <2>4. /\ EmitReadlocked(s, j) /\ readLock' = [readLock EXCEPT ![s] = @ \cup {j}]
        /\ pc' = [pc EXCEPT ![s] = "acknowledge"]
        /\ UNCHANGED <<lineVars, waiting, com, transfer, send, recv, appVars, aborted>>
    BY <1>5, <2>3 DEF TransferHook
  <2>5. /\ UNCHANGED <<syncMe, pending, writeAck, writeFault, readAck, readFault>>
        /\ readStarted' = [readStarted EXCEPT ![s] = @ \cup {j}]
    BY <2>2, <2>4 DEF EmitReadlocked, Inv, TypeInv, SwitchType
  <2>6. /\ readLock'[s] = readLock[s] \cup {j} /\ readLock'[p] = readLock[p]
        /\ readStarted'[s] = readStarted[s] \cup {j} /\ readStarted'[p] = readStarted[p]
    BY <1>1, <2>4, <2>5 DEF Inv, TypeInv, BlockType, SwitchType
  <2>10. j \notin readAck[s]
    <3>1. j \notin readLock[s]
      BY <1>1, <1>3, <2>1 DEF Locked, TurnsKept, Books
    <3> QED BY <1>1, <2>1, <3>1 DEF Only, Has, Stands
  <2>7. OnlyAt("cycle", s)'
    BY <1>2, <2>4, GoingOn DEF Phases
  <2>8. OneStand'
    <3>1. \A i, k, r : k \in Stands /\ r \in Sides => (Has(k, r, i)' <=> Has(k, r, i))
      BY <1>1, <2>1, <2>4, <2>5, <2>6, <2>10 DEF Has, Stands, appVars
    <3>2. ASSUME NEW i \in Ids PROVE \E k \in Stands, r \in Sides : Only(k, r, i)'
      <4>1. PICK k \in Stands, r \in Sides : Only(k, r, i)
        BY DEF TurnsKept, OneStand
      <4>2. Only(k, r, i)'
        BY <3>1, <4>1 DEF Only
      <4> QED BY <4>2
    <3> QED BY <3>2 DEF OneStand
  <2>9. ASSUME NEW r \in Sides PROVE Books(r)'
    <3>1. readLock'[Peer(r)] \cap syncMe[r] \subseteq Asked(r)
      BY <1>1, <2>1, <2>6 DEF TurnsKept, Books
    <3>2. /\ readStarted'[r] \subseteq readLock'[r]
          /\ readAck[r] \cap readLock'[r] = readAck[r] \cap readLock[r]
      BY <1>1, <2>6, <2>10 DEF TurnsKept, Books
    <3> QED BY <2>4, <2>5, <3>1, <3>2 DEF TurnsKept, Books, Asked, appVars
  <2> QED BY <2>4, <2>7, <2>8, <2>9, CycleTurns DEF appVars
<1> QED BY <1>4, <1>5

\* The object that is in transfer from here on was asked for, and nobody else holds it.
LEMMA AcknowledgeHookTurns ==
  ASSUME Inv, TurnsKept, NEW s \in Sides, AcknowledgeHook(s) PROVE TurnsKept'
<1> DEFINE p == Peer(s)
           granted == IF com[s].received_acknowledge THEN {waiting[s]} \cap Ids ELSE {}
<1>1. p \in Sides /\ p # s /\ Peer(p) = s /\ \A q \in Sides : q = s \/ q = p
  BY PeerFacts
<1>2. pc[s] = "acknowledge" /\ Cycle(s) /\ Always(s) /\ Books(s)
  <2>1. Place("cycle", s)
    BY DEF AcknowledgeHook, At, Place
  <2> QED BY <2>1 DEF AcknowledgeHook, At, Inv, LinkInv, Places, Situation, TurnsKept
<1>3. (com[s].received_acknowledge <=> Asked(s) # {}) /\ Asked(s) \subseteq readLock[p]
  BY <1>2 DEF Cycle, Locked
<1>4. granted = Asked(s)
  BY <1>3 DEF Asked
<1>5. AcknowledgeError(s) = "none"
  <2>1. Asked(s) # {} => waiting[s] \notin readLock[s] /\ waiting[s] \notin transfer[s]
    BY <1>2 DEF Asked, Always, Books
  <2> QED BY <1>2, <1>3, <2>1 DEF Books, AcknowledgeError
<1>6. /\ transfer' = [transfer EXCEPT ![s] = @ \cup granted]
      /\ syncMe' = [syncMe EXCEPT ![s] = @ \ granted]
      /\ com' = [com EXCEPT ![s].acknowledgeRequested = FALSE]
      /\ waiting' = [waiting EXCEPT ![s] = NoId]
      /\ UNCHANGED <<lineVars, readLock, recv, send, pending, readStarted>>
      /\ UNCHANGED <<readAck, readFault, writeAck, writeFault, appVars, aborted>>
      /\ \E q \in {"scan", "out"} : pc' = [pc EXCEPT ![s] = q]
  BY <1>5 DEF AcknowledgeHook
<1> HIDE DEF granted
<1>7. OnlyAt("cycle", s)'
  <2>1. PICK q \in {"scan", "out"} : pc' = [pc EXCEPT ![s] = q]
    BY <1>6
  <2> QED BY <1>2, <1>6, <2>1, GoingOn DEF Phases
<1>8. /\ transfer'[s] = transfer[s] \cup Asked(s) /\ transfer'[p] = transfer[p]
      /\ syncMe'[s] = syncMe[s] \ Asked(s) /\ syncMe'[p] = syncMe[p]
      /\ com'[s].acknowledgeRequested = FALSE /\ com'[p] = com[p]
      /\ Asked(s)' = {} /\ Asked(p)' = Asked(p)
  <2>1. transfer'[s] = transfer[s] \cup Asked(s) /\ transfer'[p] = transfer[p]
    BY <1>1, <1>4, <1>6 DEF Inv, TypeInv, BlockType
  <2>2. syncMe'[s] = syncMe[s] \ Asked(s) /\ syncMe'[p] = syncMe[p]
    BY <1>1, <1>4, <1>6 DEF Inv, TypeInv, SwitchType
  <2>3. com'[s].acknowledgeRequested = FALSE /\ com'[p] = com[p]
    BY <1>1, <1>6 DEF Inv, TypeInv, SignalType, ComType
  <2>4. Asked(s)' = {} /\ Asked(p)' = Asked(p)
    BY <1>1, <1>6, IdFacts DEF Asked, Inv, TypeInv, LoopType
  <2> QED BY <2>1, <2>2, <2>3, <2>4
<1>9. OneStand'
  <2>1. ASSUME NEW i \in Asked(s) PROVE Only("moving", s, i)'
    <3>1. i \in syncMe[s] /\ i \in Ids /\ i \in readLock[p]
      BY <1>2, <1>3 DEF Books, Asked
    <3>2. Only("sync", s, i)
      <4>1. Has("sync", s, i)
        BY <3>1 DEF Has
      <4> QED BY <3>1, <4>1 DEF TurnsKept, OneStand, Only, Stands
    <3>3. i \notin readLock[s]
      BY <1>2 DEF Always
    <3> QED BY <1>1, <1>6, <1>8, <3>1, <3>2, <3>3 DEF Only, Has, Stands, appVars
  <2>2. ASSUME NEW i \in Ids \ Asked(s) PROVE \E k \in Stands, r \in Sides : Only(k, r, i)'
    <3>1. \A k \in Stands, r \in Sides : Has(k, r, i)' <=> Has(k, r, i)
      BY <1>1, <1>6, <1>8 DEF Has, Stands, appVars
    <3>2. PICK k \in Stands, r \in Sides : Only(k, r, i)
      BY DEF TurnsKept, OneStand
    <3>3. Only(k, r, i)'
      BY <3>1, <3>2 DEF Only
    <3> QED BY <3>3
  <2> QED BY <2>1, <2>2 DEF OneStand, Stands
<1>10. Books(s)'
  BY <1>2, <1>6, <1>8 DEF Books, appVars
<1>11. Books(p)'
  BY <1>1, <1>6, <1>8 DEF TurnsKept, Books, appVars
<1> QED BY <1>1, <1>6, <1>7, <1>9, <1>10, <1>11, CycleTurns DEF appVars

-----------------------------------------------------------------------------
(* The sextets that are sent.                                              *)

LEMMA DataTurns ==
  ASSUME Inv, TurnsKept, NEW s \in Sides, NEW b, pc[s] = "out", EndCycle(s, b), b.kind = "data",
         b.pos = 0 => b.val = obj[s][b.id],
         send'[s].lock /\ send'[s].pos = 0 /\ send'[s].count > 0
           => send'[s].val = obj[s][send'[s].origin],
         send'[Peer(s)] = send[Peer(s)],
         \A r \in Sides : /\ transfer'[r] \subseteq transfer[r]
                          /\ transfer[r] \cup writeAck[r] \subseteq transfer'[r] \cup writeAck'[r],
         UNCHANGED <<waiting, com, readLock, recv, syncMe, pending, readAck, readFault>>,
         UNCHANGED <<readStarted, writeFault, appVars, aborted>>
  PROVE  TurnsKept'
<1>1. OnlyAt("ack", s)'
  BY PassPlaces DEF Inv, EndCycle, Ends, Passes
<1>2. Load(s, outBuf[s])'
  <2>1. outBuf'[s] = b
    BY DEF EndCycle, Inv, TypeInv, LineType
  <2> QED BY <2>1 DEF Load, appVars
<1>3. OneStand' /\ aborted' = "none"
  BY StandsStay DEF TurnsKept, appVars
<1>4. \A r \in Sides : Books(r)'
  BY DEF TurnsKept, Books, Asked, appVars
<1>5. \A r \in Sides : Copies(r)'
  BY PeerFacts DEF TurnsKept, Copies, appVars
<1>6. \A r \in Sides : Loads(r)'
  BY <1>1, <1>2, AckLoads
<1> QED BY <1>3, <1>4, <1>5, <1>6 DEF TurnsKept

\* The sextets but the last of a triple carry the object's first byte as it is now.
LEMMA SendSextetTurns ==
  ASSUME Inv, TurnsKept, NEW s \in Sides, pc[s] = "out", NEW w \in SendType,
         w.pos = 0 /\ w.count > 0 => w.val = obj[s][w.origin], SendSextet(s, w)
  PROVE  TurnsKept'
<1> PICK val, b : val = Carried(s, w) /\ b = Sextet(s, w.origin, w.pos, w.count, val)
  OBVIOUS
<1>1. w.pos = 0 => val = obj[s][w.origin]
  BY DEF Carried, SendType
<1>2. b.kind = "data" /\ b.pos = w.pos /\ b.id = w.origin /\ b.val = val
  BY DEF Sextet
<1>3. /\ EndCycle(s, b) /\ send' = [send EXCEPT ![s] = [w EXCEPT !.count = @ + 1, !.val = val]]
      /\ UNCHANGED <<waiting, com, readLock, transfer, recv, switchVars, appVars, aborted>>
  BY DEF SendSextet, signalVars
<1>4. send'[s] = [w EXCEPT !.count = @ + 1, !.val = val] /\ send'[Peer(s)] = send[Peer(s)]
  BY <1>3, PeerFacts DEF Inv, TypeInv, BlockType
<1>5. send'[s].pos = w.pos /\ send'[s].val = val /\ send'[s].origin = w.origin
  BY <1>4 DEF SendType
<1> QED BY <1>1, <1>2, <1>3, <1>4, <1>5, DataTurns DEF switchVars

LEMMA WriteTurns ==
  ASSUME Inv, TurnsKept, NEW s \in Sides, StartObject(s) \/ WriteObject(s) PROVE TurnsKept'
<1>1. Always(s) /\ send[s] \in SendType /\ transfer[s] \in SUBSET Ids /\ Copies(s)
  BY DEF Inv, LinkInv, TypeInv, BlockType, TurnsKept
<1>2. CASE StartObject(s)
  <2> DEFINE j == Lowest(transfer[s])
             w == [send[s] EXCEPT !.lock = TRUE, !.origin = j]
  <2>1. pc[s] = "out" /\ ~send[s].lock /\ transfer[s] # {}
    BY <1>2 DEF StartObject, Idle, At, WritesPending
  <2>2. j \in transfer[s] /\ j \in Ids
    BY <1>1, <2>1, LowestIn
  <2>3. StartObjectError(s, j) = "none"
    BY <1>1, <2>1, <2>2 DEF Always, StartObjectError
  <2>4. SendSextet(s, w)
    BY <1>2, <2>3 DEF StartObject
  <2>5. w \in SendType
    BY <1>1, <2>2, SendUpdates
  <2>6. w.count = 0
    BY <1>1, <2>1 DEF Always, SendType
  <2> HIDE DEF w
  <2> QED BY <2>1, <2>4, <2>5, <2>6, SendSextetTurns
<1>3. CASE WriteObject(s)
  BY <1>1, <1>3, SendSextetTurns DEF WriteObject, At, Copies
<1> QED BY <1>2, <1>3

\* The last sextet of an object makes the write one that was sent.
LEMMA WriteFourthTurns ==
  ASSUME Inv, TurnsKept, NEW s \in Sides, WriteFourth(s) PROVE TurnsKept'
<1> DEFINE w == send[s]
           ids == IF WriteEnds(w) THEN {w.origin} ELSE {}
<1>1. /\ w \in SendType /\ pc[s] = "out" /\ w.lock /\ w.count = 3 /\ Copies(s)
      /\ transfer \in [Sides -> SUBSET Ids] /\ writeAck \in [Sides -> SUBSET Ids]
  BY DEF WriteFourth, At, Inv, TypeInv, BlockType, SwitchType, TurnsKept
<1> PICK b : b = Sextet(s, w.origin, w.pos, 3, w.val)
  OBVIOUS
<1>2. b.kind = "data" /\ b.pos = w.pos /\ b.id = w.origin /\ b.val = w.val
  BY DEF Sextet
<1>3. b.pos = 0 => b.val = obj[s][b.id]
  BY <1>1, <1>2 DEF Copies
<1>4. /\ EndCycle(s, b) /\ EmitSent(s, ids)
      /\ send' = [send EXCEPT ![s] =
                    IF WriteEnds(w)
                    THEN [w EXCEPT !.lock = FALSE, !.pos = 0, !.count = 0, !.val = 0]
                    ELSE [w EXCEPT !.pos = @ + 1, !.count = 0, !.val = 0]]
      /\ transfer' = [transfer EXCEPT ![s] = @ \ ids]
      /\ UNCHANGED <<waiting, com, readLock, recv, syncMe, pending, readAck, readFault>>
      /\ UNCHANGED <<readStarted, writeFault, appVars, aborted>>
  BY <1>1 DEF WriteFourth, signalVars
<1>5. send'[s].count = 0 /\ send'[Peer(s)] = send[Peer(s)]
  <2>1. /\ send'[s] = IF WriteEnds(w)
                      THEN [w EXCEPT !.lock = FALSE, !.pos = 0, !.count = 0, !.val = 0]
                      ELSE [w EXCEPT !.pos = @ + 1, !.count = 0, !.val = 0]
        /\ send'[Peer(s)] = send[Peer(s)]
    BY <1>4, PeerFacts DEF Inv, TypeInv, BlockType
  <2> QED BY <1>1, <2>1 DEF SendType
<1>6. \A r \in Sides : /\ transfer'[r] \subseteq transfer[r]
                       /\ transfer[r] \cup writeAck[r] \subseteq transfer'[r] \cup writeAck'[r]
  BY <1>1, <1>4 DEF EmitSent
<1> QED BY <1>1, <1>2, <1>3, <1>4, <1>5, <1>6, DataTurns

-----------------------------------------------------------------------------
(* The wire, the applications and the resolvers.                           *)

LEMMA WireTurns ==
  ASSUME Inv, TurnsKept, NEW s \in Sides, Wire(s) PROVE TurnsKept'
<1>1. OnlyAt("ack", s) /\ OnlyAt("updated", Peer(s))'
  BY PassPlaces DEF Inv, Wire, Carries, Passes, loopVars
<1>2. /\ UNCHANGED <<loopVars, signalVars, blockVars, switchVars, appVars, aborted>>
      /\ inBuf'[Peer(s)] = outBuf[s]
  BY PeerFacts DEF Wire, Inv, TypeInv, LineType
<1>3. Load(s, outBuf[s])
  <2>1. flagAck[s]
    BY DEF Wire
  <2> QED BY <2>1 DEF TurnsKept, Loads
<1>4. Load(s, inBuf[Peer(s)])'
  BY <1>2, <1>3, QuietStays DEF Load, appVars, signalVars
<1>5. \A r \in Sides : Loads(r)'
  <2>1. \A r \in Sides : ~flagAck'[r] /\ (flagUpdated'[r] => r = Peer(s))
    BY <1>1 DEF OnlyAt, Place, Places
  <2> QED BY <1>4, <2>1, PeerFacts DEF Loads
<1>6. OneStand' /\ aborted' = "none"
  BY <1>2, StandsStay DEF TurnsKept, blockVars, switchVars, appVars
<1>7. \A r \in Sides : Books(r)' /\ Copies(r)'
  BY <1>2, BooksStay, CopiesStay
     DEF TurnsKept, Asked, loopVars, signalVars, blockVars, switchVars, appVars
<1> QED BY <1>5, <1>6, <1>7 DEF TurnsKept

LEMMA WireStartTurns ==
  ASSUME Inv, TurnsKept, WireStart PROVE TurnsKept'
<1>1. firstRun["fpga"] /\ Nowhere
  BY DEF Inv, LinkInv, TurnInv, WireStart
<1>2. /\ UNCHANGED <<inBuf, outBuf, flagAck, loopVars, signalVars, blockVars, switchVars>>
      /\ UNCHANGED <<appVars, aborted>> /\ flagUpdated' = [flagUpdated EXCEPT !["fpga"] = TRUE]
  BY DEF WireStart
<1>3. \A r \in Sides : Loads(r)'
  BY <1>1, <1>2 DEF Nowhere, Place, Places, Loads, loopVars, Inv, TypeInv, LineType
<1>4. OneStand' /\ aborted' = "none"
  BY <1>2, StandsStay DEF TurnsKept, blockVars, switchVars, appVars
<1>5. \A r \in Sides : Books(r)' /\ Copies(r)'
  BY <1>2, BooksStay, CopiesStay
     DEF TurnsKept, Asked, loopVars, signalVars, blockVars, switchVars, appVars
<1> QED BY <1>3, <1>4, <1>5 DEF TurnsKept

\* A sextet of an object is under way only while the peer has it read-locked.
LEMMA Laden ==
  ASSUME Inv, NEW s \in Sides, NEW b,
         \/ flagAck[s] /\ b = outBuf[s]
         \/ flagUpdated[Peer(s)] /\ ~firstRun[Peer(s)] /\ b = inBuf[Peer(s)],
         b.kind = "data"
  PROVE  b.id \in readLock[Peer(s)]
<1>1. Sent(s, b)
  <2>1. CASE flagAck[s] /\ b = outBuf[s]
    BY <2>1 DEF Inv, LinkInv, Situation, Place, Places
  <2>2. CASE flagUpdated[Peer(s)] /\ ~firstRun[Peer(s)] /\ b = inBuf[Peer(s)]
    BY <2>2, PeerFacts DEF Inv, LinkInv, Situation, Place, Places
  <2> QED BY <2>1, <2>2
<1> QED BY <1>1 DEF Sent, Locked

\* Who has the turn finds no older write of its own still pending, and changes no copy that is
\* under way.
LEMMA WriteStartTurns ==
  ASSUME Inv, TurnsKept, ~FreeWrites, NEW s \in Sides, NEW j \in Ids, WriteStart(s, j)
  PROVE  TurnsKept'
<1> DEFINE p == Peer(s)
<1>1. p \in Sides /\ p # s /\ Peer(p) = s /\ \A q \in Sides : q = s \/ q = p
  BY PeerFacts
<1>2. j \in turn[s] /\ j \notin pending[s]
  BY DEF WriteStart, MayWrite, TurnsKept, Books
<1>3. Only("turn", s, j)
  <2>1. Has("turn", s, j)
    BY <1>2 DEF Has
  <2> QED BY <2>1 DEF TurnsKept, OneStand, Only, Stands
<1>4. /\ obj' = [obj EXCEPT ![s][j] = writes + 1] /\ writes' = writes + 1
      /\ pending' = [pending EXCEPT ![s] = @ \cup {j}]
      /\ syncMe' = [syncMe EXCEPT ![s] = @ \cup {j}]
      /\ turn' = [turn EXCEPT ![s] = @ \ {j}]
      /\ UNCHANGED <<readStarted, readAck, readFault, writeAck, writeFault, life>>
      /\ UNCHANGED <<lineVars, loopVars, signalVars, blockVars, aborted>>
  BY <1>2 DEF WriteStart
<1>5. j \notin readLock[s] /\ j \notin readLock[p] /\ j \notin transfer[s]
  BY <1>1, <1>3, LockFacts DEF Only, Stands
<1>6. /\ pending'[s] = pending[s] \cup {j} /\ pending'[p] = pending[p]
      /\ syncMe'[s] = syncMe[s] \cup {j} /\ syncMe'[p] = syncMe[p]
      /\ turn'[s] = turn[s] \ {j} /\ turn'[p] = turn[p]
  BY <1>1, <1>4 DEF Inv, TypeInv, SwitchType, AppType
<1>7. /\ obj'[p] = obj[p] /\ writes \in Nat /\ obj[s] \in [Ids -> Nat] /\ obj[p] \in [Ids -> Nat]
      /\ obj'[s] = [obj[s] EXCEPT ![j] = writes + 1]
  BY <1>1, <1>4, LinkAssumption DEF Inv, TypeInv, AppType
<1>8. OneStand'
  <2>1. Only("sync", s, j)'
    BY <1>1, <1>3, <1>4, <1>5, <1>6 DEF Only, Has, Stands, blockVars
  <2>2. ASSUME NEW i \in Ids \ {j} PROVE \E k \in Stands, r \in Sides : Only(k, r, i)'
    <3>1. \A k \in Stands, r \in Sides : Has(k, r, i)' <=> Has(k, r, i)
      BY <1>1, <1>4, <1>6 DEF Has, Stands, blockVars
    <3>2. PICK k \in Stands, r \in Sides : Only(k, r, i)
      BY DEF TurnsKept, OneStand
    <3>3. Only(k, r, i)'
      BY <3>1, <3>2 DEF Only
    <3> QED BY <3>3
  <2> QED BY <2>1, <2>2 DEF OneStand, Stands
<1>9. Books(s)' /\ Books(p)'
  <2>1. Books(s) /\ Books(p)
    BY <1>1 DEF TurnsKept
  <2>2. Books(s)'
    BY <1>1, <1>4, <1>5, <1>6, <2>1 DEF Books, Asked, loopVars, signalVars, blockVars
  <2>3. Books(p)'
    BY <1>1, <1>4, <1>5, <1>6, <2>1 DEF Books, Asked, loopVars, signalVars, blockVars
  <2> QED BY <2>2, <2>3
<1>10. Copies(s)' /\ Copies(p)'
  <2>1. Copies(s) /\ Copies(p) /\ Always(s)
    BY <1>1 DEF TurnsKept, Inv, LinkInv
  <2>2. /\ send[s].lock => send[s].origin # j
        /\ recv[p].lock => recv[p].dest # j
        /\ recv[s].lock => recv[s].dest # j
    BY <1>1, <1>5, <2>1, LockFacts DEF Always
  <2>3. \A i : i # j => obj'[s][i] = obj[s][i]
    BY <1>7
  <2>4. \A i \in Ids : obj'[s][i] <= writes' /\ obj'[p][i] <= writes'
    BY <1>4, <1>7, <2>1 DEF Copies
  <2>5. Copies(s)'
    BY <1>1, <1>4, <1>7, <2>1, <2>2, <2>3, <2>4 DEF Copies, blockVars
  <2>6. Copies(p)'
    BY <1>1, <1>4, <1>7, <2>1, <2>2, <2>3, <2>4 DEF Copies, blockVars
  <2> QED BY <2>5, <2>6
<1>11. ASSUME NEW r \in Sides PROVE Loads(r)'
  <2>1. Quiet' = Quiet
    BY <1>4, QuietStays DEF signalVars
  <2>2. ASSUME NEW q \in Sides, NEW b, Load(q, b), b.kind = "data" => b.id \in readLock[Peer(q)]
        PROVE  Load(q, b)'
    <3>1. b.kind = "data" /\ q = s => b.id # j
      BY <1>5, <2>2
    <3>2. \A i : i # j => obj'[s][i] = obj[s][i]
      BY <1>7
    <3>3. b.kind = "data" => obj'[q][b.id] = obj[q][b.id]
      BY <1>1, <1>7, <3>1, <3>2
    <3> QED BY <2>1, <2>2, <3>3 DEF Load
  <2> PICK b, c : b = outBuf[r] /\ c = inBuf[r]
    OBVIOUS
  <2>3. outBuf'[r] = b /\ inBuf'[r] = c /\ UNCHANGED <<flagAck, flagUpdated, firstRun>>
    BY <1>4 DEF lineVars, loopVars
  <2>4. flagAck[r] => Load(r, b)'
    BY <2>2, Laden DEF TurnsKept, Loads
  <2>5. flagUpdated[r] /\ ~firstRun[r] => Load(Peer(r), c)'
    BY <2>2, Laden, PeerFacts DEF TurnsKept, Loads
  <2> QED BY <2>3, <2>4, <2>5 DEF Loads
<1>12. aborted' = "none"
  BY <1>4 DEF TurnsKept
<1> QED BY <1>1, <1>8, <1>9, <1>10, <1>11, <1>12 DEF TurnsKept

LEMMA ResolveTurns ==
  ASSUME Inv, TurnsKept, NEW s \in Sides, NEW j \in Ids, Resolve(s, j) PROVE TurnsKept'
<1> DEFINE p == Peer(s)
<1>1. p \in Sides /\ p # s /\ Peer(p) = s /\ \A q \in Sides : q = s \/ q = p
  BY PeerFacts
<1>2. ResolveError(s, j) = "none" /\ readAck[s] \cap readLock[s] = {}
  BY DEF Resolve, ResolveError, TurnsKept, Books
<1>3. /\ readAck' = [readAck EXCEPT ![s] = @ \ {j}]
      /\ writeAck' = [writeAck EXCEPT ![s] = @ \ {j}]
      /\ turn' = [turn EXCEPT ![s] = @ \cup (readAck[s] \cap {j})]
      /\ pending' = [pending EXCEPT ![s] = @ \ (writeAck[s] \cap {j})]
      /\ UNCHANGED <<readStarted, syncMe, readFault, writeFault, obj, writes, life>>
      /\ UNCHANGED <<lineVars, loopVars, signalVars, blockVars, aborted>>
  BY <1>2 DEF Resolve
<1>4. /\ readAck'[s] = readAck[s] \ {j} /\ readAck'[p] = readAck[p]
      /\ writeAck'[s] = writeAck[s] \ {j} /\ writeAck'[p] = writeAck[p]
      /\ turn'[s] = turn[s] \cup (readAck[s] \cap {j}) /\ turn'[p] = turn[p]
      /\ pending'[s] = pending[s] \ (writeAck[s] \cap {j}) /\ pending'[p] = pending[p]
  BY <1>1, <1>3 DEF Inv, TypeInv, SwitchType, AppType
<1>5. j \in readAck[s] => Only("read", s, j)
  <2>1. j \in readAck[s] => Has("read", s, j)
    BY <1>2 DEF Has
  <2> QED BY <2>1 DEF TurnsKept, OneStand, Only, Stands
<1>6. OneStand'
  <2>1. j \in readAck[s] => Only("turn", s, j)'
    BY <1>1, <1>3, <1>4, <1>5 DEF Only, Has, Stands, blockVars
  <2>2. ASSUME NEW i \in Ids, i # j \/ j \notin readAck[s]
        PROVE \E k \in Stands, r \in Sides : Only(k, r, i)'
    <3>1. \A k \in Stands, r \in Sides : Has(k, r, i)' <=> Has(k, r, i)
      BY <1>1, <1>3, <1>4, <2>2 DEF Has, Stands, blockVars
    <3>2. PICK k \in Stands, r \in Sides : Only(k, r, i)
      BY DEF TurnsKept, OneStand
    <3>3. Only(k, r, i)'
      BY <3>1, <3>2 DEF Only
    <3> QED BY <3>3
  <2> QED BY <2>1, <2>2 DEF OneStand, Stands
<1>7. Books(s)' /\ Books(p)'
  <2>1. Books(s) /\ Books(p) /\ transfer[s] \subseteq readLock[p]
    BY <1>1, LockFacts DEF TurnsKept
  <2>2. j \in readAck[s] => j \notin syncMe[s] /\ j \notin transfer[s]
    BY <1>1, <1>5, <2>1 DEF Only, Has, Stands
  <2>3. Books(s)'
    BY <1>1, <1>3, <1>4, <2>1, <2>2 DEF Books, Asked, loopVars, signalVars, blockVars
  <2>4. Books(p)'
    BY <1>1, <1>3, <1>4, <2>1 DEF Books, Asked, loopVars, signalVars, blockVars
  <2> QED BY <2>3, <2>4
<1>8. ASSUME NEW r \in Sides PROVE Copies(r)' /\ Loads(r)'
  <2>1. Quiet' = Quiet
    BY <1>3, QuietStays DEF signalVars
  <2>2. Loads(r)'
    BY <1>3, <2>1 DEF TurnsKept, Loads, Load, lineVars, loopVars
  <2> QED BY <1>3, <2>2, CopiesStay DEF TurnsKept, blockVars
<1>9. aborted' = "none"
  BY <1>3 DEF TurnsKept
<1> QED BY <1>1, <1>6, <1>7, <1>8, <1>9 DEF TurnsKept

\* Once the FPGA has sent its hang-up, nothing is half transferred in either direction.
LEMMA Hushed ==
  ASSUME Inv, Chain, com["fpga"].sent_sighup, NEW s \in Sides
  PROVE  /\ readLock[s] = {} /\ transfer[s] = {}
         /\ ~recv[s].lock /\ recv[s].count = 0 /\ ~send[s].lock /\ send[s].count = 0
<1> DEFINE p == Peer(s)
<1>1. p \in Sides /\ Peer(p) = s /\ \A r \in Sides : r = s \/ r = p
  BY PeerFacts
<1>2. /\ com["fpga"].received_com_shutdown /\ readLock["fpga"] = {}
      /\ \A kind \in Kinds : Under("fpga", kind) => kind = "sighup"
  BY DEF Chain, Halted
<1>3. transfer["fpga"] = {} /\ Asked("fpga") = {}
  <2>1. Told("fpga") /\ Told("mcu") /\ Follows /\ Silent("fpga")
    BY DEF Chain, Sides
  <2> QED BY <1>2, <2>1 DEF Told, Follows, Silent, Peer
<1>4. ASSUME NEW r \in Sides, NEW b, Sent(r, b), Under(r, b.kind), b.kind \in Kinds
      PROVE  b.kind # "data"
  <2>1. CASE r = "fpga"
    BY <1>2, <1>4, <2>1
  <2>2. CASE r = "mcu"
    BY <1>2, <1>4, <2>2 DEF Sent, Locked, Peer
  <2> QED BY <2>1, <2>2 DEF Sides
<1>5. /\ \A r \in Sides : InStep(r)
      /\ readLock["mcu"] \subseteq transfer["fpga"] \cup Asked("fpga")
  <2>1. Peer("fpga") = "mcu" /\ Peer("mcu") = "fpga"
    BY DEF Peer
  <2>2. ASSUME NEW r \in Sides, Cycle(r)
        PROVE  /\ \A q \in Sides : InStep(q)
               /\ readLock["mcu"] \subseteq transfer["fpga"] \cup Asked("fpga")
    BY <2>1, <2>2 DEF Cycle, Locked, Sides
  <2>3. ASSUME NEW r \in Sides, NEW b, Sent(r, b), b.kind # "data"
        PROVE  /\ \A q \in Sides : InStep(q)
               /\ readLock["mcu"] \subseteq transfer["fpga"] \cup Asked("fpga")
    BY <2>1, <2>3 DEF Sent, Locked, Sides
  <2>4. ASSUME NEW r \in Sides, OnlyAt("ack", r), Sent(r, outBuf[r]) PROVE outBuf[r].kind # "data"
    <3>1. Under(r, outBuf[r].kind) /\ outBuf[r].kind \in Kinds
      BY <2>4 DEF OnlyAt, Place, Places, Under, Inv, TypeInv, LineType, Bytes
    <3> QED BY <1>4, <2>4, <3>1
  <2>5. ASSUME NEW r \in Sides, OnlyAt("updated", r), Sent(Peer(r), inBuf[r])
        PROVE  inBuf[r].kind # "data"
    <3>1. Under(Peer(r), inBuf[r].kind) /\ inBuf[r].kind \in Kinds
      BY <2>5, PeerFacts DEF OnlyAt, Place, Places, Under, Inv, TypeInv, LineType, Bytes
    <3> QED BY <1>4, <2>5, <3>1, PeerFacts
  <2>6. Quiet => (\A q \in Sides : InStep(q)) /\ readLock["mcu"] = {}
    BY DEF Quiet, Sides
  <2> QED BY <2>2, <2>3, <2>4, <2>5, <2>6, Cases, PeerFacts
<1>6. readLock[s] = {} /\ readLock[p] = {} /\ transfer[s] = {} /\ transfer[p] = {}
  <2>1. transfer["mcu"] \subseteq readLock["fpga"]
    BY InvAgrees DEF TransfersAgree, Sides, Peer
  <2> QED BY <1>1, <1>2, <1>3, <1>5, <2>1 DEF Sides
<1>7. \A r \in Sides : ~send[r].lock /\ send[r].count = 0
  BY <1>1, <1>6 DEF Inv, LinkInv, Always
<1>8. ~recv[s].lock /\ recv[s].count = 0
  BY <1>1, <1>5, <1>7 DEF InStep
<1> QED BY <1>6, <1>7, <1>8

\* The destructors wait for the hang-up, which leaves nothing to be read.
LEMMA DestroyTurns ==
  ASSUME Inv, Chain, TurnsKept, DeleteFpga \/ DeleteMcu \/ \E s \in Sides : Destroy(s)
  PROVE  TurnsKept'
<1>1. com \in [Sides -> ComType] /\ life \in [Sides -> {"alive", "deleting", "gone"}]
  BY DEF Inv, TypeInv, SignalType, AppType
<1>2. ASSUME UNCHANGED <<lineVars, loopVars, acknowledging, blockVars, obj, writes, aborted>>,
             OneStand', \A r \in Sides : Books(r)'
      PROVE  TurnsKept'
  <2>1. \A r \in Sides : Copies(r)' /\ Loads(r)'
    BY <1>2, CopiesStay, QuietStays DEF TurnsKept, Loads, Load, lineVars, loopVars, blockVars
  <2> QED BY <1>2, <2>1 DEF TurnsKept
<1>3. CASE DeleteFpga
  <2>1. /\ EmitInterrupted("fpga") /\ life' = [life EXCEPT !["fpga"] = "deleting"]
        /\ com' = [com EXCEPT !["fpga"].descendants_notified = TRUE]
        /\ UNCHANGED <<lineVars, loopVars, acknowledging, blockVars, obj, turn, writes, aborted>>
    BY <1>3 DEF DeleteFpga
  <2>2. /\ life'["fpga"] # "alive" /\ \A r \in Sides : life'[r] = "alive" => life[r] = "alive"
        /\ \A r \in Sides : com'[r].acknowledgeRequested = com[r].acknowledgeRequested
    BY <1>1, <2>1 DEF ComType, Sides
  <2>3. OneStand' /\ \A r \in Sides : Books(r)'
    BY <2>1, <2>2, InterruptTurns DEF loopVars, blockVars, Sides
  <2> QED BY <1>2, <2>1, <2>3
<1>4. ASSUME NEW s \in Sides, life' = [life EXCEPT ![s] = life'[s]], life'[s] # "alive",
             UNCHANGED <<lineVars, loopVars, signalVars, blockVars, switchVars>>,
             UNCHANGED <<obj, turn, writes, aborted>>
      PROVE  TurnsKept'
  <2>1. \A r \in Sides : life'[r] = "alive" => life[r] = "alive"
    BY <1>1, <1>4
  <2>2. OneStand' /\ \A r \in Sides : Books(r)'
    BY <1>4, <2>1, StandsStay, BooksStay
       DEF TurnsKept, Asked, loopVars, signalVars, blockVars, switchVars
  <2> QED BY <1>2, <1>4, <2>2 DEF signalVars
<1>5. CASE DeleteMcu
  <2>1. life' = [life EXCEPT !["mcu"] = life'["mcu"]] /\ life'["mcu"] # "alive"
    BY <1>1, <1>5 DEF DeleteMcu, Sides
  <2> QED BY <1>4, <1>5, <2>1 DEF DeleteMcu, Sides
<1>6. ASSUME NEW s \in Sides, Destroy(s) PROVE TurnsKept'
  <2>1. com["fpga"].sent_sighup
    <3>1. com[s].sent_sighup /\ Follows /\ Told("fpga")
      BY <1>6 DEF Destroy, Chain, Sides
    <3> QED BY <3>1 DEF Follows, Told, Sides, Peer
  <2>2. readLock[s] = {}
    BY <2>1, Hushed
  <2>3. /\ life' = [life EXCEPT ![s] = "gone"]
        /\ UNCHANGED <<lineVars, loopVars, signalVars, blockVars, switchVars>>
        /\ UNCHANGED <<obj, turn, writes, aborted>>
    BY <1>6, <2>2 DEF Destroy, ReadsPending
  <2>4. life' = [life EXCEPT ![s] = life'[s]] /\ life'[s] # "alive"
    BY <1>1, <2>3
  <2> QED BY <1>4, <2>3, <2>4
<1> QED BY <1>3, <1>5, <1>6

LEMMA TurnsInductive ==
  ASSUME Inv, Chain, TurnsKept, [Next]_vars, ~FreeWrites PROVE TurnsKept'
<1>1. ASSUME NEW s \in Sides, EventLoop(s) PROVE TurnsKept'
  BY <1>1, FirstCycleTurns, ReadTurns, ReadCodesTurns, ReadObjectTurns, TransferHookTurns,
     AcknowledgeHookTurns, ScanTurns, SendCodesTurns, WriteTurns, WriteFourthTurns, SendIdleTurns
     DEF EventLoop
<1>2. CASE Application
  BY <1>2, WriteStartTurns DEF Application
<1>3. ASSUME NEW s \in Sides, Resolver(s) PROVE TurnsKept'
  BY <1>3, ResolveTurns DEF Resolver
<1>4. CASE UNCHANGED vars
  <2>1. UNCHANGED <<lineVars, loopVars, signalVars, blockVars, switchVars, appVars, aborted>>
    BY <1>4 DEF vars
  <2>2. \A r \in Sides : Books(r)' /\ Copies(r)' /\ Loads(r)'
    BY <2>1, BooksStay, CopiesStay, QuietStays DEF TurnsKept, Asked, Loads, Load, lineVars,
       loopVars, signalVars, blockVars, switchVars, appVars
  <2> QED BY <2>1, <2>2, StandsStay DEF TurnsKept, blockVars, switchVars, appVars
<1> QED BY <1>1, <1>2, <1>3, <1>4, DestroyTurns, WireTurns, WireStartTurns DEF Next, Terminated

LEMMA TurnsHold ==
  ASSUME DeleteWhen = "never" \/ NumIds = 1, ~FreeWrites PROVE Spec => [](Inv /\ Chain /\ TurnsKept)
<1>1. Init => TurnsKept
  BY TurnsInitially
<1>2. Inv /\ Chain /\ TurnsKept /\ [Next]_vars => TurnsKept'
  BY TurnsInductive
<1> QED BY <1>1, <1>2, ChainHolds, PTL DEF Spec

\* While the applications take turns, none of the twenty errors that the protocol, the resolver
\* and the destructor check for ever occurs: with any number of objects while nobody is destroyed,
\* and with one object destroyed at any moment.
THEOREM ErrorFree ==
  ASSUME DeleteWhen = "never" \/ NumIds = 1, ~FreeWrites PROVE Spec => []NoAbort
<1>1. TurnsKept => NoAbort
  BY DEF TurnsKept, NoAbort
<1> QED BY <1>1, TurnsHold, PTL

\* The FPGA's loop stops with its hang-up (handshake_query), and nothing is half transferred in
\* either direction then, although the FPGA was destroyed in the middle of anything.
THEOREM HangUpClean ==
  ASSUME DeleteWhen = "never" \/ NumIds = 1, ~FreeWrites PROVE Spec => []SighupClean
<1>1. Inv /\ Chain /\ TurnsKept => SighupClean
  <2> SUFFICES ASSUME Inv, Chain, TurnsKept PROVE SighupClean
    OBVIOUS
  <2> QED BY Hushed DEF TurnsKept, NoAbort, SighupClean
<1> QED BY <1>1, TurnsHold, PTL

-----------------------------------------------------------------------------
(* The mirror.                                                             *)

MirrorWriter == [j \in Ids |-> IF Writers(j) = {} THEN "none" ELSE CHOOSE s \in Writers(j) : TRUE]
MirrorOwner == [j \in Ids |-> CHOOSE s \in Owners(j) : TRUE]

\* How the sides stand to an object is what the mirror knows of it.
View ==
  \A j \in Ids, k \in Stands, s \in Sides : Only(k, s, j) =>
    /\ MirrorWriter[j] = IF k \in {"sync", "moving"} THEN s ELSE "none"
    /\ MirrorOwner[j] = s

LEMMA Viewed == Inv /\ TurnsKept => View
<1> SUFFICES ASSUME Inv, TurnsKept, NEW j \in Ids, NEW k \in Stands, NEW s \in Sides, Only(k, s, j)
             PROVE  /\ MirrorWriter[j] = IF k \in {"sync", "moving"} THEN s ELSE "none"
                    /\ MirrorOwner[j] = s
  BY DEF View
<1>1. \A r \in Sides : j \in transfer[r] => j \in readLock[Peer(r)]
  BY LockFacts
<1>2. \A r \in Sides : r \in Writers(j) <=> Has("sync", r, j) \/ Has("moving", r, j)
  BY <1>1 DEF Writers, Has
<1>3. Writers(j) = IF k \in {"sync", "moving"} THEN {s} ELSE {}
  BY <1>2 DEF Only, Stands, Writers
<1>4. \A r \in Sides : r \in Owners(j) <=>
        Has("sync", r, j) \/ Has("moving", r, j) \/ Has("read", r, j) \/ Has("turn", r, j)
  BY <1>2 DEF Owners, Writers, Has
<1>5. Owners(j) = {s}
  BY <1>4 DEF Only, Stands, Owners, Writers
<1>6. MirrorOwner[j] = s
  BY <1>5 DEF MirrorOwner
<1>7. CASE k \in {"sync", "moving"}
  BY <1>3, <1>6, <1>7 DEF MirrorWriter
<1>8. CASE k \notin {"sync", "moving"}
  BY <1>3, <1>6, <1>8 DEF MirrorWriter
<1> QED BY <1>7, <1>8

\* A step that the mirror does not see: s goes on from asking to sending, or from having
\* received to having the turn.
Stays(j) ==
  \A k \in Stands, s \in Sides : Only(k, s, j) =>
    \/ Has(k, s, j)'
    \/ k = "sync" /\ Has("moving", s, j)'
    \/ k = "read" /\ Has("turn", s, j)'

LEMMA MirrorStays ==
  ASSUME TurnsKept, TurnsKept', View, View', NEW j \in Ids, Stays(j)
  PROVE  MirrorWriter'[j] = MirrorWriter[j] /\ MirrorOwner'[j] = MirrorOwner[j]
<1>1. PICK k \in Stands, s \in Sides : Only(k, s, j)
  BY DEF TurnsKept, OneStand
<1>2. PICK l \in Stands :
        Has(l, s, j)' /\ (l = k \/ (k = "sync" /\ l = "moving") \/ (k = "read" /\ l = "turn"))
  BY <1>1 DEF Stays, Stands
<1>3. Only(l, s, j)'
  BY <1>2 DEF TurnsKept, OneStand, Only
<1>4. MirrorWriter[j] = (IF k \in {"sync", "moving"} THEN s ELSE "none") /\ MirrorOwner[j] = s
  BY <1>1 DEF View
<1>5. MirrorWriter'[j] = (IF l \in {"sync", "moving"} THEN s ELSE "none") /\ MirrorOwner'[j] = s
  BY <1>3 DEF View
<1> QED BY <1>2, <1>4, <1>5

LEMMA MirrorStutters ==
  ASSUME TurnsKept, TurnsKept', View, View', \A j \in Ids : Stays(j), obj' = obj
  PROVE  UNCHANGED MirrorOf!mirrorVars
<1>1. \A j \in Ids : MirrorWriter'[j] = MirrorWriter[j] /\ MirrorOwner'[j] = MirrorOwner[j]
  BY MirrorStays
<1>2. MirrorWriter' = MirrorWriter /\ MirrorOwner' = MirrorOwner
  BY <1>1 DEF MirrorWriter, MirrorOwner
<1> QED BY <1>2 DEF MirrorOf!mirrorVars, MirrorWriter, MirrorOwner

LEMMA HookStays ==
  ASSUME Inv, Inv', TurnsKept, TurnsKept', NEW s \in Sides,
         TransferHook(s) \/ AcknowledgeHook(s), NEW j \in Ids
  PROVE  Stays(j)
<1>1. /\ readLock \in [Sides -> SUBSET Ids] /\ syncMe \in [Sides -> SUBSET Ids]
      /\ transfer \in [Sides -> SUBSET Ids] /\ writeFault \in [Sides -> SUBSET Ids]
  BY DEF Inv, TypeInv, BlockType, SwitchType
<1>2. CASE UNCHANGED <<turn, syncMe, readLock, readAck>>
  BY <1>2 DEF Stays, Only, Has
<1>3. CASE /\ pc[s] = "transfer" /\ incoming[s] \in Ids /\ incoming[s] # waiting[s]
           /\ UNCHANGED <<turn, readAck>> /\ EmitReadlocked(s, incoming[s])
           /\ readLock' = [readLock EXCEPT ![s] = @ \cup {incoming[s]}]
  <2>1. syncMe[s] \cap {incoming[s]} = {}
    <3>1. writeFault'[s] = {}
      BY DEF TurnsKept, Books
    <3> QED BY <1>1, <1>3, <3>1 DEF EmitReadlocked
  <2>2. syncMe' = syncMe
    BY <1>1, <1>3, <2>1 DEF EmitReadlocked
  <2>3. \A r \in Sides : readLock[r] \subseteq readLock'[r]
    BY <1>1, <1>3
  <2>4. ASSUME NEW k \in Stands, NEW r \in Sides, Only(k, r, j) PROVE Has(k, r, j)'
    <3>1. Has(k, r, j)
      BY <2>4 DEF Only
    <3>2. readLock[Peer(r)] \subseteq readLock'[Peer(r)]
      BY <2>3, PeerFacts
    <3>3. k = "read" => readLock'[r] \subseteq readLock[r] \cup (Ids \ {j})
      <4>1. Only("sync", Peer(s), incoming[s])
        BY <1>3, Granted
      <4>2. k = "read" => incoming[s] # j
        BY <2>4, <4>1, PeerFacts DEF Only, Stands
      <4> QED BY <1>1, <1>3, <4>2
    <3> QED BY <1>3, <2>2, <3>1, <3>2, <3>3 DEF Has, Stands
  <2> QED BY <2>4 DEF Stays
<1>4. CASE /\ AcknowledgeHook(s) /\ UNCHANGED <<turn, readAck, readLock>>
           /\ \E granted : /\ syncMe' = [syncMe EXCEPT ![s] = @ \ granted]
                           /\ transfer' = [transfer EXCEPT ![s] = @ \cup granted]
  <2>1. \A r \in Sides : syncMe[r] \subseteq syncMe'[r] \cup transfer'[r]
    BY <1>1, <1>4
  <2>2. \A r \in Sides : syncMe'[r] \subseteq syncMe[r]
    BY <1>1, <1>4
  <2>3. \A r \in Sides : transfer'[r] \subseteq readLock'[Peer(r)]
    <3>1. Inv' => TransfersAgree'
      BY InvAgrees, PTL
    <3> QED BY <3>1 DEF TransfersAgree
  <2>4. \A r \in Sides : syncMe'[r] \cap transfer'[r] = {}
    BY DEF TurnsKept, Books
  <2>5. ASSUME NEW k \in Stands, NEW r \in Sides, Only(k, r, j)
        PROVE  Has(k, r, j)' \/ (k = "sync" /\ Has("moving", r, j)')
    <3>1. Has(k, r, j)
      BY <2>5 DEF Only
    <3>2. CASE k = "sync"
      BY <2>1, <2>3, <2>4, <3>1, <3>2 DEF Has
    <3>3. CASE k # "sync"
      BY <1>4, <2>2, <3>1, <3>3 DEF Has, Stands
    <3> QED BY <3>2, <3>3
  <2> QED BY <2>5 DEF Stays
<1>5. CASE TransferHook(s)
  <2>1. CASE UNCHANGED <<blockVars, switchVars, appVars>>
    BY <1>2, <2>1 DEF blockVars, switchVars, appVars
  <2> QED BY <1>3, <1>5, <2>1 DEF TransferHook, At, EmitReadlocked, Abort, appVars
<1>6. CASE AcknowledgeHook(s)
  BY <1>2, <1>4, <1>6 DEF AcknowledgeHook, blockVars, switchVars, appVars, Abort
<1> QED BY <1>5, <1>6

LEMMA ResolveStays ==
  ASSUME Inv, NEW s \in Sides, NEW i \in Ids, Resolve(s, i), NEW j \in Ids
  PROVE  Stays(j)
<1>1. readAck \in [Sides -> SUBSET Ids] /\ turn \in [Sides -> SUBSET Ids]
  BY DEF Inv, TypeInv, SwitchType, AppType
<1>2. CASE UNCHANGED <<turn, syncMe, readLock, readAck>>
  BY <1>2 DEF Stays, Only, Has
<1>3. CASE /\ readAck' = [readAck EXCEPT ![s] = @ \ {i}] /\ UNCHANGED <<syncMe, readLock>>
           /\ turn' = [turn EXCEPT ![s] = @ \cup (readAck[s] \cap {i})]
  <2>1. \A r \in Sides : /\ turn[r] \subseteq turn'[r]
                         /\ readAck[r] \subseteq readAck'[r] \cup turn'[r]
    BY <1>1, <1>3
  <2>2. ASSUME NEW k \in Stands, NEW r \in Sides, Only(k, r, j)
        PROVE  Has(k, r, j)' \/ (k = "read" /\ Has("turn", r, j)')
    <3>1. Has(k, r, j)
      BY <2>2 DEF Only
    <3> QED BY <1>3, <2>1, <3>1 DEF Has, Stands
  <2> QED BY <2>2 DEF Stays
<1> QED BY <1>2, <1>3 DEF Resolve, Abort, blockVars, switchVars, appVars

\* A write is a write of the mirror.
LEMMA WriteMirrored ==
  ASSUME Inv, TurnsKept, TurnsKept', View, View', ~FreeWrites,
         NEW s \in Sides, NEW j \in Ids, WriteStart(s, j)
  PROVE  MirrorOf!Write(s, j)
<1>1. j \in turn[s]
  BY DEF WriteStart, MayWrite
<1>2. Only("turn", s, j)
  <2>1. Has("turn", s, j)
    BY <1>1 DEF Has
  <2> QED BY <2>1 DEF TurnsKept, OneStand, Only, Stands
<1>3. /\ obj' = [obj EXCEPT ![s][j] = writes + 1] /\ writes < MaxWrites
      /\ syncMe' = [syncMe EXCEPT ![s] = @ \cup {j}] /\ turn' = [turn EXCEPT ![s] = @ \ {j}]
      /\ UNCHANGED <<readLock, readAck>>
  BY DEF WriteStart, Abort, TurnsKept, blockVars
<1>4. MirrorWriter[j] = "none" /\ MirrorOwner[j] = s
  BY <1>2 DEF View, Stands
<1>5. MirrorWriter'[j] = s /\ MirrorOwner'[j] = s
  <2>1. Has("sync", s, j)'
    BY <1>3 DEF Has, Inv, TypeInv, SwitchType
  <2>2. Only("sync", s, j)'
    BY <2>1 DEF TurnsKept, OneStand, Only, Stands
  <2> QED BY <2>2 DEF View, Stands
<1>6. ASSUME NEW i \in Ids \ {j}
      PROVE  MirrorWriter'[i] = MirrorWriter[i] /\ MirrorOwner'[i] = MirrorOwner[i]
  <2>1. \A r \in Sides : /\ i \in syncMe'[r] <=> i \in syncMe[r]
                         /\ i \in turn'[r] <=> i \in turn[r]
    BY <1>3 DEF Inv, TypeInv, SwitchType, AppType
  <2>2. Stays(i)
    BY <1>3, <2>1 DEF Stays, Only, Has, Stands
  <2> QED BY <2>2, MirrorStays
<1>7. MirrorWriter' = [MirrorWriter EXCEPT ![j] = s] /\ MirrorOwner' = MirrorOwner
  <2>1. \A i \in Ids : MirrorWriter'[i] = [MirrorWriter EXCEPT ![j] = s][i]
    BY <1>5, <1>6 DEF MirrorWriter
  <2>2. \A i \in Ids : MirrorOwner'[i] = MirrorOwner[i]
    BY <1>4, <1>5, <1>6
  <2>3. MirrorWriter' = [MirrorWriter EXCEPT ![j] = s]
    BY <2>1 DEF MirrorWriter
  <2>4. MirrorOwner' = MirrorOwner
    BY <2>2 DEF MirrorOwner
  <2> QED BY <2>3, <2>4
<1>8. /\ writes + 1 \in 1 .. MaxWrites
      /\ \A r \in Sides, k \in Ids : obj[r][k] < writes + 1
  <2>1. /\ writes \in Nat /\ MaxWrites \in Nat /\ \A r \in Sides, k \in Ids : obj[r][k] \in Nat
    BY LinkAssumption DEF Inv, TypeInv, AppType
  <2>2. \A r \in Sides, k \in Ids : obj[r][k] <= writes
    BY DEF TurnsKept, Copies
  <2> QED BY <1>3, <2>1, <2>2
<1> QED BY <1>3, <1>4, <1>7, <1>8 DEF MirrorOf!Write, MirrorWriter, MirrorOwner

\* The first triple that is stored carries the write over, the last one ends it.
LEMMA ReadMirrored ==
  ASSUME Inv, TurnsKept, TurnsKept', View, View', NEW s \in Sides, ReadObject(s)
  PROVE  [MirrorOf!Next]_(MirrorOf!mirrorVars)
<1> PICK b, p, r : b = inBuf[s] /\ p = Peer(s) /\ r = Destination(s)
  OBVIOUS
<1>0. SextetStep(s, p, b, r)
  BY ReaderReady, SextetRead
<1>1. p \in Sides /\ p # s /\ Peer(p) = s
  BY PeerFacts
<1>2. /\ recv \in [Sides -> RecvType] /\ readLock \in [Sides -> SUBSET Ids]
      /\ readAck \in [Sides -> SUBSET Ids] /\ obj \in [Sides -> [Ids -> 0 .. MaxWrites]]
  BY DEF Inv, TypeInv, BlockType, SwitchType, AppType
<1>3. /\ b.id \in readLock[s] /\ b.id \in Ids /\ Asked(p) = {} /\ UNCHANGED <<turn, syncMe>>
      /\ readLock' = [readLock EXCEPT ![s] = IF Last(b) THEN @ \ {b.id} ELSE @]
      /\ readAck' = IF Last(b) THEN [readAck EXCEPT ![s] = @ \cup {b.id}] ELSE readAck
      /\ obj' = IF b.pos = 0 /\ b.count = 3 THEN [obj EXCEPT ![s][b.id] = b.val] ELSE obj
  BY <1>0, <1>2 DEF SextetStep, EmitReceived, switchVars
<1>4. b.pos = 0 => b.val = obj[p][b.id]
  BY <1>0, <1>1 DEF SextetStep, TurnsKept, Loads, Load, Handshake
<1>5. Only("sync", p, b.id) \/ Only("moving", p, b.id)
  BY <1>1, <1>3, LockFacts
<1>6. MirrorWriter[b.id] = p
  BY <1>1, <1>3, <1>5 DEF View, Stands
<1>7. ASSUME NEW i \in Ids, i # b.id \/ ~Last(b)
      PROVE  MirrorWriter'[i] = MirrorWriter[i] /\ MirrorOwner'[i] = MirrorOwner[i]
  <2>1. \A q \in Sides : /\ i \in readLock'[q] <=> i \in readLock[q]
                         /\ i \in readAck'[q] <=> i \in readAck[q]
    BY <1>2, <1>3, <1>7
  <2>2. \A k \in Stands, q \in Sides : Has(k, q, i)' <=> Has(k, q, i)
    BY <1>3, <2>1, PeerFacts DEF Has, Stands
  <2>3. Stays(i)
    BY <2>2 DEF Stays, Only
  <2> QED BY <2>3, MirrorStays
<1>8. CASE ~Last(b)
  <2>1. MirrorWriter' = MirrorWriter /\ MirrorOwner' = MirrorOwner
    BY <1>7, <1>8 DEF MirrorWriter, MirrorOwner
  <2>2. CASE obj' = obj
    BY <2>1, <2>2 DEF MirrorOf!mirrorVars, MirrorWriter, MirrorOwner
  <2>3. CASE obj' # obj
    <3>1. obj' = [obj EXCEPT ![s][b.id] = obj[p][b.id]]
      BY <1>3, <1>4, <2>3
    <3>2. obj[s][b.id] # obj[p][b.id]
      BY <1>2, <1>3, <2>3, <3>1
    <3>3. MirrorOf!Carry(p, b.id)
      BY <1>1, <1>6, <2>1, <3>1, <3>2 DEF MirrorOf!Carry, MirrorWriter, MirrorOwner
    <3> QED BY <1>1, <1>3, <3>3 DEF MirrorOf!Next
  <2> QED BY <2>2, <2>3
<1>9. CASE Last(b)
  <2>1. obj' = [obj EXCEPT ![s][b.id] = obj[p][b.id]]
    <3>1. CASE b.pos = 0
      BY <1>3, <1>4, <1>9, <3>1 DEF Last
    <3>2. CASE b.pos # 0
      <4>1. recv[s].lock /\ recv[s].pos > 0 /\ recv[s].dest = b.id
        BY <1>0, <1>1, <3>2 DEF SextetStep, Ahead
      <4>2. obj[s][b.id] = obj[p][b.id]
        BY <1>1, <4>1 DEF TurnsKept, Copies
      <4>3. obj' = obj
        BY <1>3, <3>2
      <4> QED BY <1>2, <1>3, <4>2, <4>3
    <3> QED BY <3>1, <3>2
  <2>2. MirrorWriter'[b.id] = "none" /\ MirrorOwner'[b.id] = s
    <3>1. Has("read", s, b.id)'
      BY <1>2, <1>3, <1>9 DEF Has
    <3>2. Only("read", s, b.id)'
      BY <1>3, <3>1 DEF TurnsKept, OneStand, Only, Stands
    <3> QED BY <1>3, <3>2 DEF View, Stands
  <2>3. MirrorWriter' = [MirrorWriter EXCEPT ![b.id] = "none"]
    <3>1. \A i \in Ids : MirrorWriter'[i] = [MirrorWriter EXCEPT ![b.id] = "none"][i]
      BY <1>7, <2>2 DEF MirrorWriter
    <3> QED BY <3>1 DEF MirrorWriter
  <2>4. MirrorOwner' = [MirrorOwner EXCEPT ![b.id] = Peer(p)]
    <3>1. \A i \in Ids : MirrorOwner'[i] = [MirrorOwner EXCEPT ![b.id] = Peer(p)][i]
      BY <1>1, <1>7, <2>2 DEF MirrorOwner
    <3> QED BY <3>1 DEF MirrorOwner
  <2>5. MirrorOf!Arrive(p, b.id)
    BY <1>1, <1>6, <2>1, <2>3, <2>4 DEF MirrorOf!Arrive, MirrorWriter, MirrorOwner
  <2> QED BY <1>1, <1>3, <2>5 DEF MirrorOf!Next
<1> QED BY <1>8, <1>9

\* Every step of the link is a step of the mirror, or none.
LEMMA StepMirrored ==
  ASSUME Inv, Inv', TurnsKept, TurnsKept', View, View', [Next]_vars,
         ~FreeWrites
  PROVE  [MirrorOf!Next]_(MirrorOf!mirrorVars)
<1>1. CASE UNCHANGED <<turn, syncMe, readLock, readAck, obj>>
  <2>1. \A k, s, j : Has(k, s, j)' = Has(k, s, j)
    BY <1>1 DEF Has
  <2>2. \A j \in Ids : Stays(j)
    BY <2>1 DEF Stays, Only
  <2> QED BY <1>1, <2>2, MirrorStutters
<1>7. ASSUME NEW s \in Sides, EmitInterrupted(s), UNCHANGED <<turn, readLock, obj>>
      PROVE  [MirrorOf!Next]_(MirrorOf!mirrorVars)
  <2>1. \A j \in Ids : Stays(j)
    BY <1>7, InterruptStands DEF Stays, Only
  <2> QED BY <1>7, <2>1, MirrorStutters
<1>2. ASSUME NEW s \in Sides, EventLoop(s) PROVE [MirrorOf!Next]_(MirrorOf!mirrorVars)
  <2> USE DEF blockVars, switchVars, appVars, Abort
  <2>1. CASE \/ FirstCycle(s) \/ ReadPoweron(s) \/ ReadIdle(s) \/ ReadSighup(s)
             \/ \E id \in 0 .. NumIds : ReadRequest(s, id)
             \/ Scan(s) \/ SendIdle(s) \/ SendShutdown(s) \/ SendSighup(s)
    BY <1>1, <2>1 DEF FirstCycle, ReadPoweron, ReadIdle, ReadSighup, ReadRequest, Scan, SendIdle,
       SendShutdown, SendSighup
  <2>5. CASE ReadShutdown(s)
    <3>1. CASE UNCHANGED switchVars
      BY <1>1, <2>5, <3>1 DEF ReadShutdown
    <3>2. CASE EmitInterrupted(s)
      BY <1>7, <2>5, <3>2 DEF ReadShutdown
    <3> QED BY <2>5, <3>1, <3>2 DEF ReadShutdown
  <2>2. CASE StartObject(s) \/ WriteObject(s)
    BY <1>1, <2>2 DEF StartObject, WriteObject, SendSextet
  <2>3. CASE WriteFourth(s)
    BY <1>1, <2>3 DEF WriteFourth
  <2>4. CASE TransferHook(s) \/ AcknowledgeHook(s)
    <3>1. obj' = obj
      BY <2>4 DEF TransferHook, AcknowledgeHook
    <3> QED BY <2>4, <3>1, HookStays, MirrorStutters
  <2> QED BY <1>2, <2>1, <2>2, <2>3, <2>4, <2>5, ReadMirrored DEF EventLoop
<1>3. ASSUME NEW s \in Sides, Resolver(s) PROVE [MirrorOf!Next]_(MirrorOf!mirrorVars)
  <2>1. obj' = obj
    BY <1>3 DEF Resolver, Resolve, Abort, appVars
  <2>2. \A j \in Ids : Stays(j)
    BY <1>3, ResolveStays DEF Resolver
  <2> QED BY <2>1, <2>2, MirrorStutters
<1>4. CASE Application
  BY <1>4, WriteMirrored DEF Application, MirrorOf!Next
<1>5. ASSUME NEW s \in Sides, Wire(s) PROVE [MirrorOf!Next]_(MirrorOf!mirrorVars)
  BY <1>1, <1>5 DEF Wire, blockVars, switchVars, appVars
<1>6. CASE WireStart \/ UNCHANGED vars
  BY <1>1, <1>6 DEF WireStart, vars, blockVars, switchVars, appVars
<1>8. CASE DeleteFpga
  BY <1>7, <1>8 DEF DeleteFpga, blockVars, Sides
<1>9. CASE DeleteMcu \/ \E s \in Sides : Destroy(s)
  BY <1>1, <1>9 DEF DeleteMcu, Destroy, Abort, blockVars, switchVars, appVars
<1> QED BY <1>2, <1>3, <1>4, <1>5, <1>6, <1>8, <1>9 DEF Next, Terminated

\* The link implements the mirror: to applications that take turns, all the locks, flags and
\* sextets come to no more than writes, each carried over to the other copy, and the turn
\* passing on with it, up to the moment the sides are destroyed and through the shutdown.
THEOREM MirrorRefined ==
  ASSUME DeleteWhen = "never" \/ NumIds = 1, ~FreeWrites PROVE Spec => MirrorImplemented
<1>1. Init => MirrorOf!Init
  <2> SUFFICES ASSUME Init PROVE MirrorOf!Init
    OBVIOUS
  <2>1. Inv /\ TurnsKept
    BY TypeInitially, InitTurn, LinkInitially, TurnsInitially DEF Inv
  <2>2. View
    BY <2>1, Viewed
  <2>3. ASSUME NEW j \in Ids PROVE MirrorWriter[j] = "none" /\ MirrorOwner[j] = FirstOwner[j]
    <3>1. Only("turn", FirstOwner[j], j)
      BY PeerFacts, LinkAssumption DEF Init, Only, Has, Stands
    <3> QED BY <2>2, <3>1, LinkAssumption DEF View, Stands
  <2>4. MirrorWriter = [j \in Ids |-> "none"] /\ MirrorOwner = FirstOwner
    <3>1. MirrorWriter = [j \in Ids |-> "none"]
      BY <2>3 DEF MirrorWriter
    <3>2. MirrorOwner = FirstOwner
      BY <2>3, LinkAssumption DEF MirrorOwner
    <3> QED BY <3>1, <3>2
  <2> QED BY <2>4 DEF Init, MirrorOf!Init, MirrorWriter, MirrorOwner
<1>2. Inv /\ Inv' /\ TurnsKept /\ TurnsKept' /\ View /\ View' /\ [Next]_vars
        => [MirrorOf!Next]_(MirrorOf!mirrorVars)
  BY StepMirrored
<1> QED BY <1>1, <1>2, Viewed, TurnsHold, PTL DEF Spec, MirrorImplemented, MirrorOf!Spec

=============================================================================
