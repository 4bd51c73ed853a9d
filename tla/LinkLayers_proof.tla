-------------------------- MODULE LinkLayers_proof --------------------------
(***************************************************************************)
(* The two layers SerialLink stands between: the codec beneath it, which   *)
(* loses nothing for all bytes and all signals, and the abstract mirror    *)
(* above it, with what follows from that alone.                            *)
(***************************************************************************)
EXTENDS ByteCodec, ObjectMirror, TLAPS

-----------------------------------------------------------------------------
(* The codec.                                                              *)

\* Membership in the shifted sets, position by position.
LEMMA LeftMember ==
  ASSUME NEW b \in SUBSET Int, NEW n \in Int, NEW width \in Int, NEW k
  PROVE k \in ShiftLeft(b, n, width) <=> k \in Int /\ k - n \in b /\ k < width
<1>1. ASSUME k \in ShiftLeft(b, n, width)
      PROVE k \in Int /\ k - n \in b /\ k < width
  <2>1. PICK j \in b : j + n < width /\ k = j + n
    BY <1>1 DEF ShiftLeft
  <2> QED BY <2>1
<1>2. ASSUME k \in Int, k - n \in b, k < width
      PROVE k \in ShiftLeft(b, n, width)
  <2>1. (k - n) + n = k
    BY <1>2
  <2> QED BY <1>2, <2>1 DEF ShiftLeft
<1> QED BY <1>1, <1>2

LEMMA RightMember ==
  ASSUME NEW b \in SUBSET Int, NEW n \in Int, NEW k
  PROVE k \in ShiftRight(b, n) <=> k \in Int /\ k + n \in b /\ k >= 0
<1>1. ASSUME k \in ShiftRight(b, n)
      PROVE k \in Int /\ k + n \in b /\ k >= 0
  <2>1. PICK j \in b : j >= n /\ k = j - n
    BY <1>1 DEF ShiftRight
  <2> QED BY <2>1
<1>2. ASSUME k \in Int, k + n \in b, k >= 0
      PROVE k \in ShiftRight(b, n)
  <2>1. (k + n) - n = k /\ k + n >= n
    BY <1>2
  <2> QED BY <1>2, <2>1 DEF ShiftRight
<1> QED BY <1>1, <1>2

\* Byte i of the assembly.
LEMMA FlushMember ==
  ASSUME NEW a \in SUBSET Int, NEW i \in Int, NEW k
  PROVE k \in ReadFlush(a, i) <=> k \in Int /\ k >= 0 /\ k + 16 < 24 /\ k + 16 - i * 8 \in a
<1> DEFINE up == ShiftLeft(a, i * 8, 24)
<1>1. i * 8 \in Int
  OBVIOUS
<1>2. \A j : j \in up <=> j \in Int /\ j - i * 8 \in a /\ j < 24
  BY <1>1, LeftMember
<1> HIDE DEF up
<1>3. up \in SUBSET Int
  BY <1>2
<1>4. k \in ShiftRight(up, 16) <=> k \in Int /\ k + 16 \in up /\ k >= 0
  BY <1>3, RightMember
<1>5. k \in Int => k + 16 \in Int
  OBVIOUS
<1> QED BY <1>2, <1>4, <1>5 DEF ReadFlush, up

\* What each byte of the line holds.
LEMMA Layout ==
  ASSUME NEW w0 \in Octets, NEW w1 \in Octets, NEW w2 \in Octets, NEW s \in Signals
  PROVE /\ Write0(w0, s) = {k \in 0 .. 5 : k + 2 \in w0} \cup s
        /\ Write1(w0, w1, s) = {k \in 0 .. 3 : k + 4 \in w1} \cup {k \in 4 .. 5 : k - 4 \in w0} \cup s
        /\ Write2(w1, w2, s) = {k \in 0 .. 1 : k + 6 \in w2} \cup {k \in 2 .. 5 : k - 2 \in w1} \cup s
        /\ Write3(w2, s) = {k \in 0 .. 5 : k \in w2} \cup s
BY LeftMember, RightMember DEF Write0, Write1, Write2, Write3, WriteBits,
                                 WriteAssemble, WriteRecover, Xor, Octets, Signals, SignalBits

\* Where the data bits of the four bytes are put.
LEMMA Assembly ==
  ASSUME NEW r0 \in Octets, NEW r1 \in Octets, NEW r2 \in Octets, NEW r3 \in Octets
  PROVE Read(r0, r1, r2, r3) =
          {k \in 18 .. 23 : k - 18 \in r0} \cup {k \in 12 .. 17 : k - 12 \in r1}
            \cup {k \in 6 .. 11 : k - 6 \in r2} \cup {k \in 0 .. 5 : k \in r3}
<1> DEFINE Place(r, n) == ShiftRight(ShiftLeft(r, 18, 24), n * 6)
<1>1. Place(r0, 0) = {k \in 18 .. 23 : k - 18 \in r0}
  BY LeftMember, RightMember DEF Octets
<1>2. Place(r1, 1) = {k \in 12 .. 17 : k - 12 \in r1}
  BY LeftMember, RightMember DEF Octets
<1>3. Place(r2, 2) = {k \in 6 .. 11 : k - 6 \in r2}
  BY LeftMember, RightMember DEF Octets
<1>4. Place(r3, 3) = {k \in 0 .. 5 : k \in r3}
  BY LeftMember, RightMember DEF Octets
<1>5. Read(r0, r1, r2, r3) =
        Xor(Xor(Xor(Xor({}, Place(r0, 0)), Place(r1, 1)), Place(r2, 2)), Place(r3, 3))
  BY DEF Read, ReadShift
<1> HIDE DEF Place
<1> QED BY <1>1, <1>2, <1>3, <1>4, <1>5 DEF Xor

\* What goes in comes out: for all bytes of an object and all requests and acknowledges that
\* ride along, the receiver's three bytes are the sender's (SerialLink's sextets rest on it).
THEOREM CodecRoundTrip ==
  ASSUME NEW w0 \in Octets, NEW w1 \in Octets, NEW w2 \in Octets, NEW s \in [1 .. 4 -> Signals]
  PROVE RoundTrip(w0, w1, w2, s)
<1> DEFINE r0 == Write0(w0, s[1])
           r1 == Write1(w0, w1, s[2])
           r2 == Write2(w1, w2, s[3])
           r3 == Write3(w2, s[4])
           a == Read(r0, r1, r2, r3)
<1>0. s[1] \in Signals /\ s[2] \in Signals /\ s[3] \in Signals /\ s[4] \in Signals
  OBVIOUS
<1>1. /\ r0 = {k \in 0 .. 5 : k + 2 \in w0} \cup s[1]
      /\ r1 = {k \in 0 .. 3 : k + 4 \in w1} \cup {k \in 4 .. 5 : k - 4 \in w0} \cup s[2]
      /\ r2 = {k \in 0 .. 1 : k + 6 \in w2} \cup {k \in 2 .. 5 : k - 2 \in w1} \cup s[3]
      /\ r3 = {k \in 0 .. 5 : k \in w2} \cup s[4]
  BY <1>0, Layout
<1> HIDE DEF r0, r1, r2, r3
<1>2. r0 \in Octets /\ r1 \in Octets /\ r2 \in Octets /\ r3 \in Octets
  BY <1>0, <1>1 DEF Octets, Signals, SignalBits
<1>3. a = {k \in 18 .. 23 : k - 18 \in r0} \cup {k \in 12 .. 17 : k - 12 \in r1}
            \cup {k \in 6 .. 11 : k - 6 \in r2} \cup {k \in 0 .. 5 : k \in r3}
  BY <1>2, Assembly
<1> HIDE DEF a
<1>4. a = {k \in 16 .. 23 : k - 16 \in w0} \cup {k \in 8 .. 15 : k - 8 \in w1}
            \cup {k \in 0 .. 7 : k \in w2}
  BY <1>0, <1>1, <1>3 DEF Octets, Signals, SignalBits
<1>5. a \in SUBSET Int
  BY <1>4
<1>6. ReadFlush(a, 0) = w0 /\ ReadFlush(a, 1) = w1 /\ ReadFlush(a, 2) = w2
  <2>1. ReadFlush(a, 0) = w0
    <3>1. \A k : k \in ReadFlush(a, 0) <=>
                 k \in Int /\ k >= 0 /\ k + 16 < 24 /\ k + 16 - 0 * 8 \in a
      BY <1>5, FlushMember
    <3>2. \A k \in 0 .. 7 : k + 16 - 0 * 8 \in a <=> k \in w0
      BY <1>4
    <3>3. \A k : k \in w0 => k \in 0 .. 7
      BY DEF Octets
    <3>4. \A k : k \in ReadFlush(a, 0) <=> k \in w0
      BY <3>1, <3>2, <3>3
    <3> QED BY <3>4
  <2>2. ReadFlush(a, 1) = w1
    <3>1. \A k : k \in ReadFlush(a, 1) <=>
                 k \in Int /\ k >= 0 /\ k + 16 < 24 /\ k + 16 - 1 * 8 \in a
      BY <1>5, FlushMember
    <3>2. \A k \in 0 .. 7 : k + 16 - 1 * 8 \in a <=> k \in w1
      BY <1>4
    <3>3. \A k : k \in w1 => k \in 0 .. 7
      BY DEF Octets
    <3>4. \A k : k \in ReadFlush(a, 1) <=> k \in w1
      BY <3>1, <3>2, <3>3
    <3> QED BY <3>4
  <2>3. ReadFlush(a, 2) = w2
    <3>1. \A k : k \in ReadFlush(a, 2) <=>
                 k \in Int /\ k >= 0 /\ k + 16 < 24 /\ k + 16 - 2 * 8 \in a
      BY <1>5, FlushMember
    <3>2. \A k \in 0 .. 7 : k + 16 - 2 * 8 \in a <=> k \in w2
      BY <1>4
    <3>3. \A k : k \in w2 => k \in 0 .. 7
      BY DEF Octets
    <3>4. \A k : k \in ReadFlush(a, 2) <=> k \in w2
      BY <3>1, <3>2, <3>3
    <3> QED BY <3>4
  <2> QED BY <2>1, <2>2, <2>3
<1> QED BY <1>6 DEF RoundTrip, a, r0, r1, r2, r3

\* The data never reaches the bits the two sides signal with: a byte of data is not taken
\* for a request, an acknowledge is neither lost nor invented.
THEOREM CodecSignals ==
  ASSUME NEW w0 \in Octets, NEW w1 \in Octets, NEW w2 \in Octets, NEW s \in [1 .. 4 -> Signals]
  PROVE SignalsKept(w0, w1, w2, s)
<1>1. s[1] \in Signals /\ s[2] \in Signals /\ s[3] \in Signals /\ s[4] \in Signals
  OBVIOUS
<1>2. /\ Write0(w0, s[1]) = {k \in 0 .. 5 : k + 2 \in w0} \cup s[1]
      /\ Write1(w0, w1, s[2]) =
           {k \in 0 .. 3 : k + 4 \in w1} \cup {k \in 4 .. 5 : k - 4 \in w0} \cup s[2]
      /\ Write2(w1, w2, s[3]) =
           {k \in 0 .. 1 : k + 6 \in w2} \cup {k \in 2 .. 5 : k - 2 \in w1} \cup s[3]
      /\ Write3(w2, s[4]) = {k \in 0 .. 5 : k \in w2} \cup s[4]
  BY <1>1, Layout
<1> QED BY <1>1, <1>2 DEF SignalsKept, Signals, SignalBits

-----------------------------------------------------------------------------
(* The mirror.                                                             *)

Types ==
  /\ copy \in [Sides -> [Ids -> Int]]
  /\ writer \in [Ids -> Sides \cup {"none"}]

\* A side's peer is the other one of two.
Pairing == \A s \in Sides : Peer(s) \in Sides /\ Sides = {s, Peer(s)} /\ "none" # s

LEMMA TypesHold ==
  ASSUME Pairing PROVE Spec => []Types
<1>1. Init => Types
  BY DEF Init, Types
<1>2. ASSUME Types, [Next]_mirrorVars PROVE Types'
  <2>1. CASE UNCHANGED mirrorVars
    BY <1>2, <2>1 DEF Types, mirrorVars
  <2>2. ASSUME NEW s \in Sides, NEW j \in Ids, Write(s, j) PROVE Types'
    BY <1>2, <2>2 DEF Types, Write
  <2>3. ASSUME NEW s \in Sides, NEW j \in Ids, Carry(s, j) PROVE Types'
    BY <1>2, <2>3 DEF Types, Carry, Pairing
  <2>4. ASSUME NEW s \in Sides, NEW j \in Ids, Arrive(s, j) PROVE Types'
    BY <1>2, <2>4 DEF Types, Arrive, Pairing
  <2> QED BY <1>2, <2>1, <2>2, <2>3, <2>4 DEF Next
<1> QED BY <1>1, <1>2, PTL DEF Spec

\* While no write of an object is on its way both copies are the same: what a user of the
\* link may rely on, for any number of objects, writes and turns.
THEOREM CopiesAgree ==
  ASSUME Pairing PROVE Spec => []Agree
<1>1. Init => Agree
  BY DEF Init, Agree
<1>2. ASSUME Types, Agree, [Next]_mirrorVars PROVE Agree'
  <2>1. CASE UNCHANGED mirrorVars
    BY <1>2, <2>1 DEF Agree, mirrorVars
  <2>2. ASSUME NEW s \in Sides, NEW j \in Ids, Write(s, j) PROVE Agree'
    <3>1. PICK v \in 1 .. MaxWrites : copy' = [copy EXCEPT ![s][j] = v]
      BY <2>2 DEF Write
    <3>2. writer'[j] # "none"
      BY <1>2, <2>2 DEF Types, Write, Pairing
    <3>3. \A k \in Ids \ {j} : writer'[k] = writer[k] /\ \A r \in Sides : copy'[r][k] = copy[r][k]
      BY <1>2, <2>2, <3>1 DEF Types, Write
    <3> QED BY <1>2, <3>2, <3>3 DEF Agree
  <2>3. ASSUME NEW s \in Sides, NEW j \in Ids, Carry(s, j) PROVE Agree'
    BY <1>2, <2>3 DEF Types, Agree, Carry, Pairing
  <2>4. ASSUME NEW s \in Sides, NEW j \in Ids, Arrive(s, j) PROVE Agree'
    BY <1>2, <2>4 DEF Types, Agree, Arrive, Pairing
  <2> QED BY <1>2, <2>1, <2>2, <2>3, <2>4 DEF Next
<1> QED BY <1>1, <1>2, TypesHold, PTL DEF Spec

\* The copy that has not yet followed a write is the older one.
Behind == \A s \in Sides, j \in Ids : writer[j] = s => copy[Peer(s)][j] <= copy[s][j]

LEMMA BehindHolds ==
  ASSUME Pairing PROVE Spec => []Behind
<1>1. Init => Behind
  BY DEF Init, Behind, Pairing
<1>2. ASSUME Types, Behind, [Next]_mirrorVars PROVE Behind'
  <2>1. CASE UNCHANGED mirrorVars
    BY <1>2, <2>1 DEF Behind, mirrorVars
  <2>2. ASSUME NEW s \in Sides, NEW j \in Ids, Write(s, j) PROVE Behind'
    <3>1. PICK v \in 1 .. MaxWrites :
            /\ \A r \in Sides, k \in Ids : copy[r][k] < v
            /\ copy' = [copy EXCEPT ![s][j] = v]
      BY <2>2 DEF Write
    <3>2. writer' = [writer EXCEPT ![j] = s]
      BY <2>2 DEF Write
    <3>3. copy'[Peer(s)][j] <= copy'[s][j]
      BY <1>2, <3>1 DEF Types, Pairing
    <3> QED BY <1>2, <3>1, <3>2, <3>3 DEF Types, Behind, Pairing
  <2>3. ASSUME NEW s \in Sides, NEW j \in Ids, Carry(s, j) PROVE Behind'
    BY <1>2, <2>3 DEF Types, Behind, Carry, Pairing
  <2>4. ASSUME NEW s \in Sides, NEW j \in Ids, Arrive(s, j) PROVE Behind'
    BY <1>2, <2>4 DEF Types, Behind, Arrive, Pairing
  <2> QED BY <1>2, <2>1, <2>2, <2>3, <2>4 DEF Next
<1> QED BY <1>1, <1>2, TypesHold, PTL DEF Spec

\* Neither side ever sees an object go back to an older version, whoever writes it when.
THEOREM CopiesAdvance ==
  ASSUME Pairing PROVE Spec => [][Advance]_mirrorVars
<1>1. ASSUME Types, Behind, [Next]_mirrorVars PROVE [Advance]_mirrorVars
  <2>1. ASSUME NEW s \in Sides, NEW j \in Ids, Write(s, j) PROVE Advance
    <3>1. PICK v \in 1 .. MaxWrites :
            /\ \A r \in Sides, k \in Ids : copy[r][k] < v
            /\ copy' = [copy EXCEPT ![s][j] = v]
      BY <2>1 DEF Write
    <3> QED BY <1>1, <3>1 DEF Types, Advance
  <2>2. ASSUME NEW s \in Sides, NEW j \in Ids, Carry(s, j) PROVE Advance
    BY <1>1, <2>2 DEF Types, Behind, Advance, Carry, Pairing
  <2>3. ASSUME NEW s \in Sides, NEW j \in Ids, Arrive(s, j) PROVE Advance
    BY <1>1, <2>3 DEF Types, Behind, Advance, Arrive, Pairing
  <2> QED BY <1>1, <2>1, <2>2, <2>3 DEF Next
<1> QED BY <1>1, TypesHold, BehindHolds, PTL DEF Spec

=============================================================================
