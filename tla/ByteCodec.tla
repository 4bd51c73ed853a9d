------------------------------ MODULE ByteCodec -----------------------------
(***************************************************************************)
(* The packing of three bytes of an object into four bytes of the line and *)
(* back (ByteWiseTransfer.hpp): six bits of data each, below the two       *)
(* signal bits the crossovers set. A bitset is the set of its positions    *)
(* that are 1. SerialLink carries the place and version of a sextet        *)
(* instead of its bits; that this loses nothing is what is shown here.     *)
(***************************************************************************)
EXTENDS Integers

Octets == SUBSET (0 .. 7)
SignalBits == {6, 7}
Signals == SUBSET SignalBits

\* operator<< and operator>> of a bitset of the given width, operator^.
ShiftLeft(b, n, width) == {k + n : k \in {j \in b : j + n < width}}
ShiftRight(b, n) == {k - n : k \in {j \in b : j >= n}}
Xor(a, b) == (a \ b) \cup (b \ a)

\* write_assemble(): the high bits of the byte at hand.
WriteAssemble(w, count) == ShiftRight(w, (count + 1) * 2)

\* write_recover(): overlaid with the low bits of the byte before.
WriteRecover(before, count, out) ==
  Xor(out, ShiftRight(ShiftLeft(before, (4 - count) * 2, 8), 2))

\* write_bits(): the crossover sets or clears both signal bits.
WriteBits(out, signals) == (out \ SignalBits) \cup signals

\* write(): the four bytes of the line for the bytes w0, w1, w2.
Write0(w0, s) == WriteBits(WriteAssemble(w0, 0), s)
Write1(w0, w1, s) == WriteRecover(w0, 1, WriteBits(WriteAssemble(w1, 1), s))
Write2(w1, w2, s) == WriteRecover(w1, 2, WriteBits(WriteAssemble(w2, 2), s))
Write3(w2, s) == WriteRecover(w2, 3, WriteBits({}, s))

\* read_shift(): the two signal bits leave at the top, the rest is put in its place.
ReadShift(assembly, count, r) ==
  Xor(assembly, ShiftRight(ShiftLeft(r, 18, 24), count * 6))

\* read(): the 24 bits after four bytes of the line.
Read(r0, r1, r2, r3) ==
  ReadShift(ReadShift(ReadShift(ReadShift({}, 0, r0), 1, r1), 2, r2), 3, r3)

\* read_flush(), bitsetToBytearray(): byte i of the three.
ReadFlush(assembly, i) == ShiftRight(ShiftLeft(assembly, i * 8, 24), 16)

\* Three bytes come out as they went in, whatever signals the four bytes carry.
RoundTrip(w0, w1, w2, s) ==
  LET assembly == Read(Write0(w0, s[1]), Write1(w0, w1, s[2]), Write2(w1, w2, s[3]),
                       Write3(w2, s[4])) IN
  /\ ReadFlush(assembly, 0) = w0
  /\ ReadFlush(assembly, 1) = w1
  /\ ReadFlush(assembly, 2) = w2

\* No bit of the data reaches the two signal bits.
SignalsKept(w0, w1, w2, s) ==
  /\ Write0(w0, s[1]) \cap SignalBits = s[1]
  /\ Write1(w0, w1, s[2]) \cap SignalBits = s[2]
  /\ Write2(w1, w2, s[3]) \cap SignalBits = s[3]
  /\ Write3(w2, s[4]) \cap SignalBits = s[4]

=============================================================================
