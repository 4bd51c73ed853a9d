---------------------------- MODULE MCSerialLink ----------------------------
(* Values of the constants of SerialLink for TLC, and samples for the codec. *)
EXTENDS SerialLink

MCFpgaOwns == [j \in 0 .. NumIds - 1 |-> "fpga"]
MCSplit == [j \in 0 .. NumIds - 1 |-> IF j = 0 THEN "fpga" ELSE "mcu"]

Codec == INSTANCE ByteCodec

\* Bytes of every pattern the four cuts make a difference to.
SampleOctets == {{}, 0 .. 7, {0, 1}, {6, 7}, {2, 3, 4, 5}, {0, 2, 5, 7}}
SampleSignals == {<<{}, {6}, {7}, {6, 7}>>, <<{7}, {}, {6, 7}, {6}>>}

\* On the samples, what the codec's theorems state for all bytes.
ASSUME CodecSamples ==
  \A w0, w1, w2 \in SampleOctets, s \in SampleSignals :
    Codec!RoundTrip(w0, w1, w2, s) /\ Codec!SignalsKept(w0, w1, w2, s)

=============================================================================
