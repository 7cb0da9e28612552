------------------------------ MODULE MCSession ------------------------------
(***************************************************************************)
(* Small instances of Session for TLC.  A header is 2 bytes, padding and   *)
(* alignment go to even addresses, a VAD state is 2 bytes behind a pad.    *)
(***************************************************************************)
EXTENDS Session

Set(in, out, ic, oc, inRate, outRate, vad) ==
    [in |-> in, out |-> out, ic |-> ic, oc |-> oc, inRate |-> inRate,
     outRate |-> outRate, vad |-> vad]

\* The VAD rate is 2.  Every codec on either side, mono and stereo, the VAD at
\* the rate of the input, of the output, of both and of neither.  The last eight
\* are outside the protocol: no channel, more of them than the arena is made for,
\* more that it still holds, and rates of zero.
ClientConfigs ==
    { Set("g711", "l16",  1, 1, 1, 2, TRUE),  Set("g711", "g711", 1, 1, 1, 1, TRUE),
      Set("l16",  "g711", 1, 1, 2, 1, TRUE),  Set("l16",  "l16",  1, 1, 2, 2, TRUE),
      Set("l16",  "l16",  2, 2, 2, 2, FALSE), Set("g711", "l16",  1, 2, 1, 6, FALSE),
      Set("g711", "l16",  1, 1, 6, 2, TRUE),  Set("other", "l16", 1, 1, 1, 1, FALSE),
      Set("l16", "other", 1, 1, 1, 1, TRUE),  Set("g711", "l16",  2, 2, 1, 2, TRUE),
      Set("g711", "g711", 1, 1, 1, 5, TRUE),  Set("g711", "l16",  1, 2, 2, 2, TRUE),
      Set("l16", "other", 1, 1, 6, 2, TRUE),
      Set("l16", "l16", 0, 1, 1, 1, FALSE),   Set("g711", "l16",  0, 0, 2, 2, TRUE),
      Set("g711", "g711", 1, 0, 1, 4, FALSE), Set("g711", "l16", 12, 12, 2, 2, TRUE),
      Set("l16", "l16", 3, 3, 2, 2, TRUE),    Set("g711", "l16", 1, 1, 0, 1, FALSE),
      Set("l16", "g711", 1, 1, 1, 0, TRUE),   Set("g711", "l16", 40, 40, 1, 1, FALSE) }

In(n, lens, plen) == [n |-> n, lens |-> lens, plen |-> plen]

\* Whole and odd lengths, padded or cut off; fewer and more buffers than
\* declared; none; an empty first one; a length that wraps the 32-bit check.
ClientInputs ==
    { In(0, << >>, 2),       In(1, <<4>>, 8),       In(2, <<4, 2>>, 12),
      In(2, <<3, 4>>, 14),   In(1, <<3>>, 7),       In(2, <<4, 4>>, 13),
      In(1, <<253>>, 6),     In(1, <<10>>, 14),     In(3, <<2, 2, 0>>, 10),
      In(2, <<0, 4>>, 10),   In(2, <<3, 2>>, 11),   In(1, <<2, 2>>, 10) }

\* Where the documented layout puts the headers of an INPUT's buffers.
HeadersOf(m) ==
    LET at[k \in 0..m.n] ==
            IF k = 0 THEN HdrIn ELSE at[k - 1] + HdrBuf + RoundUp(m.lens[k], PadTo)
    IN at
ClientLayout == [m \in ClientInputs |-> HeadersOf(m)]
===============================================================================
