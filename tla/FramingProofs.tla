--------------------------- MODULE FramingProofs ---------------------------
(***************************************************************************)
(* Proofs about Framing, for every set of buffers and every checksum       *)
(* function: the scan stays inside the buffer, handles disjoint packets in *)
(* order, and misses no packet as long as the noise holds no header byte.  *)
(***************************************************************************)
EXTENDS Framing, PacketsProofs

-----------------------------------------------------------------------------
\* Where a valid packet starts, the loop stops and takes it.
LEMMA ValidIsAtPacket ==
    ASSUME NEW d \in Seq(Byte), NEW k \in Nat, ValidAt(d, k)
    PROVE  /\ Len(d) - k >= MIN_PKT_LEN
           /\ decoded_len(d, k) # 0
           /\ decoded_len(d, k) >= MIN_PKT_LEN
           /\ d[k + 1] = PKT_HDR
BY DecodedType, DecodedLenBounds DEF ValidAt, Accepts

-----------------------------------------------------------------------------
(***************************************************************************)
(* The inductive invariant                                                 *)
(***************************************************************************)

\* Behind the pointer all whole packets are handled, and it has not jumped
\* over the next one.
QuietProgress ==
    QuietGaps =>
        /\ Len(handled) <= Len(starts)
        /\ \A n \in 1 .. Len(handled) : handled[n].at = starts[n]
        /\ Len(handled) < Len(starts) => pos <= starts[Len(handled) + 1]

\* Between two reads nothing of the last buffer is left.
Fresh == pc = "read" => data = <<>> /\ starts = <<>> /\ pos = 0 /\ handled = <<>>

IInv ==
    /\ TypeOK
    /\ Fresh
    /\ WholePackets(data, starts)
    /\ HandledDisjoint
    /\ QuietProgress

LEMMA InitIInv == Init => IInv
<1> SUFFICES ASSUME Init PROVE IInv
  OBVIOUS
<1>1. Len(starts) = 0 /\ Len(handled) = 0 /\ Len(data) = 0 /\ pos = 0
  BY DEF Init
<1>2. TypeOK /\ Fresh
  BY DEF Init, TypeOK, Fresh
<1>3. WholePackets(data, starts)
  BY <1>1 DEF WholePackets
<1>4. HandledDisjoint
  BY <1>1 DEF HandledDisjoint
<1>5. QuietProgress
  BY <1>1 DEF QuietProgress
<1>6. QED
  BY <1>2, <1>3, <1>4, <1>5 DEF IInv

-----------------------------------------------------------------------------
(***************************************************************************)
(* Each step keeps it                                                      *)
(***************************************************************************)

\* Reading a new buffer: nothing is handled yet.
LEMMA ReadPortIInv == IInv /\ ReadPort => IInv'
<1> SUFFICES ASSUME IInv, ReadPort PROVE IInv'
  OBVIOUS
<1>1. PICK r \in Reads : data' = r.data /\ starts' = r.starts
  BY DEF ReadPort
<1>2. data' \in Seq(Byte) /\ starts' \in Seq(Nat) /\ WholePackets(data', starts')
  BY <1>1, ReadsAssumption
<1>3. pos' = 0 /\ handled' = <<>> /\ pc' = "scan" /\ Len(handled') = 0
  BY DEF ReadPort, IInv, Fresh
<1>4. Len(data') \in Nat /\ Len(starts') \in Nat
  BY <1>2
<1>5. TypeOK' /\ Fresh'
  <2>1. handled' \in Seq([at : Nat, pkt : Packet])
    BY <1>3
  <2>2. QED
    BY <1>2, <1>3, <2>1 DEF TypeOK, Fresh
<1>6. HandledDisjoint'
  BY <1>3, <1>4 DEF HandledDisjoint
<1>7. QuietProgress'
  <2>1. Len(starts') > 0 => starts'[1] \in Nat
    BY <1>2, <1>4, ElementOfSeq
  <2>2. QED
    BY <1>3, <1>4, <2>1 DEF QuietProgress
<1>8. QED
  BY <1>2, <1>5, <1>6, <1>7 DEF IInv, WholePackets

\* The facts about the buffer that every step of the scan needs.
LEMMA ScanFacts ==
    ASSUME IInv, pc = "scan"
    PROVE  /\ data \in Seq(Byte) /\ Len(data) \in Nat
           /\ starts \in Seq(Nat) /\ Len(starts) \in Nat
           /\ \A n \in 1 .. Len(starts) : starts[n] \in Nat
           /\ handled \in Seq([at : Nat, pkt : Packet]) /\ Len(handled) \in Nat
           /\ \A n \in 1 .. Len(handled) : handled[n].at \in Nat
           /\ pos \in Nat
<1>1. TypeOK
  BY DEF IInv
<1>2. \A n \in 1 .. Len(starts) : starts[n] \in Nat
  BY <1>1, ElementOfSeq DEF TypeOK
<1>3. \A n \in 1 .. Len(handled) : handled[n] \in [at : Nat, pkt : Packet]
  BY <1>1, ElementOfSeq DEF TypeOK
<1>4. \A n \in 1 .. Len(handled) : handled[n].at \in Nat
  BY <1>3
<1>5. QED
  BY <1>1, <1>2, <1>4 DEF TypeOK

\* The pointer moves by one byte only where no whole packet starts.
LEMMA SkipByteIInv == IInv /\ SkipByte => IInv'
<1> SUFFICES ASSUME IInv, SkipByte PROVE IInv'
  OBVIOUS
<1>1. pc = "scan" /\ Len(data) - pos >= MIN_PKT_LEN /\ ~AtPacket
  BY DEF SkipByte, Left
<1>2. pos' = pos + 1 /\ data' = data /\ starts' = starts /\ handled' = handled /\ pc' = "scan"
  BY <1>1 DEF SkipByte
<1>3. /\ data \in Seq(Byte) /\ Len(data) \in Nat /\ pos \in Nat
      /\ starts \in Seq(Nat) /\ Len(starts) \in Nat
      /\ \A n \in 1 .. Len(starts) : starts[n] \in Nat
      /\ handled \in Seq([at : Nat, pkt : Packet]) /\ Len(handled) \in Nat
      /\ \A n \in 1 .. Len(handled) : handled[n].at \in Nat
  BY <1>1, ScanFacts
<1>4. TypeOK' /\ Fresh'
  BY <1>2, <1>3 DEF TypeOK, Fresh
<1>5. WholePackets(data, starts)'
  BY <1>2 DEF IInv, WholePackets
<1>6. HandledDisjoint'
  <2>1. HandledDisjoint
    BY DEF IInv
  <2>2. pos' <= Len(data')
    BY <1>1, <1>2, <1>3 DEF MIN_PKT_LEN
  <2>3. ASSUME NEW n \in 1 .. Len(handled)
        PROVE  EndOf(n)' <= (IF n < Len(handled) THEN handled[n + 1].at ELSE pos')
    <3>1. EndOf(n) <= (IF n < Len(handled) THEN handled[n + 1].at ELSE pos)
      BY <2>1 DEF HandledDisjoint
    <3>2. EndOf(n)' = EndOf(n)
      BY <1>2 DEF EndOf
    <3>3. EndOf(n) \in Int
      <4>1. handled[n].at \in Nat /\ ValidAt(data, handled[n].at)
        BY <1>3, <2>1 DEF HandledDisjoint
      <4>2. decoded_len(data, handled[n].at) \in Nat
        BY <1>3, <4>1, DecodedLenBounds DEF ValidAt
      <4>3. QED
        BY <4>1, <4>2 DEF EndOf
    <3>4. QED
      BY <1>2, <1>3, <3>1, <3>2, <3>3
  <2>4. QED
    BY <1>2, <2>1, <2>2, <2>3 DEF HandledDisjoint
<1>7. QuietProgress'
  <2> SUFFICES ASSUME QuietGaps', Len(handled) < Len(starts),
                      \A n \in 1 .. Len(handled) : handled[n].at = starts[n],
                      pos <= starts[Len(handled) + 1]
               PROVE  pos + 1 <= starts[Len(handled) + 1]
    <3>1. QuietGaps' => QuietGaps
      BY <1>2 DEF QuietGaps, InPacket
    <3>2. QED
      BY <1>2, <3>1 DEF IInv, QuietProgress
  <2> DEFINE next == starts[Len(handled) + 1]
  <2>1. Len(handled) + 1 \in 1 .. Len(starts) /\ next \in Nat
    BY <1>3
  <2>2. ValidAt(data, next)
    BY <2>1 DEF IInv, WholePackets
  <2>3. decoded_len(data, next) # 0 /\ data[next + 1] = PKT_HDR
    BY <1>3, <2>1, <2>2, ValidIsAtPacket
  <2>4. pos # next
    BY <1>1, <2>3 DEF AtPacket
  <2>5. QED
    BY <1>3, <2>1, <2>4
<1>8. QED
  BY <1>4, <1>5, <1>6, <1>7 DEF IInv

\* Where a packet is taken without a header in the noise, it is the next one.
LEMMA QuietTakesNext ==
    ASSUME IInv, pc = "scan", QuietGaps, Len(data) - pos >= MIN_PKT_LEN, AtPacket
    PROVE  Len(handled) < Len(starts) /\ pos = starts[Len(handled) + 1]
<1>1. /\ data \in Seq(Byte) /\ Len(data) \in Nat /\ pos \in Nat
      /\ starts \in Seq(Nat) /\ Len(starts) \in Nat
      /\ \A n \in 1 .. Len(starts) : starts[n] \in Nat
      /\ handled \in Seq([at : Nat, pkt : Packet]) /\ Len(handled) \in Nat
      /\ \A n \in 1 .. Len(handled) : handled[n].at \in Nat
  BY ScanFacts
<1>2. /\ Len(handled) <= Len(starts)
      /\ \A n \in 1 .. Len(handled) : handled[n].at = starts[n]
      /\ Len(handled) < Len(starts) => pos <= starts[Len(handled) + 1]
  BY DEF IInv, QuietProgress
<1>3. pos \in 0 .. Len(data) - 1
  BY <1>1 DEF MIN_PKT_LEN
<1>4. PICK m \in 1 .. Len(starts) :
          starts[m] <= pos /\ pos < starts[m] + decoded_len(data, starts[m])
  BY <1>3 DEF QuietGaps, InPacket, AtPacket
<1>5. \A k \in 1 .. Len(starts) : decoded_len(data, starts[k]) \in Nat
  <2> TAKE k \in 1 .. Len(starts)
  <2>1. starts[k] \in Nat /\ Len(data) - starts[k] >= MIN_PKT_LEN
    BY <1>1 DEF IInv, WholePackets, ValidAt
  <2>2. QED
    BY <1>1, <2>1, DecodedLenBounds
\* m is not one of the packets handled before: they end at pos or earlier
<1>6. m > Len(handled)
  <2> SUFFICES ASSUME m <= Len(handled) PROVE FALSE
    BY <1>1
  <2>1. m \in 1 .. Len(handled) /\ handled[m].at = starts[m]
    BY <1>1, <1>2
  <2>2. starts[m] + decoded_len(data, starts[m])
            <= (IF m < Len(handled) THEN handled[m + 1].at ELSE pos)
    BY <2>1 DEF IInv, HandledDisjoint, EndOf
  <2>3. CASE m = Len(handled)
    BY SMTT(30), <1>1, <1>4, <1>5, <2>2, <2>3
  <2>4. CASE m < Len(handled)
    <3> DEFINE last == Len(handled)
    <3>1. last \in 1 .. Len(handled) /\ handled[last].at = starts[last] /\ last \in 1 .. Len(starts)
      BY SMTT(30), <1>1, <1>2, <2>4
    <3>2. starts[last] + decoded_len(data, starts[last]) <= pos
      BY <3>1 DEF IInv, HandledDisjoint, EndOf
    <3>3. starts[m] + decoded_len(data, starts[m]) <= starts[last]
      BY <2>4, <3>1 DEF IInv, WholePackets
    <3>4. starts[last] \in Nat /\ starts[m] \in Nat
      BY <1>1, <3>1
    <3>5. decoded_len(data, starts[last]) \in Nat /\ decoded_len(data, starts[m]) \in Nat
      BY <1>5, <3>1
    <3> DEFINE mEnd == starts[m] + decoded_len(data, starts[m])
    <3>6. mEnd \in Nat /\ mEnd <= starts[last] /\ pos < mEnd
      BY <1>4, <3>3, <3>4, <3>5
    <3>7. starts[last] <= pos
      <4> DEFINE a == starts[last]
                 b == decoded_len(data, starts[last])
      <4>1. a \in Nat /\ b \in Nat /\ pos \in Nat /\ a + b <= pos
        BY <1>1, <3>2, <3>4, <3>5
      <4> HIDE DEF a, b
      <4>2. a <= pos
        BY <4>1
      <4>3. QED
        BY <4>2 DEF a
    <3> HIDE DEF mEnd, last
    <3>8. QED
      BY SMTT(30), <1>1, <3>4, <3>6, <3>7
  <2>5. QED
    BY <1>1, <2>1, <2>3, <2>4
\* and not one after the next: that one starts behind pos
<1>7. m = Len(handled) + 1
  <2> DEFINE next == Len(handled) + 1
  <2>1. next \in 1 .. Len(starts) /\ pos <= starts[next]
    BY <1>1, <1>2, <1>6
  <2>2. ASSUME m > next PROVE FALSE
    <3>1. starts[next] + decoded_len(data, starts[next]) <= starts[m]
      BY <2>1, <2>2 DEF IInv, WholePackets
    <3>2. decoded_len(data, starts[next]) \in Nat /\ starts[next] \in Nat /\ starts[m] \in Nat
      BY <1>1, <1>5, <2>1
    <3>3. decoded_len(data, starts[next]) >= MIN_PKT_LEN
      <4>1. ValidAt(data, starts[next])
        BY <2>1 DEF IInv, WholePackets
      <4>2. QED
        BY <1>1, <3>2, <4>1, ValidIsAtPacket
    <3>4. QED
      BY SMTT(30), <1>1, <1>4, <2>1, <3>1, <3>2, <3>3 DEF MIN_PKT_LEN
  <2>3. QED
    BY <1>1, <1>6, <2>2
<1>8. QED
  BY <1>1, <1>2, <1>4, <1>6, <1>7

\* A packet is taken: it is handled if it is valid, and the pointer goes past it.
LEMMA TakePacketIInv == IInv /\ TakePacket => IInv'
<1> SUFFICES ASSUME IInv, TakePacket PROVE IInv'
  OBVIOUS
<1> DEFINE pkt == decode_packet(data, pos)
           ok == Accepts(pkt)
           plen == decoded_len(data, pos)
           N == Len(handled)
<1>1. pc = "scan" /\ Len(data) - pos >= MIN_PKT_LEN /\ AtPacket
  BY DEF TakePacket, Left
<1>2. /\ pos' = pos + plen /\ data' = data /\ starts' = starts /\ pc' = "scan"
      /\ handled' = IF ok THEN Append(handled, [at |-> pos, pkt |-> pkt]) ELSE handled
  BY <1>1 DEF TakePacket
<1>3. /\ data \in Seq(Byte) /\ Len(data) \in Nat /\ pos \in Nat
      /\ starts \in Seq(Nat) /\ Len(starts) \in Nat
      /\ \A n \in 1 .. Len(starts) : starts[n] \in Nat
      /\ handled \in Seq([at : Nat, pkt : Packet]) /\ N \in Nat
      /\ \A n \in 1 .. N : handled[n].at \in Nat
  BY <1>1, ScanFacts
<1>4. plen \in Nat /\ plen # 0 /\ plen >= MIN_PKT_LEN /\ pos + plen <= Len(data)
  BY <1>1, <1>3, DecodedLenBounds DEF AtPacket
<1>5. pkt \in Packet
  BY <1>1, <1>3, DecodedType DEF AtPacket
<1>6. [at |-> pos, pkt |-> pkt] \in [at : Nat, pkt : Packet]
  BY <1>3, <1>5
<1>7. /\ Len(handled') = IF ok THEN N + 1 ELSE N
      /\ \A n \in 1 .. N : handled'[n] = handled[n]
      /\ ok => handled'[N + 1] = [at |-> pos, pkt |-> pkt]
      /\ handled' \in Seq([at : Nat, pkt : Packet])
  <2>1. CASE ok
    <3> DEFINE T == [at : Nat, pkt : Packet]
               e == [at |-> pos, pkt |-> pkt]
    <3>1. handled \in Seq(T) /\ e \in T
      BY <1>3, <1>6
    <3>2. handled' = Append(handled, e)
      BY <1>2, <2>1
    <3> HIDE DEF T, e
    <3>3. /\ Append(handled, e) \in Seq(T)
          /\ Len(Append(handled, e)) = Len(handled) + 1
          /\ \A n \in 1 .. Len(handled) : Append(handled, e)[n] = handled[n]
          /\ Append(handled, e)[Len(handled) + 1] = e
      BY <3>1, AppendProperties
    <3>4. QED
      BY <2>1, <3>2, <3>3 DEF T, e
  <2>2. CASE ~ok
    BY <1>2, <1>3, <2>2
  <2>3. QED
    BY <2>1, <2>2
<1>8. TypeOK' /\ Fresh'
  BY <1>2, <1>3, <1>4, <1>7 DEF TypeOK, Fresh
<1>9. WholePackets(data, starts)'
  BY <1>2 DEF IInv, WholePackets
<1>10. HandledDisjoint'
  <2>1. HandledDisjoint
    BY DEF IInv
  <2>2. ASSUME NEW n \in 1 .. N
        PROVE  /\ ValidAt(data, handled[n].at)
               /\ handled[n].pkt = decode_packet(data, handled[n].at)
               /\ EndOf(n)' = handled[n].at + decoded_len(data, handled[n].at)
               /\ EndOf(n)' \in Nat
               /\ EndOf(n)' <= (IF n < N THEN handled[n + 1].at ELSE pos)
    <3>1. /\ ValidAt(data, handled[n].at)
          /\ handled[n].pkt = decode_packet(data, handled[n].at)
          /\ handled[n].at + decoded_len(data, handled[n].at)
                <= (IF n < N THEN handled[n + 1].at ELSE pos)
      BY <2>1 DEF HandledDisjoint, EndOf
    <3>2. EndOf(n)' = handled[n].at + decoded_len(data, handled[n].at)
      BY <1>2, <1>7 DEF EndOf
    <3>3. decoded_len(data, handled[n].at) \in Nat
      BY <1>3, <3>1, DecodedLenBounds DEF ValidAt
    <3>4. QED
      BY SMTT(30), <1>3, <3>1, <3>2, <3>3
  <2>3. pos' <= Len(data')
    BY <1>2, <1>4
  <2>4. CASE ok
    <3>1. ValidAt(data, pos)
      BY <1>1, <2>4 DEF ValidAt, AtPacket
    <3>2. Len(handled') = N + 1 /\ handled'[N + 1] = [at |-> pos, pkt |-> pkt]
      BY <1>7, <2>4
    <3>4. ASSUME NEW n \in 1 .. N + 1
          PROVE  /\ ValidAt(data, handled'[n].at)
                 /\ handled'[n].pkt = decode_packet(data, handled'[n].at)
                 /\ EndOf(n)' <= (IF n < N + 1 THEN handled'[n + 1].at ELSE pos')
      <4> DEFINE at == handled'[n].at
      <4>1. CASE n = N + 1
        <5>1. handled'[n].at = pos /\ handled'[n].pkt = pkt
          BY <3>2, <4>1
        <5>2. EndOf(n)' = pos + plen
          BY <1>2, <5>1 DEF EndOf
        <5>3. ~(n < N + 1)
          BY <1>3, <4>1
        <5>4. QED
          BY <1>2, <1>4, <3>1, <5>1, <5>2, <5>3
      <4>2. CASE n \in 1 .. N
        <5>1. handled'[n] = handled[n] /\ n < N + 1
          BY SMTT(30), <1>3, <1>7, <4>2
        <5>2. EndOf(n)' <= (IF n < N THEN handled[n + 1].at ELSE pos)
          BY <2>2, <4>2
        <5>3. handled'[n + 1].at = (IF n < N THEN handled[n + 1].at ELSE pos)
          <6>1. CASE n < N
            <7>1. n + 1 \in 1 .. N
              BY <1>3, <4>2, <6>1
            <7>2. QED
              BY <1>7, <6>1, <7>1
          <6>2. CASE ~(n < N)
            <7>1. n = N
              BY <1>3, <4>2, <6>2
            <7>2. QED
              BY <3>2, <6>2, <7>1
          <6>3. QED
            BY <6>1, <6>2
        <5>4. ValidAt(data, handled[n].at) /\ handled[n].pkt = decode_packet(data, handled[n].at)
          BY <2>2, <4>2
        <5>5. QED
          BY <5>1, <5>2, <5>3, <5>4
      <4>3. QED
        BY <1>3, <4>1, <4>2
    <3>5. QED
      BY <1>2, <2>3, <3>2, <3>4 DEF HandledDisjoint
  <2>5. CASE ~ok
    <3>1. handled' = handled
      BY <1>2, <2>5
    <3>2. ASSUME NEW n \in 1 .. N
          PROVE  EndOf(n)' <= (IF n < N THEN handled[n + 1].at ELSE pos')
      BY SMTT(30), <1>2, <1>3, <1>4, <2>2
    <3>3. QED
      BY <1>2, <2>2, <2>3, <3>1, <3>2 DEF HandledDisjoint
  <2>6. QED
    BY <2>4, <2>5
<1>11. QuietProgress'
  <2> SUFFICES ASSUME QuietGaps'
               PROVE  /\ Len(handled') <= Len(starts')
                      /\ \A n \in 1 .. Len(handled') : handled'[n].at = starts'[n]
                      /\ Len(handled') < Len(starts') => pos' <= starts'[Len(handled') + 1]
    BY DEF QuietProgress
  <2>1. QuietGaps
    BY <1>2 DEF QuietGaps, InPacket
  <2>2. N < Len(starts) /\ pos = starts[N + 1]
    BY <1>1, <2>1, QuietTakesNext
  <2>3. N + 1 \in 1 .. Len(starts)
    BY <1>3, <2>2
  <2>4. ok
    BY <2>2, <2>3 DEF IInv, WholePackets, ValidAt
  <2>5. \A n \in 1 .. N : handled[n].at = starts[n]
    BY <2>1 DEF IInv, QuietProgress
  <2>6. Len(handled') = N + 1 /\ handled'[N + 1].at = pos
    BY <1>7, <2>4
  <2>7. N + 1 < Len(starts) => pos + plen <= starts[N + 2]
    BY <1>3, <2>2, <2>3 DEF IInv, WholePackets
  <2>8. \A n \in 1 .. N + 1 : handled'[n].at = starts[n]
    <3> TAKE n \in 1 .. N + 1
    <3>1. CASE n \in 1 .. N
      <4>1. handled'[n] = handled[n]
        BY <1>7, <3>1
      <4>2. QED
        BY <2>5, <3>1, <4>1
    <3>2. CASE n = N + 1
      BY <2>2, <2>6, <3>2
    <3>3. QED
      BY <1>3, <3>1, <3>2
  <2>9. Len(handled') <= Len(starts')
    BY <1>2, <2>6, <1>3, <2>3
  <2>10. \A n \in 1 .. Len(handled') : handled'[n].at = starts'[n]
    BY <1>2, <2>6, <2>8
  <2>11. Len(handled') < Len(starts') => pos' <= starts'[Len(handled') + 1]
    <3>1. (N + 1) + 1 = N + 2
      BY <1>3
    <3>2. QED
      BY <1>2, <2>6, <2>7, <3>1
  <2>12. QED
    BY <2>9, <2>10, <2>11
<1>12. QED
  BY <1>8, <1>9, <1>10, <1>11 DEF IInv

\* The end of a scan forgets the buffer.
LEMMA EndScanIInv == IInv /\ EndScan => IInv'
<1> SUFFICES ASSUME IInv, EndScan PROVE IInv'
  OBVIOUS
<1>1. pc' = "read" /\ data' = <<>> /\ starts' = <<>> /\ pos' = 0 /\ handled' = <<>>
  BY DEF EndScan
<1>2. Len(starts') = 0 /\ Len(handled') = 0 /\ Len(data') = 0
  BY <1>1
<1>3. TypeOK' /\ Fresh'
  BY <1>1 DEF TypeOK, Fresh
<1>4. WholePackets(data, starts)'
  BY <1>2 DEF WholePackets
<1>5. HandledDisjoint'
  BY <1>1, <1>2 DEF HandledDisjoint
<1>6. QuietProgress'
  BY <1>2 DEF QuietProgress
<1>7. QED
  BY <1>3, <1>4, <1>5, <1>6 DEF IInv

LEMMA StepIInv == IInv /\ [Next]_vars => IInv'
<1> SUFFICES ASSUME IInv, [Next]_vars PROVE IInv'
  OBVIOUS
<1>1. CASE Next
  BY <1>1, ReadPortIInv, SkipByteIInv, TakePacketIInv, EndScanIInv DEF Next
<1>2. CASE UNCHANGED vars
  BY <1>2 DEF vars, IInv, TypeOK, Fresh, WholePackets, HandledDisjoint, EndOf,
              QuietProgress, QuietGaps, InPacket
<1>3. QED
  BY <1>1, <1>2

-----------------------------------------------------------------------------
(***************************************************************************)
(* Theorems                                                                *)
(***************************************************************************)

\* The invariant holds of every behaviour, whatever buffers the port returns.
LEMMA Inductive == Spec => []IInv
<1>1. Init => IInv
  BY InitIInv
<1>2. IInv /\ [Next]_vars => IInv'
  BY StepIInv
<1>3. QED
  BY <1>1, <1>2, PTL DEF Spec

\* Type correctness: in particular the pointer never becomes negative and every
\* packet handed over is one.
THEOREM TypeCorrect == Spec => []TypeOK
<1>1. IInv => TypeOK
  BY DEF IInv
<1>2. QED
  BY <1>1, Inductive, PTL

\* The scan never reads past the bytes the port returned (buf += decoded_len,
\* buf_len -= decoded_len), and never interprets a byte twice.
THEOREM ScanDisjoint == Spec => []HandledDisjoint
<1>1. IInv => HandledDisjoint
  BY DEF IInv
<1>2. QED
  BY <1>1, Inductive, PTL

\* Noise without a header byte never costs the scan a packet.
THEOREM QuietScanComplete == Spec => []QuietNoiseHarmless
<1>1. IInv => QuietNoiseHarmless
  <2> SUFFICES ASSUME IInv, pc = "scan", Left < MIN_PKT_LEN, QuietGaps
               PROVE  /\ Len(handled) = Len(starts)
                      /\ \A n \in 1 .. Len(starts) : handled[n].at = starts[n]
    BY DEF QuietNoiseHarmless
  <2>1. /\ Len(handled) <= Len(starts)
        /\ \A n \in 1 .. Len(handled) : handled[n].at = starts[n]
        /\ Len(handled) < Len(starts) => pos <= starts[Len(handled) + 1]
    BY DEF IInv, QuietProgress
  <2>2. /\ Len(starts) \in Nat /\ Len(handled) \in Nat /\ Len(data) \in Nat /\ pos \in Nat
        /\ \A n \in 1 .. Len(starts) : starts[n] \in Nat
    BY ScanFacts
  <2>3. ASSUME Len(handled) < Len(starts) PROVE FALSE
    <3> DEFINE next == starts[Len(handled) + 1]
    <3>1. Len(handled) + 1 \in 1 .. Len(starts) /\ next \in Nat /\ pos <= next
      BY <2>1, <2>2, <2>3
    <3>2. Len(data) - next >= MIN_PKT_LEN
      BY <3>1 DEF IInv, WholePackets, ValidAt
    <3>3. QED
      BY <2>2, <3>1, <3>2 DEF Left, MIN_PKT_LEN
  <2>4. QED
    BY <2>1, <2>2, <2>3
<1>2. QED
  BY <1>1, Inductive, PTL

-----------------------------------------------------------------------------
(***************************************************************************)
(* The loop computes packets_in                                            *)
(***************************************************************************)

Packets(h) == [n \in 1 .. Len(h) |-> h[n].pkt]

\* What has been handled, and what the rest of the buffer will give.
ScanProgress ==
    pc = "scan" => packets_in(data, Byte) = Packets(handled) \o packets_from(data, Byte)[pos]

LEMMA PacketsOfAppend ==
    ASSUME NEW h \in Seq([at : Nat, pkt : Packet]), NEW e \in [at : Nat, pkt : Packet]
    PROVE  /\ Packets(h) \in Seq(Packet)
           /\ Packets(Append(h, e)) = Packets(h) \o <<e.pkt>>
<1>1. \A n \in 1 .. Len(h) : h[n].pkt \in Packet
  <2> TAKE n \in 1 .. Len(h)
  <2>1. h[n] \in [at : Nat, pkt : Packet]
    BY ElementOfSeq
  <2>2. QED
    BY <2>1
<1>2. Packets(h) \in Seq(Packet)
  <2>1. Len(h) \in Nat
    OBVIOUS
  <2>2. QED
    BY <1>1, <2>1 DEF Packets
<1> DEFINE T == [at : Nat, pkt : Packet]
           x == e.pkt
<1>3. e \in T /\ h \in Seq(T) /\ x = e.pkt
  OBVIOUS
<1> HIDE DEF T, x
<1>4. /\ Len(Append(h, e)) = Len(h) + 1
      /\ \A n \in 1 .. Len(h) : Append(h, e)[n] = h[n]
      /\ Append(h, e)[Len(h) + 1] = e
      /\ Append(h, e) \in Seq(T)
  BY <1>3, AppendProperties
<1>5. /\ Packets(h) \o <<x>> = Append(Packets(h), x)
  BY <1>2
<1>6. Len(Packets(h)) = Len(h)
  BY <1>3 DEF Packets
<1>7. Packets(Append(h, e)) = Append(Packets(h), x)
  BY <1>3, <1>4, <1>6 DEF Packets
<1>8. QED
  BY <1>2, <1>3, <1>5, <1>7

LEMMA ScanProgressInit == Init => ScanProgress
BY DEF Init, ScanProgress

\* At the start of a scan everything is still to come.
LEMMA ReadPortProgress == IInv /\ ReadPort => ScanProgress'
<1> SUFFICES ASSUME IInv, ReadPort PROVE ScanProgress'
  OBVIOUS
<1>1. data' \in Seq(Byte) /\ pos' = 0 /\ handled' = <<>>
  BY ReadsAssumption DEF ReadPort, IInv, Fresh
<1> DEFINE F == packets_from(data', Byte)
           H == { p \in Packet : Handles(p, Byte) }
<1>2. F[0] \in Seq(H)
  BY <1>1, PacketsFromType
<1>3. Packets(handled') = <<>>
  BY <1>1 DEF Packets
<1>4. packets_in(data', Byte) = F[0]
  BY DEF packets_in
<1> HIDE DEF F, H
<1>5. <<>> \o F[0] = F[0]
  BY <1>2, ConcatEmptySeq
<1>6. QED
  BY <1>1, <1>3, <1>4, <1>5 DEF ScanProgress, F

LEMMA SkipByteProgress == IInv /\ ScanProgress /\ SkipByte => ScanProgress'
<1> SUFFICES ASSUME IInv, ScanProgress, SkipByte PROVE ScanProgress'
  OBVIOUS
<1>1. /\ pc = "scan" /\ Len(data) - pos >= MIN_PKT_LEN
      /\ data[pos + 1] # PKT_HDR \/ decoded_len(data, pos) = 0
  BY DEF SkipByte, Left, AtPacket
<1>2. pos' = pos + 1 /\ data' = data /\ handled' = handled
  BY <1>1 DEF SkipByte
<1>3. data \in Seq(Byte) /\ pos \in 0 .. Len(data)
  BY <1>1, ScanFacts DEF MIN_PKT_LEN
<1>4. packets_from(data, Byte)[pos] = packets_from(data, Byte)[pos + 1]
  BY <1>1, <1>3, PacketsFromSkip
<1>5. QED
  BY <1>1, <1>2, <1>4 DEF ScanProgress

LEMMA TakePacketProgress == IInv /\ ScanProgress /\ TakePacket => ScanProgress'
<1> SUFFICES ASSUME IInv, ScanProgress, TakePacket PROVE ScanProgress'
  OBVIOUS
<1> DEFINE p == decode_packet(data, pos)
           plen == decoded_len(data, pos)
           F == packets_from(data, Byte)
           e == [at |-> pos, pkt |-> p]
           head == IF Handles(p, Byte) THEN <<p>> ELSE <<>>
           H == { q \in Packet : Handles(q, Byte) }
<1>1. /\ pc = "scan" /\ Len(data) - pos >= MIN_PKT_LEN
      /\ data[pos + 1] = PKT_HDR /\ plen # 0
  BY DEF TakePacket, Left, AtPacket
<1>2. /\ pos' = pos + plen /\ data' = data
      /\ handled' = IF Accepts(p) THEN Append(handled, e) ELSE handled
  BY <1>1 DEF TakePacket
<1>3. data \in Seq(Byte) /\ pos \in 0 .. Len(data) /\ handled \in Seq([at : Nat, pkt : Packet])
  BY <1>1, ScanFacts DEF MIN_PKT_LEN
<1>4. F[pos] = head \o F[pos + plen]
  BY <1>1, <1>3, PacketsFromTake
<1>5. p \in Packet /\ plen \in Nat /\ pos + plen \in 0 .. Len(data)
  BY <1>1, <1>3, DecodedType, DecodedLenBounds DEF MIN_PKT_LEN
<1>6. F[pos + plen] \in Seq(Packet)
  <2>1. F[pos + plen] \in Seq(H)
    BY <1>3, <1>5, PacketsFromType
  <2>2. H \subseteq Packet
    OBVIOUS
  <2> HIDE DEF F, H
  <2>3. QED
    BY <2>1, <2>2, SeqMonotonic
<1>7. Handles(p, Byte) <=> Accepts(p)
  <2>1. p.cmd \in Byte
    BY <1>5 DEF Packet
  <2>2. QED
    BY <2>1 DEF Handles
<1>8. e \in [at : Nat, pkt : Packet] /\ e.pkt = p
  BY <1>3, <1>5
<1>9. packets_in(data, Byte) = Packets(handled) \o F[pos]
  BY <1>1 DEF ScanProgress
<1>10. CASE Accepts(p)
  <2>1. Packets(handled') = Packets(handled) \o <<p>> /\ Packets(handled) \in Seq(Packet)
    BY <1>2, <1>3, <1>8, <1>10, PacketsOfAppend
  <2>2. F[pos] = <<p>> \o F[pos + plen]
    BY <1>4, <1>7, <1>10
  <2>3. (Packets(handled) \o <<p>>) \o F[pos + plen] = Packets(handled) \o (<<p>> \o F[pos + plen])
    <3> DEFINE one == <<p>>
               rest == F[pos + plen]
    <3>1. one \in Seq(Packet) /\ rest \in Seq(Packet) /\ Packets(handled) \in Seq(Packet)
      BY <1>5, <1>6, <2>1
    <3> HIDE DEF one, rest
    <3>2. (Packets(handled) \o one) \o rest = Packets(handled) \o (one \o rest)
      BY <3>1, ConcatAssociative
    <3>3. QED
      BY <3>2 DEF one, rest
  <2>4. packets_in(data, Byte) = Packets(handled') \o F[pos + plen]
    BY <1>9, <2>1, <2>2, <2>3
  <2>5. QED
    BY <1>2, <2>4 DEF ScanProgress
<1>11. CASE ~Accepts(p)
  <2>1. F[pos] = F[pos + plen]
    <3>1. F[pos] = <<>> \o F[pos + plen]
      BY <1>4, <1>7, <1>11
    <3> HIDE DEF F
    <3>2. QED
      BY <1>6, <3>1, ConcatEmptySeq
  <2>2. QED
    BY <1>2, <1>9, <1>11, <2>1 DEF ScanProgress
<1>12. QED
  BY <1>10, <1>11

\* What the loop has handled when it ends is what packets_in says of the bytes of
\* this read, for every buffer and every checksum.
THEOREM ScanComputesPacketsIn == Spec => []ScanIsFunction
<1>1. Init => ScanProgress
  BY ScanProgressInit
<1>2. IInv /\ ScanProgress /\ [Next]_vars => ScanProgress'
  <2> SUFFICES ASSUME IInv, ScanProgress, [Next]_vars PROVE ScanProgress'
    OBVIOUS
  <2>1. CASE ReadPort \/ SkipByte \/ TakePacket
    BY <2>1, ReadPortProgress, SkipByteProgress, TakePacketProgress
  <2>2. CASE EndScan
    BY <2>2 DEF EndScan, ScanProgress
  <2>3. CASE UNCHANGED vars
    BY <2>3 DEF vars, ScanProgress, Packets
  <2>4. QED
    BY <2>1, <2>2, <2>3 DEF Next
<1>3. IInv /\ ScanProgress => ScanIsFunction
  <2> SUFFICES ASSUME IInv, ScanProgress, pc = "scan", Left < MIN_PKT_LEN
               PROVE  packets_in(data, Byte) = Packets(handled)
    BY DEF ScanIsFunction, Packets
  <2> DEFINE F == packets_from(data, Byte)
  <2>1. /\ data \in Seq(Byte) /\ pos \in 0 .. Len(data)
        /\ handled \in Seq([at : Nat, pkt : Packet])
    BY ScanFacts DEF IInv, HandledDisjoint
  <2>2. F[pos] = <<>>
    BY <2>1, PacketsFromEnd DEF Left
  <2>3. Packets(handled) \in Seq(Packet)
    <3>1. \A n \in 1 .. Len(handled) : handled[n] \in [at : Nat, pkt : Packet]
      BY <2>1, ElementOfSeq
    <3>2. \A n \in 1 .. Len(handled) : handled[n].pkt \in Packet
      BY <3>1
    <3>3. QED
      BY <2>1, <3>2 DEF Packets
  <2>4. packets_in(data, Byte) = Packets(handled) \o F[pos]
    BY DEF ScanProgress
  <2> HIDE DEF F
  <2>5. QED
    BY <2>2, <2>3, <2>4, ConcatEmptySeq
<1>4. QED
  BY <1>1, <1>2, <1>3, Inductive, PTL DEF Spec
=============================================================================
